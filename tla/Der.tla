-------------------------------- MODULE Der --------------------------------
(***************************************************************************)
(* Signatures and secret keys as bytes: the strict DER parser and          *)
(* serializer of ecdsa_impl.h, the compact form, the lax parser and the    *)
(* key format of contrib/.  Sizes and bytes are those of the code.  A      *)
(* scalar is its 32 bytes, the highest first.  Reading behind the end of   *)
(* the input would stop TLC.                                               *)
(***************************************************************************)
EXTENDS Words

CONSTANTS
    DerContents,  \* contents of integers: sequences of bytes
    Keys          \* secret keys

\* The longest integer that a test of its encoding is made from.  Lengths of
\* inputs then have at most two bytes.
MaxContent == 20000
ASSUME DerAssumption ==
    /\ \A c \in DerContents : c \in Seq(Byte) /\ Len(c) <= MaxContent
    /\ \A key \in Keys : key \in Seq(Byte) /\ Len(key) = 32

Order == <<255,255,255,255, 255,255,255,255, 255,255,255,255, 255,255,255,254,
           186,174,220,230, 175,72,160,59, 191,210,94,140, 208,54,65,65>>
Scalar0   == Tuple(Zeros(32))

\* a < b, for numbers of 32 bytes.
Below(a, b) == \E i \in 1 .. 32 : a[i] < b[i] /\ \A j \in 1 .. i - 1 : a[j] = b[j]
InRange(a) == Below(a, Order)
Left(in, p) == Len(in) - p + 1

-----------------------------------------------------------------------------
(* secp256k1_der_read_len: at position p, the length, the position behind  *)
(* it, or failure.  Lengths are cut at 2^24, more than any input has.      *)

NoLength        == [ret |-> FALSE, len |-> 0, p |-> 0]
Length(len, p) == [ret |-> TRUE, len |-> len, p |-> p]
ReadBE(bytes) ==
    LET len[n \in 0 .. Len(bytes)] ==
            IF n = 0 THEN 0 ELSE IF len[n-1] >= 65536 THEN 16777216 ELSE len[n-1] * 256 + bytes[n]
    IN  len[Len(bytes)]

Long(in, p, len) == IF len > Left(in, p) \/ len < 128 THEN NoLength ELSE Length(len, p)

LongForm(in, p, lenleft) ==
    IF lenleft > Left(in, p) THEN NoLength
    ELSE IF in[p] = 0 \/ lenleft > 8 THEN NoLength
    ELSE Long(in, p + lenleft, ReadBE(SubSeq(in, p, p + lenleft - 1)))

der_read_len(in, p) ==
    IF p > Len(in) THEN NoLength
    ELSE IF in[p] = 255 \/ in[p] = 128 THEN NoLength
    ELSE IF in[p] < 128 THEN Length(in[p], p + 1)
    ELSE LongForm(in, p + 1, in[p] - 128)

-----------------------------------------------------------------------------
(* secp256k1_der_parse_integer: a number out of range is read, as 0.       *)

FailInt          == [ret |-> FALSE, r |-> Scalar0, p |-> 0]
ToScalar(bytes)  == Tuple(Zeros(32 - Len(bytes))) \o bytes
Number(bytes)    == IF Len(bytes) > 32 THEN Scalar0
                    ELSE IF InRange(ToScalar(bytes)) THEN ToScalar(bytes) ELSE Scalar0
Padded(bytes)    ==
    Len(bytes) > 1 /\ ((bytes[1] = 0 /\ bytes[2] < 128) \/ (bytes[1] = 255 /\ bytes[2] >= 128))
Unsigned(bytes)  == IF bytes[1] = 0 THEN SubSeq(bytes, 2, Len(bytes)) ELSE bytes
Integer(bytes, p) ==
    IF Padded(bytes) THEN FailInt
    ELSE [ret |-> TRUE, r |-> IF bytes[1] >= 128 THEN Scalar0 ELSE Number(Unsigned(bytes)), p |-> p]
Content(in, l) ==
    IF ~l.ret \/ l.len = 0 \/ l.len > Left(in, l.p) THEN FailInt
    ELSE Integer(SubSeq(in, l.p, l.p + l.len - 1), l.p + l.len)
der_parse_integer(in, p) ==
    IF p > Len(in) THEN FailInt
    ELSE IF in[p] # 2 THEN FailInt ELSE Content(in, der_read_len(in, p + 1))

-----------------------------------------------------------------------------
(* secp256k1_ecdsa_sig_parse and secp256k1_ecdsa_signature_parse_der: a    *)
(* signature that is no signature is all zeros.                            *)

Sig(r, s)   == [r |-> r, s |-> s]
NoSig       == [ret |-> FALSE, sig |-> Sig(Scalar0, Scalar0)]

\* Mutant: bytes behind the second integer are not seen.
Second_TrailingGarbage(in, r, s) ==
    IF s.ret THEN [ret |-> TRUE, sig |-> Sig(r.r, s.r)] ELSE NoSig

Second(in, r, s) ==
    IF s.ret /\ s.p = Len(in) + 1 THEN [ret |-> TRUE, sig |-> Sig(r.r, s.r)] ELSE NoSig
First(in, r)  == IF r.ret THEN Second(in, r, der_parse_integer(in, r.p)) ELSE NoSig
Body(in, l)   ==
    IF l.ret /\ l.len = Left(in, l.p) THEN First(in, der_parse_integer(in, l.p)) ELSE NoSig
signature_parse_der(in) ==
    IF Len(in) = 0 THEN NoSig ELSE IF in[1] # 48 THEN NoSig ELSE Body(in, der_read_len(in, 2))

\* secp256k1_ecdsa_sig_serialize: the shortest bytes with a clear top bit,
\* if the output has room; the size that is needed in any case.
Needless(bytes, i) == i < Len(bytes) /\ bytes[i] = 0 /\ bytes[i + 1] < 128
Dropped(bytes) ==
    CHOOSE n \in 0 .. Len(bytes) : (\A i \in 1 .. n : Needless(bytes, i)) /\ ~Needless(bytes, n + 1)
Shortest(bytes) == SubSeq(bytes, Dropped(bytes) + 1, Len(bytes))
Serialized(rp, sp, size) ==
    [ret  |-> size >= 6 + Len(rp) + Len(sp),
     size |-> 6 + Len(rp) + Len(sp),
     out  |-> IF size >= 6 + Len(rp) + Len(sp)
              THEN <<48, 4 + Len(rp) + Len(sp), 2, Len(rp)>> \o rp \o <<2, Len(sp)>> \o sp
              ELSE <<>>]
signature_serialize_der(sig, size) ==
    Serialized(Shortest(<<0>> \o sig.r), Shortest(<<0>> \o sig.s), size)

signature_parse_compact(in) ==
    IF InRange(SubSeq(in, 1, 32)) /\ InRange(SubSeq(in, 33, 64))
    THEN [ret |-> TRUE, sig |-> Sig(SubSeq(in, 1, 32), SubSeq(in, 33, 64))] ELSE NoSig
signature_serialize_compact(sig) == sig.r \o sig.s

-----------------------------------------------------------------------------
(* ecdsa_signature_parse_der_lax                                           *)

LeadingZeros(bytes) ==
    CHOOSE n \in 0 .. Len(bytes) :
        (\A i \in 1 .. n : bytes[i] = 0) /\ (n < Len(bytes) => bytes[n + 1] # 0)
WithoutZeros(bytes) == SubSeq(bytes, LeadingZeros(bytes) + 1, Len(bytes))

LaxLong(in, p, digits) == IF Len(digits) >= 8 THEN NoLength ELSE Length(ReadBE(digits), p)
LaxLength(in, p) ==
    IF p > Len(in) THEN NoLength
    ELSE IF in[p] < 128 THEN Length(in[p], p + 1)
    ELSE IF in[p] - 128 > Left(in, p + 1) THEN NoLength
    ELSE LaxLong(in, p + 1 + in[p] - 128, WithoutZeros(SubSeq(in, p + 1, p + in[p] - 128)))
LaxContent(in, l) ==
    IF l.ret /\ l.len <= Left(in, l.p)
    THEN [ret |-> TRUE, bytes |-> WithoutZeros(SubSeq(in, l.p, l.p + l.len - 1)), p |-> l.p + l.len]
    ELSE [ret |-> FALSE, bytes |-> <<>>, p |-> 0]
LaxInteger(in, p) ==
    IF p > Len(in) THEN LaxContent(in, NoLength)
    ELSE IF in[p] # 2 THEN LaxContent(in, NoLength) ELSE LaxContent(in, LaxLength(in, p + 1))

\* Out of range: parsed, as an invalid signature.
LaxSig(r, s) ==
    IF ~s.ret THEN NoSig
    ELSE [ret |-> TRUE,
          sig |-> IF Len(r) > 32 \/ Len(s.bytes) > 32 THEN NoSig.sig
                  ELSE signature_parse_compact(ToScalar(r) \o ToScalar(s.bytes)).sig]
LaxFirst(in, r) == IF r.ret THEN LaxSig(r.bytes, LaxInteger(in, r.p)) ELSE NoSig
LaxBody(in, skipped) ==
    IF skipped > Left(in, 3) THEN NoSig ELSE LaxFirst(in, LaxInteger(in, 3 + skipped))
parse_der_lax(in) ==
    IF Len(in) < 2 THEN NoSig
    ELSE IF in[1] # 48 THEN NoSig ELSE LaxBody(in, IF in[2] >= 128 THEN in[2] - 128 ELSE 0)

-----------------------------------------------------------------------------
(* Secret keys.  What stands for the curve and the public key is left out, *)
(* but for its length.                                                     *)

Curve(compressed) == Zeros(IF compressed THEN 141 + 33 ELSE 173 + 65)
KeyFile(key, compressed) ==
    (IF compressed THEN <<48, 129, 211, 2, 1, 1, 4, 32>> ELSE <<48, 130, 1, 19, 2, 1, 1, 4, 32>>)
        \o key \o Curve(compressed)

\* An invalid key is not exported, and the length of the output is 0.
IsKey(key) == InRange(key) /\ key # Scalar0
privkey_export_der(key, compressed) == IF IsKey(key) THEN KeyFile(key, compressed) ELSE <<>>

NoKey == [ret |-> FALSE, key |-> Scalar0]
Imported(key) == IF IsKey(key) THEN [ret |-> TRUE, key |-> key] ELSE NoKey
OctetString(in, p) ==
    IF Left(in, p) < 2 THEN NoKey
    ELSE IF in[p] # 4 \/ in[p + 1] > 32 \/ Left(in, p) < 2 + in[p + 1] THEN NoKey
    ELSE Imported(ToScalar(SubSeq(in, p + 2, p + 1 + in[p + 1])))
Version(in, p, len) ==
    IF Left(in, p) < len \/ Left(in, p) < 3 THEN NoKey
    ELSE IF SubSeq(in, p, p + 2) # <<2, 1, 1>> THEN NoKey ELSE OctetString(in, p + 3)
Sequence(in, lenb) ==
    IF lenb < 1 \/ lenb > 2 \/ Left(in, 3) < lenb THEN NoKey
    ELSE Version(in, 3 + lenb, in[2 + lenb] + (IF lenb > 1 THEN in[1 + lenb] * 256 ELSE 0))
privkey_import_der(in) ==
    IF Len(in) < 2 THEN NoKey
    ELSE IF in[1] # 48 \/ in[2] < 128 THEN NoKey ELSE Sequence(in, in[2] - 128)

-----------------------------------------------------------------------------
(***************************************************************************)
(* X.690: a value is a tag, the shortest form of its length, and contents; *)
(* an integer has the shortest contents in two's complement.               *)
(***************************************************************************)
DerLength(len) ==
    IF len < 128 THEN <<len>> ELSE IF len < 256 THEN <<129, len>>
                              ELSE <<130, len \div 256, len % 256>>
Tlv(tag, contents) == <<tag>> \o DerLength(Len(contents)) \o contents
Size(len) == 1 + Len(DerLength(len)) + len
IsMinimal(c) == Len(c) > 0 /\ ~(Len(c) > 1 /\ c[1] = (IF c[2] >= 128 THEN 255 ELSE 0))

\* The contents of both integers, if the input is the DER of a pair: the
\* second ends the input, the first ends what is before it.
LastIntegers(in) ==
    {c \in {SubSeq(in, k, Len(in)) : k \in 2 .. Len(in)} :
         /\ IsMinimal(c) /\ Size(Len(c)) <= Len(in)
         /\ SubSeq(in, Len(in) - Size(Len(c)) + 1, Len(in)) = Tlv(2, c)}
Without(in, c) == SubSeq(in, 1, Len(in) - Size(Len(c)))
PairsIn(in) ==
    {c \in UNION {{<<c1, c2>> : c1 \in LastIntegers(Without(in, c2))} : c2 \in LastIntegers(in)} :
         in = Tlv(48, Tlv(2, c[1]) \o Tlv(2, c[2]))}

\* What a number in two's complement is as a scalar.
StdScalar(c) ==
    LET digits == WithoutZeros(c)
    IN  IF c[1] < 128 /\ Len(digits) <= 32 /\ InRange(ToScalar(digits)) THEN ToScalar(digits)
        ELSE Scalar0

-----------------------------------------------------------------------------
\* Inputs: a signature, with what may be wrong with one length or at the end
\* of it.
AnyLength(len) ==
    {DerLength(len), DerLength(len + 1), <<128>>, <<255>>, <<129, len % 256>>,
     <<130, 0, len % 256>>, <<130, len \div 256, len % 256>>,
     <<137, 0, 0, 0, 0, 0, 0, 0, 0, len % 256>>,
     <<137, 1, 0, 0, 0, 0, 0, 0, 0, len % 256>>, <<136, 1, 0, 0, 0, 0, 0, 0, len % 256>>}
Simple == Tlv(2, <<5>>)
WithLengths(c) ==
    UNION {{<<2>> \o len \o c \o Simple, Simple \o <<2>> \o len \o c} : len \in AnyLength(Len(c))}
Followed(c) == {Tlv(2, c) \o Tlv(2, d) : d \in DerContents}
Bodies == UNION {WithLengths(c) \cup Followed(c) : c \in DerContents}
Beginnings(c) == {SubSeq(Tlv(48, Tlv(2, c) \o Simple), 1, n) : n \in 0 .. 5}
Signatures ==
    {Tlv(48, b) : b \in Bodies}
    \cup {<<48>> \o len \o Simple \o Simple : len \in AnyLength(6)}
    \cup {Tlv(48, Simple \o Simple \o <<0>>), Tlv(48, Simple \o Simple) \o <<0>>,
          Tlv(49, Simple \o Simple), Tlv(48, Simple),
          Tlv(48, Tlv(3, <<5>>) \o Simple), <<48>>, <<>>}
    \cup UNION {Beginnings(c) : c \in DerContents}

SigReg(in, strict, lax, done) ==
    [unit |-> "der", in |-> in, strict |-> strict, lax |-> lax, done |-> done]
KeyReg(in, want, got, done) ==
    [unit |-> "derkey", in |-> in, want |-> want, got |-> got, done |-> done]

DerInit ==
    \/ \E in \in Signatures : st = SigReg(in, NoSig, NoSig, FALSE)
    \/ \E key \in Keys, compressed \in BOOLEAN :
           LET in == KeyFile(key, compressed)
           IN  \E cut \in {0, 1, 100, Len(in) - 40, Len(in) - 1} :
                   st = KeyReg(SubSeq(in, 1, Len(in) - cut),
                               IF cut = 0 THEN Imported(key) ELSE NoKey, NoKey, FALSE)
    \/ \E key \in Keys, compressed \in BOOLEAN :
           st = KeyReg(privkey_export_der(key, compressed), Imported(key), NoKey, FALSE)

DerParse ==
    /\ st.unit = "der" /\ ~st.done
    /\ st' = SigReg(st.in, signature_parse_der(st.in), parse_der_lax(st.in), TRUE)

DerImport ==
    /\ st.unit = "derkey" /\ ~st.done
    /\ st' = KeyReg(st.in, st.want, privkey_import_der(st.in), TRUE)

DerNext == DerParse \/ DerImport

DerSpec == DerInit /\ [][DerNext]_st

(***************************************************************************)
(* The strict parser accepts what X.690 says, and nothing else ("the only  *)
(* means to accomplish that is by strictly obeying a standard"), and reads *)
(* the numbers that it says.  What it reads is written back as the same    *)
(* bytes when the numbers are in range, into a buffer of exactly the       *)
(* length that the serializer asks for.  The lax parser accepts all of     *)
(* that, and agrees but for negative numbers.  An exported key is imported *)
(* again; a part of it is not, nor is a file with an invalid key, nor what *)
(* the export of such a key leaves.                                        *)
(***************************************************************************)
StrictIsX690(in, strict) ==
    /\ strict.ret <=> PairsIn(in) # {}
    /\ \A c \in PairsIn(in) : strict.sig = Sig(StdScalar(c[1]), StdScalar(c[2]))
WritesBack(in, sig) ==
    LET need == signature_serialize_der(sig, 0)
        out  == signature_serialize_der(sig, need.size)
    IN  /\ ~need.ret /\ out.ret /\ Len(out.out) = need.size /\ need.size <= 72
        /\ signature_parse_der(out.out) = [ret |-> TRUE, sig |-> sig]
        /\ (sig.r # Scalar0 /\ sig.s # Scalar0 => out.out = in)
        /\ signature_parse_compact(signature_serialize_compact(sig)) = [ret |-> TRUE, sig |-> sig]
CanVerify(sig) == sig.r # Scalar0 /\ sig.s # Scalar0
LaxFollows(in, strict, lax) ==
    /\ lax.ret
    /\ CanVerify(strict.sig) => lax.sig = strict.sig
    /\ (\A c \in PairsIn(in) : c[1][1] < 128 /\ c[2][1] < 128) =>
           (CanVerify(lax.sig) <=> CanVerify(strict.sig))
DerIsStrict ==
    /\ st.unit = "der" /\ st.done =>
        /\ StrictIsX690(st.in, st.strict)
        /\ st.strict.ret => WritesBack(st.in, st.strict.sig) /\ LaxFollows(st.in, st.strict, st.lax)
    /\ st.unit = "derkey" /\ st.done => st.got = st.want
=============================================================================
