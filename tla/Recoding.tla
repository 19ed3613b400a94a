------------------------------ MODULE Recoding ------------------------------
(***************************************************************************)
(* How the multiplications of src/src/ecmult_impl.h and                    *)
(* src/src/ecmult_const_impl.h write a scalar: split along the             *)
(* endomorphism (src/src/scalar_impl.h), then in signed digits.            *)
(***************************************************************************)
EXTENDS Group

CONSTANTS
    ScalarBits,  \* 256
    HalfBits,    \* 128
    A1, MinusB1, A2, B2   \* a reduced basis of the lattice {<<a, b>> : a + b*Lambda = 0}

ASSUME RecodingAssumption ==
    /\ 2^(ScalarBits - 1) < N /\ N < 2^ScalarBits /\ ScalarBits <= 2 * HalfBits
    /\ (A1 - MinusB1 * Lambda) % N = 0 /\ (A2 + B2 * Lambda) % N = 0
    /\ A1 * B2 + MinusB1 * A2 = N

Bits(a, offset, count) == (a \div 2^offset) % 2^count
ScalarHalf(a)   == IF a % 2 = 0 THEN a \div 2 ELSE ((a + N) \div 2) % N
ScalarIsHigh(a) == a > N \div 2

\* secp256k1_scalar_mul_shift_var rounds.
MulShift(a, b, shift) == (a * b + 2^(shift - 1)) \div 2^shift

\* secp256k1_scalar_split_lambda: r1 + Lambda * r2 = k, with r1 and r2 short up
\* to their sign.  g1 and g2 are the rounded 2^shift * B2 / N and
\* 2^shift * MinusB1 / N.
SplitLambda(k) ==
    LET shift == ScalarBits + HalfBits
        g1 == (2 * 2^shift * B2 + N) \div (2 * N)
        g2 == (2 * 2^shift * MinusB1 + N) \div (2 * N)
        r2 == (MulShift(k, g1, shift) * MinusB1 + MulShift(k, g2, shift) * (N - B2)) % N
    IN  <<(k - r2 * Lambda) % N, r2>>

Split128(k) == <<k % 2^HalfBits, k \div 2^HalfBits>>

\* secp256k1_ecmult_wnaf: digits that are zero or odd and below 2^(w-1); the top
\* bit of the scalar says that its negative is the short one.
Wnaf(len, k, w) ==
    LET negative == Bits(k, ScalarBits - 1, 1) = 1
        s    == IF negative THEN N - k ELSE k
        sign == IF negative THEN -1 ELSE 1
        digits[bit \in 0 .. len, carry \in 0 .. 1] ==
            LET now  == IF w > len - bit THEN len - bit ELSE w
                word == Bits(s, bit, now) + carry
                c    == Bits(word, w - 1, 1)
            IN  IF bit = len THEN [i \in 0 .. len-1 |-> 0]
                ELSE IF Bits(s, bit, 1) = carry THEN digits[bit + 1, carry]
                ELSE [digits[bit + now, c] EXCEPT ![bit] = sign * (word - c * 2^w)]
    IN  digits[0, 0]

\* secp256k1_wnaf_fixed: odd digits at every w-th bit, but for the leading zeros
\* and the 1s that cancel against the digit below; and the skew that makes the
\* scalar odd.
WnafFixed(k, w) ==
    LET size    == (HalfBits + w - 1) \div w
        lastw   == HalfBits - (size - 1) * w
        val(pos) == Bits(k, pos * w, IF pos = size - 1 THEN lastw ELSE w)
        skew    == IF k % 2 = 0 THEN 1 ELSE 0
        maxpos  == CHOOSE p \in 0 .. size-1 :
                      (p = 0 \/ val(p) # 0) /\ \A q \in p+1 .. size-1 : val(q) = 0
        Borrow(d, pos) == IF val(pos) % 2 = 0
                          THEN [d EXCEPT ![pos-1] = @ - 2^w, ![pos] = val(pos) + 1]
                          ELSE [d EXCEPT ![pos] = val(pos)]
        Cancel(d, pos) == IF pos >= 2 /\ \/ d[pos-1] = 1 /\ d[pos-2] < 0
                                         \/ d[pos-1] = -1 /\ d[pos-2] > 0
                          THEN [d EXCEPT ![pos-2] = @ + d[pos-1] * 2^w, ![pos-1] = 0]
                          ELSE d
        digits[pos \in 0 .. size-1] ==
            IF pos = 0 THEN [i \in 0 .. size-1 |-> IF i = 0 THEN val(0) + skew ELSE 0]
            ELSE Cancel(Borrow(digits[pos-1], pos), pos)
    IN  IF k = 0 THEN [digit |-> [i \in 0 .. size-1 |-> 0], skew |-> 0]
        ELSE [digit |-> digits[maxpos], skew |-> skew]
=============================================================================
