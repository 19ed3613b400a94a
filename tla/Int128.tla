------------------------------ MODULE Int128 -------------------------------
(***************************************************************************)
(* 128-bit integers: the two implementations, a pair of words              *)
(* (int128_struct_impl.h, operators s_...) and the compiler's type         *)
(* (int128_native_impl.h, operators n_...), applied side by side.  The     *)
(* word has W bits, half words H.  An operation with a VERIFY_CHECK gives  *)
(* its verdict in the field ok.                                            *)
(***************************************************************************)
EXTENDS Words

CONSTANTS
    W,          \* bits of a word, 64 in the code
    DetWords    \* the words multiplied by det

ASSUME Int128Assumption == W \in Nat /\ W >= 2 /\ W % 2 = 0 /\ DetWords \subseteq Word(W)

\* Arithmetic: what the proofs use of powers, which the provers do not know.
ASSUME PowersOfTwo ==
    /\ 2^0 = 1 /\ 2^1 = 2
    /\ \A i \in 0 .. 2*W : 2^i \in Nat \ {0}
    /\ \A i, j \in 0 .. 2*W : i + j <= 2*W => 2^(i + j) = 2^i * 2^j

H    == W \div 2
U(x) == Low(x, W)
S(x) == Signed(x, W)
TopSet(x) == x >= 2^(W-1)

-----------------------------------------------------------------------------
(* A pair of words *)

\* secp256k1_umul128 and secp256k1_mul128: the product of four half products,
\* as its high and its low word.
ll(a, b)  == Low(a, H) * Low(b, H)
lh(a, b)  == Low(a, H) * Shr(b, H)
hl(a, b)  == Shr(a, H) * Low(b, H)
hh(a, b)  == Shr(a, H) * Shr(b, H)

\* Mutant: the carry of the middle is lost.
mid34_NoCarry(a, b) == Low(Shr(ll(a, b), H) + Low(lh(a, b), H) + Low(hl(a, b), H), H)

mid34(a, b)      == Shr(ll(a, b), H) + Low(lh(a, b), H) + Low(hl(a, b), H)
mul128_lo(a, b)  == U(mid34(a, b) * 2^H + Low(ll(a, b), H))
mul128_hi(a, b)  == U(hh(a, b) + Shr(lh(a, b), H) + Shr(hl(a, b), H) + Shr(mid34(a, b), H))

Pair(hi, lo)     == [hi |-> U(hi), lo |-> U(lo)]

s_u128_mul(a, b) == Pair(mul128_hi(a, b), mul128_lo(a, b))

\* The carry is seen by comparing the sum with what was added.
s_u128_accum_mul(r, a, b) ==
    LET lo == U(r.lo + mul128_lo(a, b))
    IN  Pair(r.hi + mul128_hi(a, b) + Bool(lo < mul128_lo(a, b)), lo)

s_u128_accum_u64(r, a) ==
    LET lo == U(r.lo + a) IN Pair(r.hi + Bool(lo < a), lo)

s_u128_rshift(r, n) ==
    IF n >= W THEN Pair(0, Shr(r.hi, n - W))
              ELSE Pair(Shr(r.hi, n), r.hi * 2^(W - n) + Shr(r.lo, n))

s_u128_check_bits(r, n) ==
    IF n >= W THEN Shr(r.hi, n - W) = 0 ELSE r.hi = 0 /\ Shr(r.lo, n) = 0

\* The checks speak of the high words only: adding numbers of one sign, or
\* subtracting one of the other sign, keeps the sign.
s_i128_accum_mul(r, a, b) ==
    LET lo == U(r.lo + mul128_lo(a, b))
        hi == U(mul128_hi(a, b) + Bool(lo < mul128_lo(a, b)))
    IN  [r  |-> Pair(r.hi + hi, lo),
         ok |-> TopSet(r.hi) = TopSet(hi) => TopSet(U(r.hi + hi)) = TopSet(hi)]

s_i128_dissip_mul(r, a, b) ==
    LET lo == mul128_lo(a, b)
        hi == U(mul128_hi(a, b) + Bool(r.lo < lo))
    IN  [r  |-> Pair(r.hi - hi, r.lo - lo),
         ok |-> TopSet(r.hi) # TopSet(hi) => TopSet(U(r.hi - hi)) = TopSet(r.hi)]

s_i128_det(a, b, c, d) == s_i128_dissip_mul(s_u128_mul(a, d), b, c)

s_i128_rshift(r, n) ==
    IF n >= W THEN Pair(Shr(S(r.hi), W - 1), Shr(S(r.hi), n - W))
              ELSE Pair(Shr(S(r.hi), n), r.hi * 2^(W - n) + Shr(r.lo, n))

s_i128_from_i64(a)   == Pair(Shr(a, W - 1), a)
s_i128_to_i64_ok(r)  == r.hi = U(-Shr(r.lo, W - 1))

s_i128_check_pow2(r, n, sign) ==
    IF n >= W THEN r.hi = U(sign * 2^(n - W)) /\ r.lo = 0
              ELSE r.hi = U(Shr(sign, 1)) /\ r.lo = U(sign * 2^n)

-----------------------------------------------------------------------------
(* The compiler's type: an integer, modulo 2^(2W) when it is unsigned *)

INT128_MAX == 2^(2*W - 1) - 1
INT128_MIN == -(2^(2*W - 1))

n_load(signed, hi, lo) == IF signed THEN Signed(U(hi) * 2^W + lo, 2*W) ELSE hi * 2^W + lo
n_u128_accum_mul(r, a, b)  == Low(r + a * b, 2*W)
n_u128_accum_u64(r, a)     == Low(r + a, 2*W)
n_rshift(r, n)             == Shr(r, n)
n_to_u64(r)                == U(r)
n_u128_hi_u64(r)           == Shr(r, W)
n_u128_check_bits(r, n)    == Shr(r, n) = 0
n_i128_accum_mul(r, a, b)  ==
    LET ab == a * b
    IN  [r |-> r + ab, ok |-> IF 0 <= ab THEN r <= INT128_MAX - ab ELSE INT128_MIN - ab <= r]
n_i128_det(a, b, c, d) ==
    LET ad == a * d  bc == b * c
    IN  [r |-> ad - bc, ok |-> IF 0 <= bc THEN INT128_MIN + bc <= ad ELSE ad <= INT128_MAX + bc]
n_i128_to_i64_ok(r)          == -(2^(W-1)) <= r /\ r <= 2^(W-1) - 1
n_i128_check_pow2(r, n, sign) == r = Signed(sign * 2^n, 2*W)

-----------------------------------------------------------------------------
(***************************************************************************)
(* One register in both implementations, unsigned or signed, until a check *)
(* of one of them fails.                                                   *)
(***************************************************************************)
WideReg(signed, s, n, ok) == [unit |-> "int128", signed |-> signed, s |-> s, n |-> n, ok |-> ok]
Passed == [s |-> TRUE, n |-> TRUE]

WideInit == \E signed \in BOOLEAN, hi, lo \in {0, 1, 2^(W-1), 2^W - 1} :
    st = WideReg(signed, Pair(hi, lo), n_load(signed, hi, lo), Passed)

IsWide(signed) == st.unit = "int128" /\ st.signed = signed /\ st.ok = Passed

WideMul == \E a, b \in Word(W) :
    \/ IsWide(FALSE) /\ st' = WideReg(FALSE, s_u128_mul(a, b), a * b, Passed)
    \/ IsWide(TRUE) /\ st' = WideReg(TRUE, s_u128_mul(S(a), S(b)), S(a) * S(b), Passed)

WideAccum == \E a, b \in Word(W) :
    \/ /\ IsWide(FALSE)
       /\ st' = WideReg(FALSE, s_u128_accum_mul(st.s, a, b), n_u128_accum_mul(st.n, a, b), Passed)
    \/ /\ IsWide(TRUE)
       /\ LET s == s_i128_accum_mul(st.s, S(a), S(b))
              n == n_i128_accum_mul(st.n, S(a), S(b))
          IN  st' = WideReg(TRUE, s.r, n.r, [s |-> s.ok, n |-> n.ok])

WideAccumWord == \E a \in Word(W) :
    /\ IsWide(FALSE)
    /\ st' = WideReg(FALSE, s_u128_accum_u64(st.s, a), n_u128_accum_u64(st.n, a), Passed)

WideDet == \E a, b, c, d \in DetWords :
    /\ IsWide(TRUE)
    /\ st.n = 0
    /\ LET s == s_i128_det(S(a), S(b), S(c), S(d))
           n == n_i128_det(S(a), S(b), S(c), S(d))
       IN  st' = WideReg(TRUE, s.r, n.r, [s |-> s.ok, n |-> n.ok])

WideShift == \E n \in 0 .. 2*W - 1 :
    \/ IsWide(FALSE) /\ st' = WideReg(FALSE, s_u128_rshift(st.s, n), n_rshift(st.n, n), Passed)
    \/ IsWide(TRUE) /\ st' = WideReg(TRUE, s_i128_rshift(st.s, n), n_rshift(st.n, n), Passed)

\* u128_from_u64 and i128_from_i64
WideFrom == \E a \in Word(W) :
    \/ IsWide(FALSE) /\ st' = WideReg(FALSE, Pair(0, a), a, Passed)
    \/ IsWide(TRUE) /\ st' = WideReg(TRUE, s_i128_from_i64(S(a)), S(a), Passed)

WideNext == WideMul \/ WideAccum \/ WideAccumWord \/ WideDet \/ WideShift \/ WideFrom

WideSpec == WideInit /\ [][WideNext]_st

(***************************************************************************)
(* The pair of words and the compiler's type agree after any sequence of   *)
(* operations: on the number, on every verdict of a VERIFY_CHECK (so the   *)
(* checks of the pair, which look at signs only, fail exactly when the     *)
(* result is no 128-bit number), and on what check_bits, check_pow2 and    *)
(* the conversions to a word say of it.                                    *)
(***************************************************************************)
SameUnsigned(s, n) ==
    /\ s = Pair(n_u128_hi_u64(n), n_to_u64(n))
    /\ \A k \in 0 .. 2*W - 1 : s_u128_check_bits(s, k) = n_u128_check_bits(n, k)

SameSigned(s, n) ==
    /\ s = Pair(Shr(n, W), n_to_u64(n))
    /\ s_i128_to_i64_ok(s) = n_i128_to_i64_ok(n)
    /\ \A k \in 0 .. 2*W - 2, sign \in {-1, 1} :
           s_i128_check_pow2(s, k, sign) = n_i128_check_pow2(n, k, sign)

WideImplementationsAgree == st.unit = "int128" =>
    /\ st.ok.s = st.ok.n
    /\ st.ok = Passed => IF st.signed THEN SameSigned(st.s, st.n) ELSE SameUnsigned(st.s, st.n)
=============================================================================
