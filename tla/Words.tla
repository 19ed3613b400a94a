------------------------------- MODULE Words -------------------------------
(***************************************************************************)
(* Machine words of any width, for the modules of the library's arithmetic *)
(* (int128, scalars, field elements, modular inverses, hashes).  An        *)
(* unsigned word is a natural number, a signed one an integer; \div rounds *)
(* down, as the shifts of the code do on every platform it supports        *)
(* (util.h checks that a right shift of a negative number keeps the sign). *)
(*                                                                         *)
(* The primitives are functions of registers, none of which keeps state    *)
(* between calls.  The one variable is the unit under test with its        *)
(* registers: a record with a field unit that names it.  Each unit has     *)
(* steps for its own, and leaves the others alone.                         *)
(***************************************************************************)
EXTENDS Integers, Sequences, FiniteSetsExt, SequencesExt

VARIABLE st

Pow2(n)       == 2^n
Word(n)       == 0 .. 2^n - 1
Byte          == 0 .. 255
Low(x, n)     == x % 2^n
Shr(x, n)     == x \div 2^n
Bit(x, i)     == (x \div 2^i) % 2
Odd(x)        == x % 2 = 1
Bool(b)       == IF b THEN 1 ELSE 0

\* The signed word of n bits with the bits of x.
Signed(x, n)  == LET u == x % 2^n IN IF u >= 2^(n-1) THEN u - 2^n ELSE u
IsSigned(x, n) == -(2^(n-1)) <= x /\ x < 2^(n-1)

\* The number with limbs a[1], a[2], ..., each n bits, the lowest first; and
\* its remainder modulo m, for numbers that are too long for TLC.
Value(a, n)   == FoldRight(LAMBDA x, acc : x + acc * 2^n, a, 0)
Rem(a, n, m)  == FoldRight(LAMBDA x, acc : (x + acc * 2^n) % m, a, 0)

\* A sequence that TLC evaluates once, not at every use of an element.
Tuple(s) == s \o <<>>

Zeros(n) == [i \in 1 .. n |-> 0]

\* The lowest k limbs of x.
Limbs(x, n, k) == Tuple([i \in 1 .. k |-> (x \div 2^(n * (i-1))) % 2^n])

\* The bits of words a of w bits as n words of s bits: every word that has
\* bits of the i-th is shifted into place, and what does not belong is cut.
Shifted(x, k) == IF k >= 0 THEN x * 2^k ELSE x \div 2^(-k)
Regroup(a, w, s, n) ==
    Tuple([i \in 1 .. n |->
        MapThenSumSet(LAMBDA j : Shifted(a[j], w * (j-1) - s * (i-1)),
                      {j \in DOMAIN a : w * j > s * (i-1) /\ w * (j-1) < s * i}) % 2^s])

\* a * b modulo m, and the two halves of n bits of a * b, for a, b and m of
\* 24 bits and n even.
Digit(b, k) == (b \div 64^k) % 64
Horner(x, a, d, m) == (x * 64 + a * d) % m
MulMod(a, b, m) ==
    Horner(Horner(Horner((a * Digit(b, 3)) % m, a, Digit(b, 2), m), a, Digit(b, 1), m),
           a, Digit(b, 0), m)

ProductHalves(a, b, n) ==
    LET k   == 2^(n \div 2)
        mid == (a \div k) * (b % k) + (a % k) * (b \div k)
        low == (a % k) * (b % k) + (mid % k) * k
    IN  [hi |-> (a \div k) * (b \div k) + mid \div k + low \div 2^n, lo |-> low % 2^n]
=============================================================================
