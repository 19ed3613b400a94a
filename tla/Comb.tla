-------------------------------- MODULE Comb --------------------------------
(***************************************************************************)
(* The signed-digit multi-comb of secp256k1_ecmult_gen_gej: its shapes,    *)
(* the table of precomputed points                                         *)
(* (src/src/ecmult_gen_compute_table_impl.h) and the look-up.              *)
(***************************************************************************)
EXTENDS Recoding, SequencesExt

\* A shape is [blocks, teeth]; the spacing is
\* CEIL_DIV(COMB_RANGE, COMB_BLOCKS * COMB_TEETH).
Spacing(c)  == (ScalarBits + c.blocks * c.teeth - 1) \div (c.blocks * c.teeth)
CombBits(c) == c.blocks * c.teeth * Spacing(c)
Entries(c)  == 2^(c.teeth - 1)

Doublings(p, n) ==
    LET d[k \in 0 .. n] == IF k = 0 THEN p ELSE DoubleVar(d[k-1]) IN d[n]

Generator == GeSetXY(Stored(Gx), Stored(Gy))

\* secp256k1_ecmult_gen_scalar_diff: (2^COMB_BITS - 1)/2
ScalarDiff(c) == (2^(CombBits(c) - 1) - ScalarHalf(1)) % N

-----------------------------------------------------------------------------
\* gen/2, by a ladder over the bits of 1/2
HalfGenerator ==
    LET u[i \in 0 .. ScalarBits] ==
            IF i = ScalarBits THEN GejInfinity
            ELSE IF Bits(ScalarHalf(1), i, 1) = 1 THEN AddGeVar(DoubleVar(u[i+1]), Generator)
            ELSE DoubleVar(u[i+1])
    IN  u[0]

\* Mutant: the sum misses the last tooth.
FirstEntry_ToothMissed(u) == NegY(FoldLeft(AddVar, GejInfinity, SubSeq(u, 1, Len(u) - 1)))

\* The entry of a block for no set bit, all the block's powers negated.
FirstEntry(u) == NegY(FoldLeft(AddVar, GejInfinity, u))

\* The powers under the teeth of block b.
Teeth(c, b) ==
    [tooth \in 1 .. c.teeth |->
        Doublings(HalfGenerator, (b * c.teeth + tooth - 1) * Spacing(c))]

\* Each tooth but the last doubles the number of entries.
Block(c, b) ==
    LET u == Teeth(c, b)
        vs[tooth \in 0 .. c.teeth-1] ==
            IF tooth = 0 THEN <<FirstEntry(u)>>
            ELSE LET below == vs[tooth-1]
                 IN  below \o [k \in 1 .. Len(below) |-> AddVar(below[k], DoubleVar(u[tooth]))]
    IN  vs[c.teeth - 1]

\* secp256k1_ge_to_storage normalizes the coordinates.
AllNormalized(ps) ==
    [k \in 1 .. Len(ps) |-> [ps[k] EXCEPT !.x = Normalize(@), !.y = Normalize(@)]]

\* secp256k1_ecmult_gen_compute_table, with the points as they are stored
CombTable(c) ==
    AllNormalized(SetAllGejVar(FlattenSeq([b \in 1 .. c.blocks |-> Block(c, b - 1)])))

-----------------------------------------------------------------------------
\* The bits of d under the teeth, packed.
CombDigit(c, d, block, off) ==
    LET bit(tooth) == Bits(d, (block * c.teeth + tooth) * Spacing(c) + off, 1)
    IN  FoldLeft(LAMBDA s, tooth : s + bit(tooth - 1) * 2^(tooth - 1), 0,
                 [tooth \in 1 .. c.teeth |-> tooth])

\* Mutant: the looked up entry keeps its sign.
CombEntry_NeverNegated(c, table, d, block, off) ==
    LET bits == CombDigit(c, d, block, off)
        sign == bits >= Entries(c)
        abs  == (IF sign THEN 2^c.teeth - 1 - bits ELSE bits) % Entries(c)
    IN  table[block * Entries(c) + abs + 1]

\* The entry at abs = (bits ^ -sign) & (COMB_POINTS - 1), negated by sign.
CombEntry(c, table, d, block, off) ==
    LET bits == CombDigit(c, d, block, off)
        sign == bits >= Entries(c)
        abs  == (IF sign THEN 2^c.teeth - 1 - bits ELSE bits) % Entries(c)
        add  == table[block * Entries(c) + abs + 1]
    IN  [add EXCEPT !.y = Cmov(@, Negate(@, 1), sign)]
=============================================================================
