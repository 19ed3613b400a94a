------------------------------- MODULE Ecmult -------------------------------
(***************************************************************************)
(* The multiplications of points by scalars: secp256k1_ecmult_gen_gej      *)
(* (src/src/ecmult_gen_impl.h), secp256k1_ecmult_strauss_wnaf              *)
(* and secp256k1_ecmult_pippenger_wnaf (src/src/ecmult_impl.h), and        *)
(* secp256k1_ecmult_const and its X-only version                           *)
(* (src/src/ecmult_const_impl.h), one step per iteration of their main     *)
(* loops, on the coordinates of Group.                                     *)
(***************************************************************************)
EXTENDS Comb

CONSTANTS
    WindowA, WindowG, \* WINDOW_A and WINDOW_G
    GroupSize,        \* ECMULT_CONST_GROUP_SIZE
    CombShapes,       \* the pairs of COMB_BLOCKS and COMB_TEETH
    BucketWindows,    \* the windows of Pippenger's algorithm
    Inputs            \* what the callers multiply: see Init

VARIABLES
    alg,     \* the function that was called
    in,      \* the terms: a point, what it stands for and its scalar
    ng,      \* the scalar of the generator
    pc,
    t,       \* the tables and recoded scalars
    i,       \* main loop
    r        \* the sum so far

vars == <<alg, in, ng, pc, t, i, r>>

TableSize(w) == 2^(w - 2)

\* The point k*G with the Z coordinate z.
Point(k, z) ==
    IF k = 0 THEN GejInfinity
    ELSE GejRescale(GejSetGe(GeSetXY(Stored(Multiple[k][1]), Stored(Multiple[k][2]))), Stored(z))

\* A call: the algorithm and the sequence of terms [k, z, n], the point k*G with
\* the Z coordinate z and the scalar n.  For "xonly", k is an X coordinate and z
\* its denominator; the call takes them as the fraction xn/xd.  For "gen", k and z are what the context is blinded with, and n
\* is the scalar.
Init ==
    \E call \in Inputs :
        /\ alg = call.alg
        /\ in = [j \in 1 .. Len(call.terms) |->
                    LET c == call.terms[j]
                    IN  [p |-> IF call.alg \in {"xonly", "gen"} THEN GejInfinity ELSE Point(c.k, c.z),
                         k |-> c.k, z |-> c.z, n |-> c.n,
                         xn |-> Stored((c.k * c.z) % P), xd |-> Stored(c.z)]]
        /\ ng = call.ng
        /\ pc = "call" /\ t = <<>> /\ i = -1 /\ r = GejInfinity

-----------------------------------------------------------------------------
(* Strauss *)

Terms == SelectSeq(in, LAMBDA c : c.n # 0 /\ ~c.p.inf)

\* Mutant: the first ratio of a further point misses its own Z coordinate.
AppendTable_RatioKept(tabs, p) ==
    LET first == tabs.pre = <<>>
        o     == OddMultiples(TableSize(WindowA), IF first THEN p ELSE GejRescale(p, tabs.z))
    IN  [pre |-> tabs.pre \o o.pre, zr |-> tabs.zr \o o.zr, z |-> o.z]

\* The table of one more point: it starts at the Z coordinate where the last
\* one ended.
AppendTable(tabs, p) ==
    LET first == tabs.pre = <<>>
        o     == OddMultiples(TableSize(WindowA), IF first THEN p ELSE GejRescale(p, tabs.z))
    IN  [pre |-> tabs.pre \o o.pre,
         zr  |-> tabs.zr \o (IF first THEN o.zr ELSE <<Mul(o.zr[1], p.z)>> \o Tail(o.zr)),
         z   |-> o.z]

\* The position after the last digit that is set.
Length(digits) ==
    LET set == {j \in DOMAIN digits : digits[j] # 0}
    IN  IF set = {} THEN 0 ELSE 1 + CHOOSE j \in set : \A l \in set : l <= j

\* The digits of all scalars, split into halves first.
StraussWnafs ==
    LET split == [j \in 1 .. Len(Terms) |-> SplitLambda(Terms[j].n)]
        Digits(n, w) == Wnaf(HalfBits + 1, n, w)
    IN  [na1   |-> [j \in 1 .. Len(Terms) |-> Digits(split[j][1], WindowA)],
         nalam |-> [j \in 1 .. Len(Terms) |-> Digits(split[j][2], WindowA)],
         ng1   |-> Digits(Split128(ng)[1], WindowG),
         ng128 |-> Digits(Split128(ng)[2], WindowG)]

\* The largest number of digits.
Longest(w) ==
    LET all == {w.ng1, w.ng128} \cup {w.na1[j] : j \in DOMAIN w.na1}
                                \cup {w.nalam[j] : j \in DOMAIN w.nalam}
    IN  CHOOSE l \in {Length(d) : d \in all} : \A d \in all : Length(d) <= l

\* One table after the other, each at the Z coordinate where the last one ended.
StraussTables ==
    FoldLeft(AppendTable, [pre |-> <<>>, zr |-> <<>>, z |-> One],
             [j \in 1 .. Len(Terms) |-> Terms[j].p])

\* What both algorithms with tables keep of them, and of the points times Lambda.
Tables(pre, z) ==
    [pre |-> pre, lam |-> [j \in 1 .. Len(pre) |-> MulLambda(pre[j])], z |-> z]

\* All tables are brought to the last Z coordinate.
StraussStart ==
    /\ alg = "strauss" /\ pc = "call" /\ pc' = "loop"
    /\ LET tabs == StraussTables
       IN  t' = Tables(TableSetGlobalz(tabs.pre, tabs.zr), tabs.z) @@ [wnafs |-> StraussWnafs]
    /\ i' = Longest(t'.wnafs) - 1
    /\ r' = GejInfinity
    /\ UNCHANGED <<alg, in, ng>>

\* secp256k1_ecmult_table_get_ge: entry (n-1)/2, or its negative
TableGetGe(table, n) ==
    IF n > 0 THEN table[(n + 1) \div 2]
    ELSE LET p == table[(1 - n) \div 2] IN [p EXCEPT !.y = Negate(@, 1)]

\* pre_g and pre_g_128: odd multiples of k*G
PreG(k) == [j \in 1 .. TableSize(WindowG) |->
               LET m == Multiple[((2*j - 1) * k) % N] IN GeSetXY(Stored(m[1]), Stored(m[2]))]

AddG(p, k, digit) ==
    IF digit = 0 THEN p ELSE AddZinvVar(p, TableGetGe(PreG(k), digit), t.z)

AddA(p, table, j, digit) ==
    IF digit = 0 THEN p
    ELSE AddGeVar(p, TableGetGe(SubSeq(table, (j-1) * TableSize(WindowA) + 1, j * TableSize(WindowA)),
                                digit))

StraussStep ==
    /\ alg = "strauss" /\ pc = "loop" /\ i >= 0
    /\ LET w     == t.wnafs
           added == FoldLeft(LAMBDA p, j : AddA(AddA(p, t.pre, j, w.na1[j][i]), t.lam, j, w.nalam[j][i]),
                             DoubleVar(r), [j \in 1 .. Len(Terms) |-> j])
       IN  r' = AddG(AddG(added, 1, w.ng1[i]), 2^HalfBits % N, w.ng128[i])
    /\ i' = i - 1
    /\ UNCHANGED <<alg, in, ng, pc, t>>

-----------------------------------------------------------------------------
(* Pippenger *)

\* secp256k1_ecmult_endo_split: two terms with short scalars
EndoSplit(p, n) ==
    LET s == SplitLambda(n)
        Short(q, k) == IF ScalarIsHigh(k) THEN <<NegY(q), N - k>> ELSE <<q, k>>
    IN  <<Short(p, s[1]), Short(MulLambda(p), s[2])>>

PippengerStart ==
    /\ alg = "pippenger" /\ pc = "call" /\ pc' = "loop"
    /\ \E window \in BucketWindows :
        LET entries == FoldLeft(LAMBDA es, c : es \o EndoSplit(GeSetGejVar(c.p), c.n),
                                EndoSplit(GeSetXY(Stored(Gx), Stored(Gy)), ng), in)
            used    == SelectSeq(entries, LAMBDA e : e[2] # 0 /\ ~e[1].inf)
        IN  /\ t' = [window |-> window,
                     ps |-> [j \in 1 .. Len(used) |->
                                [p |-> used[j][1], wnaf |-> WnafFixed(used[j][2], window + 1)]]]
            /\ i' = IF used = <<>> THEN -1 ELSE (HalfBits + window) \div (window + 1) - 1
    /\ r' = GejInfinity
    /\ UNCHANGED <<alg, in, ng>>

\* Mutant: the skew is not taken off.
InBucket_SkewKept(b, buc, e) ==
    LET n == e.wnaf.digit[i]
    IN  IF n = 0 \/ buc # (IF n > 0 THEN n - 1 ELSE -n - 1) \div 2 THEN b
        ELSE AddGeVar(b, IF n > 0 THEN e.p ELSE NegY(e.p))

\* What one entry adds to a bucket: its skew first, then its digit.
InBucket(b, buc, e) ==
    LET n  == e.wnaf.digit[i]
        b0 == IF i = 0 /\ e.wnaf.skew = 1 /\ buc = 0 THEN AddGeVar(b, NegY(e.p)) ELSE b
    IN  IF n = 0 \/ buc # (IF n > 0 THEN n - 1 ELSE -n - 1) \div 2 THEN b0
        ELSE AddGeVar(b0, IF n > 0 THEN e.p ELSE NegY(e.p))

PippengerStep ==
    /\ alg = "pippenger" /\ pc = "loop" /\ i >= 0
    /\ LET size    == 2^t.window
           buckets == [buc \in 0 .. size-1 |->
                          FoldLeft(LAMBDA b, e : InBucket(b, buc, e), GejInfinity, t.ps)]
           shifted[j \in 0 .. t.window] == IF j = 0 THEN r ELSE DoubleVar(shifted[j-1])
           \* from the last bucket down: the running sum and r
           sums[buc \in 1 .. size] ==
               IF buc = size THEN <<GejInfinity, shifted[t.window]>>
               ELSE LET running == AddVar(sums[buc+1][1], buckets[buc])
                    IN  <<running, AddVar(sums[buc+1][2], running)>>
       IN  r' = AddVar(DoubleVar(sums[1][2]), AddVar(sums[1][1], buckets[0]))
    /\ i' = i - 1
    /\ UNCHANGED <<alg, in, ng, pc, t>>

-----------------------------------------------------------------------------
(* Constant time.  The bits of v1 and v2 are the signs of powers of two. *)

ConstGroups == (HalfBits + 1 + GroupSize - 1) \div GroupSize
ConstBits   == ConstGroups * GroupSize
ConstK      == ((2^ConstBits - 2^(HalfBits + 1) - 1) * (1 + Lambda)) % N

ConstSplit(q) ==
    LET s == SplitLambda(ScalarHalf((q + ConstK) % N))
    IN  <<(s[1] + 2^HalfBits) % N, (s[2] + 2^HalfBits) % N>>

\* ECMULT_CONST_TABLE_GET_GE
ConstTableGet(pre, n) ==
    LET negative == Bits(n, GroupSize - 1, 1) = 0
        index    == (IF negative THEN 2^GroupSize - 1 - n ELSE n) % 2^(GroupSize - 1)
        looked   == FoldLeft(LAMBDA q, m : [q EXCEPT !.x = Cmov(@, pre[m].x, m = index + 1),
                                                     !.y = Cmov(@, pre[m].y, m = index + 1)],
                             pre[1], [m \in 1 .. Len(pre) |-> m])
    IN  [looked EXCEPT !.y = Cmov(@, Negate(@, 1), negative)]

\* secp256k1_ecmult_const_xonly: the X coordinate n/d, and the point with that X
\* coordinate on the isomorphic curve.  Without a denominator d is 1.
XonlyD     == in[1].xd
XonlyN     == in[1].xn
XonlyG     == Add(Cube(XonlyN), Mul(MulInt(Sqr(XonlyD), B), XonlyD))
XonlyPoint == GeSetXY(Mul(XonlyG, XonlyN), Sqr(XonlyG))
XonlyOnCurve == IsSquare(Mul(XonlyG, XonlyD))
XonlyResult  == Mul(r.x, Inv(Mul(Mul(Sqr(r.z), XonlyG), XonlyD)))

\* The argument of secp256k1_ecmult_const; infinity for a rejected X coordinate,
\* which never gets there.
ConstPoint ==
    IF alg = "const" THEN GeSetGejVar(in[1].p)
    ELSE IF XonlyOnCurve THEN XonlyPoint ELSE GeInfinity

ConstStart ==
    /\ alg \in {"const", "xonly"} /\ pc = "call"
    /\ IF ConstPoint.inf
       THEN pc' = "done" /\ UNCHANGED <<t, i>>
       ELSE LET o == OddMultiples(2^(GroupSize - 1), GejSetGe(ConstPoint))
            IN  /\ pc' = "loop"
                /\ t' = Tables(TableSetGlobalz(o.pre, o.zr), o.z) @@ [v |-> ConstSplit(in[1].n)]
                /\ i' = ConstGroups - 1
    /\ r' = GejInfinity
    /\ UNCHANGED <<alg, in, ng>>

ConstStep ==
    /\ alg \in {"const", "xonly"} /\ pc = "loop" /\ i >= 0
    /\ LET Looked(table, v) == ConstTableGet(table, Bits(v, i * GroupSize, GroupSize))
           shifted[j \in 0 .. GroupSize] == IF j = 0 THEN r ELSE Double(shifted[j-1])
           first == Looked(t.pre, t.v[1])
       IN  r' = AddGe(IF i = ConstGroups - 1 THEN GejSetGe(first)
                                             ELSE AddGe(shifted[GroupSize], first),
                      Looked(t.lam, t.v[2]))
    /\ i' = i - 1
    /\ UNCHANGED <<alg, in, ng, pc, t>>

-----------------------------------------------------------------------------
(* The generator *)

\* The scalar_offset of the context makes comb(d, G/2) = (n - k)*G.
GenStart ==
    /\ alg = "gen" /\ pc = "call" /\ pc' = "loop"
    /\ \E c \in CombShapes :
        /\ t' = [c |-> c, table |-> CombTable(c), d |-> (ScalarDiff(c) - in[1].k + in[1].n) % N]
        /\ i' = Spacing(c) - 1
    /\ r' = GejInfinity
    /\ UNCHANGED <<alg, in, ng>>

\* An iteration of the outer loop.  The first entry is given the context's Z
\* coordinate, the last sum is doubled no more.
GenStep ==
    /\ alg = "gen" /\ pc = "loop" /\ i >= 0
    /\ LET entry(block) == CombEntry(t.c, t.table, t.d, block, i)
           first == i = Spacing(t.c) - 1
           start == IF first THEN GejRescale(GejSetGe(entry(0)), Stored(in[1].z)) ELSE r
           sum   == FoldLeft(LAMBDA p, block : AddGe(p, entry(block)), start,
                             [b \in 1 .. t.c.blocks - (IF first THEN 1 ELSE 0) |->
                                 IF first THEN b ELSE b - 1])
       IN  r' = IF i > 0 THEN Double(sum) ELSE sum
    /\ i' = i - 1
    /\ UNCHANGED <<alg, in, ng, pc, t>>

-----------------------------------------------------------------------------
\* The result is taken back from the isomorphic curve, or ge_offset is added.
Finish ==
    /\ pc = "loop" /\ i = -1
    /\ pc' = "done"
    /\ r' = IF alg = "pippenger" \/ (alg = "strauss" /\ r.inf) THEN r
            ELSE IF alg = "gen" THEN AddGe(r, GeSetXY(Stored(Multiple[in[1].k][1]), Stored(Multiple[in[1].k][2])))
            ELSE [r EXCEPT !.z = Mul(@, t.z)]
    /\ UNCHANGED <<alg, in, ng, t, i>>

Next ==
    \/ StraussStart \/ StraussStep
    \/ PippengerStart \/ PippengerStep
    \/ ConstStart \/ ConstStep
    \/ GenStart \/ GenStep
    \/ Finish

Spec == Init /\ [][Next]_vars

-----------------------------------------------------------------------------
(***************************************************************************)
(* Every algorithm computes the sum of its terms, and the X-only version   *)
(* the X coordinate of the product, or it says that the argument is not on *)
(* the curve: for zero scalars and infinity, for terms that cancel or      *)
(* coincide on the way, and for any Z coordinates.                         *)
(***************************************************************************)
ResultCorrect ==
    pc = "done" =>
        IF alg = "xonly"
        THEN LET ks == {k \in 1 .. N-1 : Multiple[k][1] = in[1].k}
             IN  /\ XonlyOnCurve = (ks # {})
                 /\ \A k \in ks : XonlyResult.v = Multiple[(k * in[1].n) % N][1]
        ELSE IF alg = "gen" THEN PointOf(r) = Multiple[in[1].n]
        ELSE PointOf(r) = Multiple[FoldLeft(LAMBDA s, c : s + c.k * c.n, ng, in) % N]

(***************************************************************************)
(* On the way no field operation is called outside its contract, and the   *)
(* tables hold points whose Y coordinate can be negated at magnitude 1;    *)
(* the comb's table has no infinity, which it could not store, and the     *)
(* halves of a scalar in constant time have one bit more than half.        *)
(***************************************************************************)
TermsSound ==
    /\ IsGej(r)
    /\ pc = "loop" /\ alg = "gen" => \A j \in 1 .. Len(t.table) : ~t.table[j].inf
    /\ pc = "loop" /\ alg \in {"const", "xonly"} => \A j \in 1 .. 2 : t.v[j] < 2^(HalfBits + 1)
    /\ pc = "loop" /\ alg \notin {"pippenger", "gen"} =>
          \A j \in 1 .. Len(t.pre) :
              /\ IsGe(t.pre[j]) /\ IsGe(t.lam[j])
              /\ t.pre[j].y.m <= 1 /\ t.lam[j].y.m <= 1

(***************************************************************************)
(* The property that is checked: the result is the sum of the terms, and   *)
(* no step on the way left what a field element may hold.                  *)
(***************************************************************************)
ProductCorrect == ResultCorrect /\ TermsSound
=============================================================================
