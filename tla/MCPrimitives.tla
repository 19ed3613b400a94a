---------------------------- MODULE MCPrimitives ----------------------------
(***************************************************************************)
(* The units of the library's arithmetic, hashing and encoding, side by    *)
(* side: small words, orders and primes of the right shape, but the real   *)
(* block, digest and key sizes of hashes and encodings.  One of the units  *)
(* is the scratch space, with a five-bit size_t and 4-byte alignment: the  *)
(* sizes are small ones, sizes around the capacity, and sizes whose        *)
(* rounding or whose sum with the header wraps.                            *)
(***************************************************************************)
EXTENDS Int128, Scalars, ModInv, FieldElements, Sha256, Der, Scratch

MCDetWords == {0, 1, 7, 8, 9, 15}

MCOperands4 == 0 .. 17 \cup 107 .. 125 \cup 215 .. 232
MCOperands8 == {0, 1, 2, 7, 8, 4095, 4096, 5201, 5592405, 8386007, 8386008, 8388607, 8388608,
                11184810, 16772013, 16772014}

MCModulus64 == <<-5, 0, 4>>
MCModulus32 == <<-1, -4, 4>>
MCInverted  == {(k*k*7919 + k) % 1046527 : k \in 0 .. 60}
    \cup {2, 3, 4, 5, 7, 255, 256, 257, 1023, 1024, 65535, 65536, 131069, 131070, 262137, 262138,
          262143, 523263, 523264, 524287, 1046525, 1046526}

MCFactors5  == <<83433, 320083, 337279>>
MCFactors10 == <<975143, 166351, 1529267, 2436647>>

\* A compression function that mixes every byte of the block and every word
\* of the state: the same words only for the same blocks, in these runs.
RECURSIVE Mixed(_, _, _)
Mixed(x, block, i) ==
    IF x < 0 \/ i > 64 THEN x ELSE Mixed((x * 31 + block[i] + i) % 65521, block, i + 1)
Mix(s, x) == [i \in 1 .. 8 |-> (s[i] * 17 + s[(i % 8) + 1] + x * i) % 65521] \o <<>>
MCCompress(s, block) == Mix(s, Mixed(7, block, 1))
MCInitial     == <<106, 187, 60, 165, 81, 155, 31, 91>>
MCPieces      == {1, 8, 55, 56, 63, 64, 129}
MCKeyLengths  == {0, 32, 64, 65, 100}
MCOutputs     == {0, 1, 32, 33}

\* Contents of DER integers: short ones, and the edges of the range, of 32
\* bytes, and of each form of a length.
Ones(n) == [i \in 1 .. n |-> 255] \o <<>>
Above   == SubSeq(Order, 1, 31) \o <<66>>
Largest == SubSeq(Order, 1, 31) \o <<64>>
MCContents ==
    {<<>>, <<0>>, <<5>>, <<0, 127>>, <<0, 128>>, <<127, 1>>, <<128>>, <<255, 127>>, <<255, 128>>,
     <<0>> \o Order, <<0>> \o Above, <<0>> \o Largest, Order, <<0, 0>> \o Largest,
     <<127>> \o Ones(31), <<0>> \o Ones(32), <<1>> \o Ones(32), <<0, 1>> \o Ones(32),
     <<1>> \o Ones(126), <<0>> \o Ones(127), <<1>> \o Ones(119), <<1>> \o Ones(259)}
MCKeys == {Scalar0, SubSeq(Scalar0, 1, 31) \o <<1>>, <<127>> \o Ones(31), Largest, Order}

\* A behaviour is one of a computation or one of the scratch space.
Idle == [unit |-> "none"]

ComputationInit == WideInit \/ ScalarInit \/ ModInvInit \/ FeInit \/ HashInit \/ DerInit
ComputationNext == WideNext \/ ScalarNext \/ ModInvNext \/ FeNext \/ HashNext \/ DerNext

MCInit ==
    /\ Init
    /\ \/ scratch = Null /\ ComputationInit
       \/ st = Idle
MCNext ==
    \/ ComputationNext /\ UNCHANGED vars
    \/ st = Idle /\ Next /\ UNCHANGED st
MCSpec == MCInit /\ [][MCNext]_<<st, vars>>
=============================================================================
