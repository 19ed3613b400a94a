------------------------------ MODULE MCEcmult ------------------------------
(***************************************************************************)
(* y^2 = x^3 + 3 over 31 elements: 43 points, and scalars of 6 bits that   *)
(* split into halves of 3 bits.  Every scalar for one point and the        *)
(* generator; a few for two points that may coincide or cancel.            *)
(***************************************************************************)
EXTENDS EllSwift

Calls(as, terms, gs) == [alg : as, terms : terms, ng : gs]
Terms1(ks, zs, ns)   == {<<[k |-> k, z |-> z, n |-> n]>> : k \in ks, z \in zs, n \in ns}

MCInputs ==
    Calls({"strauss", "pippenger"}, Terms1({0, 1, 5, 42}, {3}, 0 .. 42), {0, 1, 30, 42})
    \cup Calls({"strauss", "pippenger"},
               {c \o d : c \in Terms1({1, 5}, {2}, {1, 7, 42}),
                         d \in Terms1({0, 1, 38, 42}, {3}, {0, 1, 29, 36})}, {0, 5})
    \cup Calls({"const"}, Terms1({0, 1, 7, 42}, {3}, 0 .. 42), {0})
    \cup Calls({"xonly"}, Terms1(0 .. 30, {1, 9}, {1, 2, 6, 29, 42}), {0})
    \cup Calls({"gen"}, Terms1({1, 17, 42}, {3}, 0 .. 42), {0})

Shape(b, n) == [blocks |-> b, teeth |-> n]
MCCombShapes == {Shape(2, 3), Shape(1, 1), Shape(1, 2), Shape(2, 2), Shape(3, 1), Shape(1, 3), Shape(2, 1), Shape(3, 2)}

\* Two valid keys, equal keys, and one or two that are no keys.
MCSecretPairs == {<<1, 5>>, <<7, 40>>, <<19, 19>>, <<0, 5>>, <<7, 43>>}
MCNumbers     == 0 .. 31
MCCandidates  == {3, 7, 8, 22}
=============================================================================
