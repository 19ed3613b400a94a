------------------------------ MODULE MCMuSig ------------------------------
(***************************************************************************)
(* MuSig with two signers in a group of order 7; the hashes are fixed      *)
(* mixing functions of everything the code hashes.                         *)
(***************************************************************************)
EXTENDS MuSig

MCOddY     == {1, 2, 4}
MCHKeyAgg(pks, pk) ==
    (1 + 3 * pk + MapThenSumSet(LAMBDA i : (i + 1) * pks[i], DOMAIN pks)) % N
MCHNonce(pts, x, msg)      == (2 + pts[1] + 3 * pts[2] + 5 * x + 4 * msg) % N
MCHChallenge(r, msg, x)    == (1 + 2 * r + 3 * msg + 5 * x) % N
MCNonce == [id \in Ids |-> <<1 + ((2 * id) % (N-1)), 1 + ((id * id + 1) % (N-1))>>]

KeysOfTwo    == {<<2, 3>>, <<5, 5>>, <<6, 1>>}
OneKeyList   == {<<2, 3>>}
MCReceivedOverflow == {N}
MCReceivedAny      == 0 .. N

\* A second tweak is applied before any nonce only, and for one key list: the
\* first tweak may come at any moment, after a session was made included.
SecondTweakEarly ==
    (ntweaks = 1 /\ ntweaks' = 2) => supply = 0 /\ sk = <<2, 3>>
=============================================================================
