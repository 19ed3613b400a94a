----------------------------- MODULE MCContext -----------------------------
(***************************************************************************)
(* Contexts in a group of order 5.  The generator's outputs are a mixing   *)
(* function of the old offset and the seed that also returns 0.            *)
(***************************************************************************)
EXTENDS Context

MCOddY5  == {1, 3}
MCField  == 0 .. 2
MCHProj(offset, seed)  == (offset + 2 * seed) % 3
MCHBlind(offset, seed) == (2 * offset + seed) % N
TwoFunctions == {"default", "user"}
=============================================================================
