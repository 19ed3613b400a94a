------------------------------ MODULE MCEcdsa ------------------------------
(***************************************************************************)
(* ECDSA in a group of order 11 over a field of order 17.  Of its five X   *)
(* coordinates, 11 is 0 as a scalar, 13 is the same scalar as 2, and 16    *)
(* the same as 5.                                                          *)
(***************************************************************************)
EXTENDS Ecdsa

MCOddY  == {1, 3, 4, 5, 9}
MCX     == LET half == <<2, 11, 13, 5, 16>>
           IN  [R \in 1 .. 10 |-> IF R <= 5 THEN half[R] ELSE half[11 - R]]
MCBytes == 0 .. 18
=============================================================================
