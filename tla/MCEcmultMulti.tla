--------------------------- MODULE MCEcmultMulti ---------------------------
(***************************************************************************)
(* Up to six points with small structs, none of them a multiple of the     *)
(* alignment, four windows and batches of at most four points; the scratch *)
(* spaces range from too small for anything to enough for all.             *)
(***************************************************************************)
EXTENDS EcmultMulti

MCSz == [gej |-> 9, ge |-> 7, scalar |-> 3, fe |-> 2, strauss_ps |-> 5, pip_state |-> 3,
         pip_ps |-> 5, int |-> 1]
MCWindowInv  == <<1, 3, 5, SizeMax>>
MCSpaceSizes == 0 .. 400
MCFrameSizes == {5}
=============================================================================
