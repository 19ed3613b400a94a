------------------------------ MODULE MCKeys ------------------------------
(***************************************************************************)
(* The keys of a group of order 5, and sorts of them: calls of up to six   *)
(* elements with three different keys.  A sort touches no key, so it is    *)
(* checked from the initial states of the key functions only.              *)
(***************************************************************************)
EXTENDS Keys, HSort

MCOddY  == {1, 3}
MCBytes == 0 .. 6
MCSort  == 0 .. 2

MCInit == Init /\ SortInit

MCNext ==
    \/ phase = "idle" /\ Next /\ UNCHANGED sortVars
    \/ op.kind = "create" /\ SortNext /\ UNCHANGED vars

MCSpec == MCInit /\ [][MCNext]_<<vars, sortVars>> /\ SortFairness
=============================================================================
