---------------------------- MODULE OneTimeNonce ----------------------------
(***************************************************************************)
(* What the MuSig API promises about secret nonces, whatever the order of  *)
(* calls: a nonce is generated once, is held in one secnonce structure,    *)
(* leaves it for good, and computes at most one partial signature, when it *)
(* leaves.  (include/secp256k1_musig.h: "This function overwrites the      *)
(* given secnonce with zeros and will abort if given a secnonce that is    *)
(* all zeros.")                                                            *)
(***************************************************************************)
CONSTANT Ids

VARIABLES
    status,  \* of each nonce: "unborn", "held" in a secnonce, or "gone"
    signed   \* the nonces a partial signature was computed with

vars == <<status, signed>>

Init ==
    /\ status = [id \in Ids |-> "unborn"]
    /\ signed = {}

Held == {id \in Ids : status[id] = "held"}

\* A structure is written anew: its nonce, if any, is gone and the new one held.
Generate(new, old) ==
    /\ status[new] = "unborn"
    /\ old \subseteq Held
    /\ status' = [id \in Ids |-> IF id = new THEN "held"
                                 ELSE IF id \in old THEN "gone" ELSE status[id]]
    /\ UNCHANGED signed

Discard(id) ==
    /\ id \in Held
    /\ status' = [status EXCEPT ![id] = "gone"]
    /\ UNCHANGED signed

Sign(id) ==
    /\ id \in Held
    /\ status' = [status EXCEPT ![id] = "gone"]
    /\ signed' = signed \cup {id}

Next ==
    \/ \E new \in Ids : \E old \in {{}} \cup {{id} : id \in Held} : Generate(new, old)
    \/ \E id \in Ids : Discard(id) \/ Sign(id)

Spec == Init /\ [][Next]_vars
=============================================================================
