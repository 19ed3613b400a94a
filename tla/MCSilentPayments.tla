-------------------------- MODULE MCSilentPayments --------------------------
(***************************************************************************)
(* Silent payments in small groups.  The hashes are a few fixed functions, *)
(* some with invalid values and some with collisions.                      *)
(***************************************************************************)
EXTENDS SilentPayments

MCOddY     == {P \in 1 .. N-1 : P % 2 = 1}
Hash(a, c) == [P \in Points |-> [n \in 0 .. MaxRecipients |-> (a * P + 7 * n + c) % N]]
MCInputHash == [P \in Points |-> (P * P + 22) % N]

\* Senders with valid and invalid inputs of both kinds, two receivers.
MCReceivers == 1 .. 2
MCScanKey  == <<5, 12>>
MCSpendKey == <<7, 20>>
In(s, t)   == [seckeys |-> s, keypairs |-> t]
MCInputs   == {In(<<4>>, <<11>>), In(<<2, 6>>, <<8, 3>>), In(<<0, 5>>, <<>>), In(<<5>>, <<5>>),
               In(<<3>>, <<>>)}
MCOutputHash  == <<Hash(5, 1), Hash(8, 0)>>
MCLabelHashes == {0, 2}
\* Transactions of other software: all short ones over a few points, some of
\* which match with a label or without.
MCForeignOutputs == UNION {[1 .. m -> {2, 8, 10, 24, 28}] : m \in 1 .. MaxRecipients}
=============================================================================
