--------------------------- MODULE SilentPayments ---------------------------
(***************************************************************************)
(* Silent payments (src/src/modules/silentpayments): receivers create      *)
(* labels and addresses, a sender creates one output per address, and a    *)
(* receiver scans the outputs of a transaction for his own.  The sender's  *)
(* loop takes one recipient per step, the scan one transaction output.     *)
(* One call runs at a time; k, pos and shared_secret belong to it.         *)
(***************************************************************************)
EXTENDS Curve, Sequences, SequencesExt, FiniteSetsExt

CONSTANTS
    Receivers,
    ScanKey, SpendKey,  \* the secret keys of each receiver
    Inputs,             \* the senders' secret keys, 0 being an invalid one
    OutputHash,         \* candidates for hash(shared_secret || k)
    InputHash,          \* hash(outpoint || pubkey_sum)
    LabelHashes,        \* what hash(scan_key || m) may return
    ForeignOutputs,     \* outputs of transactions made by other software
    GroupLimit,         \* SECP256K1_SILENTPAYMENTS_RECIPIENT_GROUP_LIMIT
    BatchSize,          \* LABEL_BATCH_SIZE
    MaxRecipients,      \* bound
    MaxLabels           \* bound

ASSUME PaymentsAssumption ==
    /\ ScanKey \in [Receivers -> 1 .. N-1] /\ SpendKey \in [Receivers -> 1 .. N-1]
    /\ \A v, w \in Receivers : ScanKey[v] = ScanKey[w] => v = w \* who a receiver is
    /\ Inputs \subseteq [seckeys : Seq(Scalars), keypairs : Seq(1 .. N-1)]
    /\ \A s \in Inputs : Len(s.seckeys) + Len(s.keypairs) > 0
    /\ \A o \in DOMAIN OutputHash : OutputHash[o] \in [Points -> [0 .. MaxRecipients -> Scalars]]
    /\ InputHash \in [Points -> Scalars]
    /\ LabelHashes \subseteq Scalars
    /\ \A o \in ForeignOutputs : o \in Seq(Points \ OddY) /\ Len(o) \in 1 .. MaxRecipients
    /\ GroupLimit \in Nat \ {0} /\ BatchSize \in Nat \ {0} /\ MaxRecipients \in Nat

VARIABLES
    inputs,             \* the secret keys of the transaction's inputs
    oracle,             \* which OutputHash it is
    labels,             \* the label cache of each receiver
    recipients,         \* the array the sender passes
    state,              \* which call is running, or what the last returned
    a_sum,              \* seckey_sum_scalar
    generated_outputs,
    tx_outputs,
    who,                \* the receiver that scans
    lookup,             \* he passes a label_lookup function
    found,              \* found_outputs
    batch,              \* the outputs whose label candidates are pending
    shared_secret, k, pos

given    == <<inputs, oracle>>
address  == <<labels, recipients>>
scan     == <<who, lookup, found, batch>>
call     == <<shared_secret, k, pos>>
vars     == <<given, address, state, a_sum, generated_outputs, tx_outputs, scan, call>>

Unset == -1

Init ==
    /\ inputs \in Inputs /\ oracle \in DOMAIN OutputHash
    /\ labels = [w \in Receivers |-> {}]
    /\ recipients = <<>>
    /\ state = "addresses"
    /\ a_sum = 0 /\ generated_outputs = <<>> /\ tx_outputs = <<>>
    /\ who = Unset /\ lookup = FALSE
    /\ found = <<>> /\ batch = <<>>
    /\ shared_secret = 0 /\ k = 0 /\ pos = 1

-----------------------------------------------------------------------------
(* Labels and addresses *)

\* secp256k1_silentpayments_recipient_label_create, and the caller's label
\* cache.  A hash of 0 stands for an invalid scalar: no label is made.  As
\* a point, a label is its tweak times G.
LabelCreate(w, tweak) ==
    /\ state = "addresses" /\ Cardinality(labels[w]) < MaxLabels
    /\ tweak # 0
    /\ labels' = [labels EXCEPT ![w] = @ \cup {tweak}]
    /\ UNCHANGED <<given, recipients, state, a_sum, generated_outputs, tx_outputs, scan, call>>

\* secp256k1_silentpayments_recipient_create_labeled_spend_pubkey, which
\* fails at infinity
LabeledSpend(w, label) == Plus(SpendKey[w], label)

\* An address of w, with a label or without (0), goes into the array.
AddRecipient(w, label) ==
    /\ state = "addresses" /\ Len(recipients) < MaxRecipients
    /\ LabeledSpend(w, label) # Infinity
    /\ recipients' = Append(recipients, [scan_pubkey |-> ScanKey[w],
                                         spend_pubkey |-> LabeledSpend(w, label),
                                         index |-> Len(recipients) + 1])
    /\ UNCHANGED <<given, labels, state, a_sum, generated_outputs, tx_outputs, scan, call>>

-----------------------------------------------------------------------------
(* secp256k1_silentpayments_sender_create_outputs *)

\* Mutant: taproot keys are summed as they are.
KeySum_ParityIgnored(s) ==
    (FoldLeft(+, 0, s.seckeys) + FoldLeft(+, 0, s.keypairs)) % N

\* Keys of taproot inputs are negated if their point is odd.
KeySum(s) ==
    (FoldLeft(+, 0, s.seckeys) + FoldLeft(LAMBDA x, key : x + EvenY(key), 0, s.keypairs)) % N

\* secp256k1_silentpayments_recipient_sort_cmp: by the serialized scan key,
\* then by index
Before(r, s) ==
    LET ser(P) == (IF IsOdd(P) THEN N ELSE 0) + EvenY(P)
    IN  \/ ser(r.scan_pubkey) < ser(s.scan_pubkey)
        \/ r.scan_pubkey = s.scan_pubkey /\ r.index < s.index

\* Mutant: recipients are sorted by their scan keys alone, and later ones
\* happen to come first.
SortedRecipients_NoTieBreak ==
    CHOOSE seq \in SetToSeqs(ToSet(recipients)) :
        \A p, q \in DOMAIN seq : p < q =>
            IF seq[p].scan_pubkey = seq[q].scan_pubkey THEN seq[p].index > seq[q].index
                                                       ELSE Before(seq[p], seq[q])

SortedRecipients ==
    CHOOSE seq \in SetToSeqs(ToSet(recipients)) :
        \A p, q \in DOMAIN seq : p < q => Before(seq[p], seq[q])

Sum ==
    /\ state = "addresses" /\ recipients # <<>>
    /\ LET sum == KeySum(inputs)
       IN  IF 0 \in ToSet(inputs.seckeys) \/ sum = 0 \/ InputHash[sum] = 0
           THEN state' = "failed" /\ UNCHANGED <<a_sum, recipients, generated_outputs>>
           ELSE /\ state' = "sending"
                /\ a_sum' = Times(sum, InputHash[sum])
                /\ recipients' = SortedRecipients
                /\ generated_outputs' = [n \in DOMAIN recipients |-> Unset]
    /\ UNCHANGED <<given, labels, tx_outputs, scan, call>>

\* Mutant: the limit is off by one.
TooMany_OffByOne(n) == n > GroupLimit

TooMany(n) == n >= GroupLimit

\* One recipient: a new group has its own shared secret and counts from 0.
CreateOutput ==
    /\ state = "sending" /\ pos <= Len(recipients)
    /\ LET r      == recipients[pos]
           new    == pos = 1 \/ recipients[pos - 1].scan_pubkey # r.scan_pubkey
           secret == IF new THEN Times(a_sum, r.scan_pubkey) ELSE shared_secret
           n      == IF new THEN 0 ELSE k
           t_k    == OutputHash[oracle][secret][n]
           output == Plus(r.spend_pubkey, t_k)
       IN  IF TooMany(n) \/ t_k = 0 \/ output = Infinity
           THEN state' = "failed" /\ UNCHANGED <<generated_outputs, call>>
           ELSE /\ generated_outputs' = [generated_outputs EXCEPT ![r.index] = EvenY(output)]
                /\ shared_secret' = secret /\ k' = n + 1 /\ pos' = pos + 1
                /\ UNCHANGED state
    /\ UNCHANGED <<given, address, a_sum, tx_outputs, scan>>

Sent ==
    /\ state = "sending" /\ pos > Len(recipients)
    /\ state' = "sent"
    /\ UNCHANGED <<given, address, a_sum, generated_outputs, tx_outputs, scan, call>>

-----------------------------------------------------------------------------
(* The transaction *)

\* All generated outputs are included, in any order, with at most one other.
Publish(others) ==
    /\ state = "sent" /\ Len(others) <= 1
    /\ \E order \in SetToSeqs(1 .. Len(generated_outputs \o others)) :
           tx_outputs' = [n \in DOMAIN order |-> (generated_outputs \o others)[order[n]]]
    /\ state' = "tx"
    /\ pos' = 1
    /\ UNCHANGED <<given, address, a_sum, generated_outputs, scan, shared_secret, k>>

\* A transaction that was not made here.
Foreign(outputs) ==
    /\ state = "addresses" /\ recipients = <<>>
    /\ 0 \notin ToSet(inputs.seckeys)
    /\ tx_outputs' = outputs
    /\ state' = "tx"
    /\ UNCHANGED <<given, address, a_sum, generated_outputs, scan, call>>

-----------------------------------------------------------------------------
(* secp256k1_silentpayments_recipient_prevouts_summary_create and          *)
(* secp256k1_silentpayments_recipient_scan_outputs                         *)

\* The sum of the public keys, those of taproot inputs being x-only.
PubkeySum(s) ==
    FoldLeft(LAMBDA A, key : Plus(A, EvenY(Times(key, G))),
             FoldLeft(LAMBDA A, key : Plus(A, Times(key, G)), Infinity, s.seckeys),
             s.keypairs)

ScanStart(w, with_lookup) ==
    /\ state = "tx"
    /\ labels[w] # {} => with_lookup
    /\ who' = w /\ lookup' = with_lookup
    /\ LET sum == PubkeySum(inputs)
       IN  IF sum = Infinity \/ InputHash[sum] = 0
           THEN state' = "refused" /\ UNCHANGED call
           ELSE /\ state' = "round"
                /\ shared_secret' = Times(Times(ScanKey[w], InputHash[sum]), sum)
                /\ k' = 0 /\ pos' = 1
    /\ UNCHANGED <<given, address, a_sum, generated_outputs, tx_outputs, found, batch>>

KMax == IF Len(tx_outputs) < GroupLimit THEN Len(tx_outputs) ELSE GroupLimit

\* Round n looks for this tweak and this output.
Tweak(n)     == OutputHash[oracle][shared_secret][n]
Unlabeled(n) == Plus(SpendKey[who], Tweak(n))
NoRound(n)   == Tweak(n) = 0 \/ Unlabeled(n) = Infinity

StartRound ==
    /\ state = "round"
    /\ state' = IF k = KMax THEN "scanned" ELSE IF NoRound(k) THEN "refused" ELSE "outputs"
    /\ pos' = 1 /\ batch' = <<>>
    /\ UNCHANGED <<given, address, a_sum, generated_outputs, tx_outputs, who, lookup, found,
                   shared_secret, k>>

\* The label of output m in round n: the first candidate in the cache, or 0.
LabelOf(m, n) ==
    LET c1 == Plus(tx_outputs[m], Neg(Unlabeled(n)))
        c2 == Plus(Neg(tx_outputs[m]), Neg(Unlabeled(n)))
    IN  IF c1 \in labels[who] THEN c1 ELSE IF c2 \in labels[who] THEN c2 ELSE 0

\* secp256k1_silentpayments_check_label_batch: the first output of the batch
\* with a label, or 0
CheckBatch(b) ==
    LET hits == {m \in ToSet(b) : LabelOf(m, k) # 0}
    IN  IF hits = {} THEN 0 ELSE Min(hits)

IsDirect(m, n) == tx_outputs[m] = EvenY(Unlabeled(n))

\* Mutant: the label's tweak is not added.
FoundTweak_LabelIgnored(label) == Tweak(k)

\* A sum of 0 is an error of seckey_tweak_add and then reset to 0.
FoundTweak(label) == Plus(Tweak(k), label)

\* Output m is the receiver's: it is recorded and the next round begins.
Record(m, label) ==
    /\ found' = Append(found, [output |-> tx_outputs[m], tweak |-> FoundTweak(label),
                               label |-> label])
    /\ k' = k + 1
    /\ state' = "round"
    /\ UNCHANGED <<batch, pos>>

Continue(b) ==
    /\ pos' = pos + 1 /\ batch' = b
    /\ UNCHANGED <<state, found, k>>

\* Mutant: a direct match ends the search, whatever is pending.
TryDirect_BatchIgnored ==
    /\ state = "outputs" /\ pos <= Len(tx_outputs) /\ IsDirect(pos, k)
    /\ Record(pos, 0)
    /\ UNCHANGED <<given, address, a_sum, generated_outputs, tx_outputs, who, lookup,
                   shared_secret>>

\* The output matches without a label, unless an earlier one in the pending
\* batch has a label.
TryDirect ==
    /\ state = "outputs" /\ pos <= Len(tx_outputs) /\ IsDirect(pos, k)
    /\ LET m == CheckBatch(batch)
       IN  IF m = 0 THEN Record(pos, 0) ELSE Record(m, LabelOf(m, k))
    /\ UNCHANGED <<given, address, a_sum, generated_outputs, tx_outputs, who, lookup,
                   shared_secret>>

\* Otherwise its candidates join the batch, which is checked when it is full
\* or this is the last output.
TryLabels ==
    /\ state = "outputs" /\ pos <= Len(tx_outputs) /\ ~IsDirect(pos, k)
    /\ LET b == Append(batch, pos)
           m == CheckBatch(b)
       IN  IF ~lookup THEN Continue(<<>>)
           ELSE IF Len(b) = BatchSize \/ pos = Len(tx_outputs)
           THEN IF m # 0 THEN Record(m, LabelOf(m, k)) ELSE Continue(<<>>)
           ELSE Continue(b)
    /\ UNCHANGED <<given, address, a_sum, generated_outputs, tx_outputs, who, lookup,
                   shared_secret>>

NothingFound ==
    /\ state = "outputs" /\ pos > Len(tx_outputs)
    /\ state' = "scanned"
    /\ UNCHANGED <<given, address, a_sum, generated_outputs, tx_outputs, scan, call>>

-----------------------------------------------------------------------------
Returned ==
    /\ state \in {"failed", "refused", "scanned"}
    /\ UNCHANGED vars

Next ==
    \/ \E w \in Receivers :
          \/ \E tweak \in LabelHashes : LabelCreate(w, tweak)
          \/ \E label \in labels[w] \cup {0} : AddRecipient(w, label)
          \/ \E with_lookup \in BOOLEAN : ScanStart(w, with_lookup)
    \/ Sum \/ CreateOutput \/ Sent
    \/ \E others \in ForeignOutputs \cup {<<>>} : Publish(others)
    \/ \E outputs \in ForeignOutputs : Foreign(outputs)
    \/ StartRound \/ TryDirect \/ TryLabels \/ NothingFound
    \/ Returned

Spec == Init /\ [][Next]_vars

-----------------------------------------------------------------------------
\* The recipient with index i.
Payee(i) == CHOOSE r \in ToSet(recipients) : r.index = i
Group(i) == {j \in DOMAIN recipients : Payee(j).scan_pubkey = Payee(i).scan_pubkey}

(***************************************************************************)
(* Output i pays recipient i of the original order, and k counts the       *)
(* recipients of the same scan key before him in that order: sorting (heap *)
(* sort is not stable) neither mixes up the outputs nor the counters.      *)
(***************************************************************************)
OutputsInOrder ==
    state = "sent" =>
        \A i \in DOMAIN generated_outputs :
            generated_outputs[i] =
                EvenY(Plus(Payee(i).spend_pubkey,
                           OutputHash[oracle][Times(a_sum, Payee(i).scan_pubkey)]
                                      [Cardinality({j \in Group(i) : j < i})]))

(***************************************************************************)
(* Whatever transaction is scanned, spend key plus tweak is the secret key *)
(* of every found output, label or not, and a label is the receiver's.     *)
(***************************************************************************)
FoundIsSpendable ==
    \A n \in DOMAIN found :
        /\ EvenY(Plus(SpendKey[who], found[n].tweak)) = found[n].output
        /\ found[n].output \in ToSet(tx_outputs)
        /\ found[n].label # 0 => found[n].label \in labels[who]

Matches(m, n) == IsDirect(m, n) \/ (lookup /\ LabelOf(m, n) # 0)

(***************************************************************************)
(* The batches are an optimization: round n takes the first output of the  *)
(* transaction that matches, and the scan ends with the first round that   *)
(* has none.                                                               *)
(***************************************************************************)
ScanIsSequential ==
    state = "scanned" =>
        /\ \A n \in DOMAIN found :
               LET first == Min({m \in DOMAIN tx_outputs : Matches(m, n-1)})
               IN  /\ found[n].output = tx_outputs[first]
                   /\ found[n].label = IF IsDirect(first, n-1) THEN 0 ELSE LabelOf(first, n-1)
        /\ Len(found) < KMax => \A m \in DOMAIN tx_outputs : ~Matches(m, Len(found))

\* No hash collision gets in the way of the receiver: he needs no round that
\* is impossible, and no output matches in two ways.
NoAccident ==
    LET mine == Cardinality({r \in ToSet(recipients) : r.scan_pubkey = ScanKey[who]})
    IN  /\ \A n \in 0 .. mine : n < KMax => ~NoRound(n)
        /\ \A m \in DOMAIN tx_outputs : Cardinality({n \in 0 .. mine : Matches(m, n)}) <= 1
        /\ \A n \in 0 .. mine : Cardinality({m \in DOMAIN tx_outputs : Matches(m, n)}) <= 1

(***************************************************************************)
(* A receiver finds all outputs created for his addresses, labelled or     *)
(* not: sender and receiver agree on the keys of the inputs, on the order  *)
(* of the counters and on the limit of a group.                            *)
(***************************************************************************)
ReceiverFindsHisOutputs ==
    (state \in {"scanned", "refused"} /\ generated_outputs # <<>> /\ NoAccident)
        => \A i \in DOMAIN recipients : Payee(i).scan_pubkey = ScanKey[who]
               => \E n \in DOMAIN found : found[n].output = generated_outputs[i]

(***************************************************************************)
(* The sender fails in the cases the header lists and in no other, in      *)
(* whatever order the recipients were passed.                              *)
(***************************************************************************)
FailsAsDocumented ==
    state \in {"sent", "failed"} =>
        (state = "failed" <=>
            \/ 0 \in ToSet(inputs.seckeys) \/ KeySum(inputs) = 0
            \/ InputHash[KeySum(inputs)] = 0
            \/ \E i \in DOMAIN recipients :
                   LET t == OutputHash[oracle][Times(Times(KeySum(inputs), InputHash[KeySum(inputs)]),
                                              Payee(i).scan_pubkey)]
                                       [Cardinality({j \in Group(i) : j < i})]
                   IN  \/ Cardinality(Group(i)) > GroupLimit
                       \/ t = 0 \/ Plus(Payee(i).spend_pubkey, t) = Infinity)
=============================================================================
