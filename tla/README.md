# A TLA+ development of libsecp256k1

TLA+ models of libsecp256k1, the TLC configurations that check them on small
instances, and TLAPS proofs of theorems about them. Paths below are relative to
the repository; `a.h:12` is line 12 of that file.

Every definition is a translation of C code, and `PROJECT.json` ("map") says of
which lines. Hashes, byte strings and formatting are abstracted; the order of
checks, early returns, erasures and writes is not.

## 1. The system

The library is a set of layers. Below are field and scalar arithmetic, then the
group, then the algorithms that multiply points by scalars, then the protocols.
Most functions are sequential and pure. What is stateful is

- the *context*: two function pointers for errors, one for SHA-256, and the
  blinding of the generator's multiplication;
- the *scratch space*, a stack allocator for the multiplication of many points;
- the *structures callers carry* from one call to the next: keypairs, secret
  nonces, sessions, key aggregation caches, label caches, signatures. The
  library keeps no reference to them, so that callers can pass old copies, pass
  them in any order, and go on after an error;
- the loops inside the algorithms, with tables whose entries leave out their Z
  coordinate and recodings that borrow from other digits.

The test runner is the one part that is concurrent by itself. Contexts are used
by several threads under a locking rule the header states.

| Component | Source (`src/`) | State | Operations | Correct when | Modules |
| --- | --- | --- | --- | --- | --- |
| scratch space | `scratch_impl.h` | `alloc_size`, `max_size`, magic; the frames and checkpoints callers hold | create, destroy, checkpoint, apply_checkpoint, max_allocation, alloc | frames are aligned and disjoint; a checkpoint undoes what came after it; the promised space is there | `Scratch` |
| contexts | `secp256k1.c` | callbacks, SHA-256 function, blinding, whether it is built | create, clone, destroy, preallocated variants, setters, randomize | no secret outlives its context; the static context is never changed | `Context` |
| generator multiplication | `ecmult_gen_impl.h`, `ecmult_gen_compute_table_impl.h` | `scalar_offset`, `ge_offset`, `proj_blind`; the comb's table | multiply, blind | gn\*G whatever the blinding and whoever else uses the context | `Context`, `Comb`, `Ecmult` |
| point multiplication | `ecmult_impl.h`, `ecmult_const_impl.h`, `scalar_impl.h` | tables, recoded scalars, accumulator | Strauss, Pippenger, constant time, X-only | the sum of the products; no field contract is broken | `Recoding`, `Ecmult` |
| many points | `ecmult_impl.h` | batch sizes, objects in the scratch space | `ecmult_multi_var`, its batches | each term once; fails only if the callback does; gives the space back | `EcmultMulti` |
| group | `group_impl.h` | coordinates with magnitudes, Z ratios | additions, doublings, conversions, comparisons, encodings | the group law; every argument of a field function within its contract | `Group`, `GroupOps` |
| field (contract) | `field.h`, `field_impl.h` | value, magnitude, normalized | add, mul, negate, half, cmov, inv, sqrt, comparisons | its callers keep the contract | `Field` |
| ECDSA and recovery | `ecdsa_impl.h`, `secp256k1.c`, `modules/recovery` | the signing loop; r, s, recid | sign, parse, normalize, verify, recover | signatures verify; the signer is recovered; failures leave nothing | `Ecdsa` |
| keys, extrakeys, BIP-340, ECDH | `secp256k1.c`, `eckey_impl.h`, `modules/extrakeys`, `modules/schnorrsig`, `modules/ecdh` | secret key, keypair, public key, x-only key | create, negate, add, multiply, combine, tweak, check, sign, ecdh | who has the secret key and who has the public key stay in step | `Keys` |
| MuSig2 | `modules/musig` | cache, secret nonces, session, partial signatures | aggregate keys, tweak, generate and aggregate nonces, sign, verify, aggregate | a nonce signs once; complete sets of signatures aggregate | `MuSig` |
| silent payments | `modules/silentpayments` | labels, shared secret, counter k, label batch | labels, create outputs, prevouts summary, scan | the receiver finds what was sent to him and can spend what he finds | `SilentPayments` |
| heap sort | `hsort_impl.h` | the array, heap size | hsort, heap_down | sorted, nothing lost, ends | `HSort` |
| ElligatorSwift | `modules/ellswift` | a pair (u, t) for a point | decode, encode, create, exchange | every point has encodings, each of one branch; both parties get one secret | `SwiftEC`, `EllSwift` |
| field elements | `field_5x52_impl.h`, `field_10x26_impl.h` | five or ten limbs with spare bits | as in the contract | the number is right modulo P, no word overflows, VERIFY_CHECKs hold | `FieldLimbs`, `FieldElements` |
| scalars | `scalar_4x64_impl.h`, `scalar_8x32_impl.h`, `scalar_low_impl.h` | four or eight limbs, or one word | add, multiply, reduce, halve, shift, read and write | residues modulo the order, reduced; accumulators do not overflow | `ScalarLimbs`, `ScalarLow`, `Scalars` |
| modular inverse | `modinv64_impl.h`, `modinv32_impl.h` | d, e, f, g, eta, a length | inverse in constant and variable time, Jacobi symbol | the inverse, within the words; the symbol or "unknown" | `SafeGcd`, `ModInv` |
| 128-bit integers | `int128_struct_impl.h`, `int128_native_impl.h` | one double word | multiply, accumulate, shift, compare | both implementations agree | `Int128` |
| hashes | `hash_impl.h`, nonce function of `secp256k1.c` | eight words, a buffer, a count of bytes; K and V | write, finalize, HMAC, RFC 6979 | the digest of all bytes in order; the nonces of RFC 6979 | `Sha256` |
| encodings | `ecdsa_impl.h`, `secp256k1.c`, `contrib` | none | strict and lax DER, compact, keys in DER | one encoding per signature; both parsers agree on it | `Der` |
| test runner | `unit_test.c` | workers, a pipe, the exit status | tf_run, sequential and concurrent | no failure is forgotten, a crash takes one test with it, it ends | `TestRunner` |

How they interact. `MuSig`, `Keys`, `Ecdsa` and `SilentPayments` call the group;
they see it as scalars and points with the parity of Y (`Curve`).
`ecmult_gen` calls the constant-time additions of the group and reads the
context. Strauss and Pippenger call the group in coordinates, and
`ecmult_multi_var` calls them batch by batch, with their memory from the scratch
space and their points from a callback of the user. `ec_pubkey_sort` and the
sender of silent payments call `hsort`. Errors go through the context's callback
and then, if it returns, to the caller as 0.

What is hard here:

- *Ordering of calls.* Nothing stops a caller from signing twice with one
  secret nonce, applying an old checkpoint, tweaking a cache in mid-session or
  going on with a keypair after a failed tweak.
- *Partial failure.* A callback, an allocation, a nonce function or a range
  check fails after something has been written or loaded.
- *Numeric edges.* Scalars that overflow, zero, infinity, equal or opposite
  points, r beyond the group order, sizes that wrap. Random tests on a 256-bit
  curve never meet most of them.
- *Concurrency.* Threads on one context while it is randomized; workers of the
  test runner, which may die.
- *Invariants of representation.* Magnitudes and Z ratios are facts about the
  history of a coordinate that no function can check in production.
- *Words.* Carries, spare bits, signs and lengths of numbers that are cut into
  limbs: the rare case of a 64-bit word is out of reach of random tests, and
  frequent in a word of a few bits.

`PROJECT.json` ("hazards") lists them line by line, each with its properties.

### Not modelled

Whole components, with the reasons in `PROJECT.json` ("components"):

- the generated tables (`precomputed_ecmult.c`, `precomputed_ecmult_gen.c`: a
  third of the repository's lines are these numbers) and the programs that print
  them; what they compute is in `Ecmult` and `Comb`;
- tests, test vectors and benchmarks, another third, which are read as
  documentation, and the public headers, which are quoted;
- utilities (clearing memory, hooks for the checks of constant time) and the
  self test, which change no state that a caller sees;
- builds, examples, and the repository's own Rocq/VST proofs.

Inside the modelled parts: the rounds of SHA-256 (an operator of which nothing is
assumed), the x86_64 assembly of the scalar product (another way to write the C
code beside it), NULL arguments, wrong flags, callbacks that abort (a callback
returns, as the harder case), logging and the command line of the test runner,
and serialization except where it decides a result. Constant time is a property
of the compiled code, not of these models.

## 2. How the modules fit together

```
Curve   points are multiples of G            Field  values with magnitudes
  |-- Context                                  |-- Group     coordinates
  |-- Keys      --.                                  |-- GroupOps   any sequence of operations
  |-- MuSig        MCKeys (with HSort)               '-- Recoding   splitting, digits
  |-- Ecdsa                                                '-- Comb     the comb's table
  '-- SilentPayments                                             '-- Ecmult  the loops
                                                                    '-- EllSwift (with SwiftEC)
MuSig --refines--> OneTimeNonce              EcmultMulti --INSTANCE--> Scratch
HSort stands alone (checked in MCKeys), and so does TestRunner

Words   machine words of any width
  |-- Int128
  |-- Scalars        --INSTANCE--> ScalarLimbs (4 and 8 limbs), EXTENDS ScalarLow
  |-- FieldElements  --INSTANCE--> FieldLimbs  (5 and 10 limbs)
  |-- ModInv         --INSTANCE--> SafeGcd     (64- and 32-bit words)
  |-- Sha256
  '-- Der                all six in MCPrimitives, with Scratch
```

There are two views of the group. `Curve` names a point by its discrete
logarithm, so the point k\*G and the scalar k are both k; which of P and -P has
the odd Y is a constant. This is all that the protocols can tell, and the
theorems about them hold for every prime N and every choice of parities.
`Group` has the coordinates, as field elements with magnitudes (`Field`), and
`FieldElements` shows that limbs keep what `Field` promises. `GroupOps` and `Ecmult` check that coordinates and
discrete logarithms agree, and `Comb` with `Ecmult` checks the formula that
`Context` uses for the comb, comb(d, G/2) = d - diff.

Actions are whole handlers, with these exceptions, where something else can
happen in between or where the loop itself is the subject: `Context` splits a
multiplication and a randomization at each access to the context; `Ecmult`,
`EcmultMulti`, `HSort`, `SilentPayments` and `Ecdsa` take one iteration of the
main loop per step; `TestRunner` one system call.

Variables named *history* in the modules are not in the code; they record what a
property compares with (which tests were run, which multiple a point stands
for, what the scratch space was when a call began).

### Scratch (`scratch_impl.h`)

`scratch` is the struct (`magic`, `alloc_size`, `max_size`; the data are
offsets), `frames` and `marks` are what callers hold. `Create`, `Destroy`,
`Checkpoint`, `ApplyCheckpoint`, `Alloc` are the functions and `MaxAllocation`
the query, all with `size_t` modulo `SizeMax + 1`. `malloc` may fail. A request
for 0 bytes returns a pointer and takes no space, as `ROUND_TO_ALIGN(0)` wraps
to 0. A checkpoint that was rolled back past is
*stale*: the code accepts it when `alloc_size` has grown again, and the model
does too, taking the frames that it cuts for given up. `FramesSound` and
`CheckpointUndoes` therefore say nothing against a caller that applies a stale
checkpoint; that the library's own callers roll back to what they found is
`SpaceReturned` in `EcmultMulti`.

### MuSig (`modules/musig`) and OneTimeNonce

One variable per structure of the API: `cache`, `secrand`, `secnonce`,
`pubnonce`, `aggnonce`, `session`, `psig`. A structure without its magic is
`Zero`. Actions are the functions: `PubkeyAgg`, `PubkeyTweakAdd` (both kinds),
`NonceGen`, `NonceGenCounter`, `NonceAgg`, `NonceProcess`, `PartialSign` (with
any signer's keypair), `PartialSigParse` (a value that overflows clears the
signature), and the caller filling his buffer with
fresh randomness (`FillSecrand`). Verification and aggregation are operators,
as they change nothing. What partial_sign does before its checks, load the
nonce and zero it, is kept in that order.

`OneTimeNonce` is what the module promises: a nonce is unborn, held or gone, and
signs only in the step from held to gone. `MuSig` implements it under the
mapping `NonceStatus`, which looks at the secnonces.

### Context (`secp256k1.c`, `ecmult_gen_impl.h`)

`ctx` maps memory to the contents of a context, `call` a thread to where it is
in a multiplication or randomization. The guards `Shared` and `Exclusive` are
the locking that `include/secp256k1.h:42-46` asks of callers: what races without
it is not modelled, and what it allows, multiplications that overlap each other
and the randomization of other contexts, is. `BlindProjection`,
`BlindPoint`, `BlindScalar` are the three writes of `ecmult_gen_blind` in their
order; the second multiplies under a blinding that is half replaced.
`MultScalar`, `MultComb`, `MultAdd` are the three reads of
`ecmult_gen_gej`. `NotAPoint` is what the additions would give for arguments
they are not made for.

### Keys (`secp256k1.c`, `eckey_impl.h`, extrakeys, schnorrsig, ecdh) and HSort

An owner derives secret keys, as a seckey or as a keypair; a watcher follows
with the functions for public keys. `op` is the derivation the watcher has not
followed yet. One action per function; a failed one leaves zeros, as in the
code, and the parties go on with those. `PubkeyCombine` is used with valid
points only, as the C function does not look at the result of loading them.
Signing and `keypair_xonly_tweak_add` go on with dummy values after a failed
load and erase the result in the end.

`HSort` models `hsort` and `heap_down`; elements are a key and their original
position, so that lost elements and instability can be seen. It is composed with
`Keys` in `MCKeys`, as both are small; a sort touches no key.

### Ecdsa (`ecdsa_impl.h`, recovery)

`SignStart`, then one attempt per step: `NonceFails`, `TryAgain`, `Sign`. The
caller's r, s and recid are the variables, also between attempts. Signatures
from elsewhere come in through `ParseCompact`. `Verify`, `Normalized`,
`Recover` are the functions. `X` gives each point its X coordinate in a field
larger than the group order, so r can wrap. A 32-byte string is a number that
may be too large for a scalar.

### SilentPayments (`modules/silentpayments`)

The sender's array, the labels of each receiver, the transaction's outputs, and
the scan. `Sum`, `CreateOutput` (one recipient), `Sent` are the sender;
`ScanStart`, `StartRound`, `TryDirect`, `TryLabels`, `NothingFound` the scan,
with its batch of label candidates. `Publish` puts the outputs in any order into
a transaction, `Foreign` is a transaction of other software.

### EcmultMulti (`ecmult_impl.h`) on Scratch

`ecmult_multi_var` and its two batch functions. `PippengerMaxPoints`,
`StraussMaxPoints` and the batch sizes are computed as in the code from the free
space, then each object is allocated through the actions of `Scratch`. The sum
is a bag of terms: what is computed inside a batch is the subject of `Ecmult`.

### Field, Group, GroupOps (`field_impl.h`, `group_impl.h`)

A field element is a value, a magnitude and whether it is normalized. An
operation whose contract in `field.h` is broken gives `Overflown`, which no
operation recovers from. `Group` has every formula with its magnitudes;
`GroupOps` applies any sequence of them to one jacobian and one affine point.

### Recoding, Comb, Ecmult (`ecmult_impl.h`, `ecmult_const_impl.h`, `ecmult_gen_impl.h`, `scalar_impl.h`)

`Recoding` has the split along the endomorphism with its rounding, `ecmult_wnaf`
and `wnaf_fixed`. `Comb` computes the table of the comb and its look-up.
`Ecmult` runs the five algorithms, one iteration per step, on the coordinates of
`Group` with the shared Z of `TableSetGlobalz`.

### SwiftEC and EllSwift (`modules/ellswift`)

`SwiftEC` is the map and its partial inverses, formula by formula with
magnitudes, so that the run would see a broken contract. `EllSwift` has three
calls: decode any pair of numbers, not below P or 0 included; invert one X
coordinate for one u in all eight branches; and an exchange, in which both
parties create or encode a key and then call `ellswift_xdh`, the multiplication
being that of `Ecmult`, step by step. The random u and branch of the encoder's
search are chosen freely.

### The primitives

They are functions that keep no state, so each is a *unit*: a register (or a
call in progress) that operations are applied to, next to the number it should
hold. Widths of words are constants, and the code's limbs are sequences.

- `Int128`: the struct implementation and the native one side by side on the
  same operands.
- `ScalarLimbs` has the functions of `scalar_4x64_impl.h` with the carries and
  accumulators of the code, `Scalars` applies them with four and with eight
  limbs. `ScalarLow` is the representation of the exhaustive tests.
- `FieldLimbs` has every function of `field_5x52_impl.h` and
  `field_10x26_impl.h`; where the two differ (the products) it has both.
  `FieldElements` applies them to the largest limbs of each magnitude as well as
  to numbers around 0 and P.
- `SafeGcd` is `modinv64_impl.h`: divsteps in constant and variable time, the
  matrices, the updates of d, e, f, g, the length that shrinks, the Jacobi
  symbol. `ModInv` instantiates it twice (`modinv32_impl.h` differs in how it
  cancels bits) and adds the callers, `scalar_inverse`, `fe_inv` and
  `fe_is_square_var` with its fallback.
- `Sha256`: buffering, padding and the count of bits in the code's own sizes;
  HMAC; the generator of RFC 6979 and the nonce function on top.
- `Der`: strict and lax parser, serializers, compact signatures, private keys, on
  inputs in which one length or one integer is not as it should be. Of an
  invalid key nothing is exported.

### TestRunner (`unit_test.c`)

The parent is at `pc` with the loop counter `it`; workers read bytes from
`pipe`. `readers` and `writers` are the processes that have each end open, as
end of file and SIGPIPE depend on them. Every test may abort its process. `pipe`,
`fork`, `read`, `write` and `waitpid` may fail at every call: a failed `write`
makes the parent return while workers run (`WriteFails`), a failed `waitpid`
counts as a failed worker, which may go on (`WaitFails`), and a failed `read` ends a
worker with EXIT_SUCCESS, as the end of the pipe does (`ReadFails`, the state
`gave_up`). `close` is assumed to succeed; its result is not looked at. What the
parent writes is reduced to a byte.

## 3. The runs

All runs finish within two minutes with two workers. Each checks its properties
on the instance given, and for every property a mutant of the model (a plausible
bug in the C code; comments "Mutant:") is known to break it.

| Run | Instance | Shows |
| --- | --- | --- |
| `musig` | two signers, three key lists (one with equal keys), N = 7, up to two tweaks (plain or x-only, valid or overflowing), two values of randomness | a nonce signs once and `OneTimeNonce` is implemented; partial signatures verify and aggregate; the cache means what it says |
| `musig_received` | every scalar as a received partial signature | *violation*, see section 5 |
| `context` | two threads, two blocks of memory and the static context, N = 5, inputs 0, 1, 4 | products are right in every interleaving; secrets are cleared |
| `test_runner` | 0 to 3 processes, 1 to 5 targets (3 allowed for workers), a pipe of two bytes, calls that fail | no failure is forgotten and no crash hidden, tests run at most once, the run ends |
| `test_runner_reads` | the same | *violation*, see section 5 |
| `keys` | N = 5, byte strings 0 to 6; sorts of up to 6 elements with 3 keys | the watcher follows, commitments open, signatures verify; sorting |
| `silentpayments` | N = 31, two receivers, one label each, three recipients with a group limit of 2, batches of 2, five sets of inputs, two hash functions, all transactions of up to three of five outputs | the receiver finds and can spend; failures are the documented ones |
| `ecmult_multi` | 0 to 6 points, scratch spaces of every size from 0 to 400, with a frame of the caller or not, four windows, batches of at most 4 | every term once; fails only by the callback; the space is returned |
| `ecdsa` | N = 11, P = 17, byte strings 0 to 18, one retry | signatures verify, the signer is recovered, recovery and verification agree |
| `group` | y^2 = x^3 + 5 over 7 elements, 7 points | group law, magnitudes, comparisons and encodings, tables |
| `ecmult` | y^2 = x^3 + 3 over 31 elements, 43 points, 6-bit scalars with 3-bit halves, eight comb shapes, two bucket windows; every pair (u, t), every x and u, five pairs of secret keys | five algorithms compute the product; encodings decode to their point and are counted once; both parties of an exchange get one secret |
| `primitives` | 4-bit words for 128-bit integers; scalars of four 2-bit and eight 3-bit limbs and of one 8-bit word; field elements of five 11-bit limbs in 16-bit words and ten 8-bit limbs in 12-bit words; inverses in 10- and 11-bit words; messages to 200 bytes; DER with 22 contents; a scratch space with a 5-bit `size_t`, alignment 4, header 6, sizes 0, 1, 6, 8, 22, 29, 31, two checkpoints | the two 128-bit integers agree; scalars and field elements are the right residues and stay in their words; inverses and symbols are right; digests, nonces and encodings are those of the standards; frames are sound, checkpoints undo, `max_allocation` is honest |

Why these bounds are enough to be interesting:

- *musig*: every parity of aggregate key and nonce occurs, as does an aggregate
  nonce at infinity, and a parsed signature overflows; two values of randomness suffice for a reuse and for a mix
  of two; two x-only tweaks undo and redo the negation. `uses` saturates at 2.
- *context*: two threads are a reader and a writer, or two readers; two blocks
  a source and a target of a clone. Blinding values of 0 occur.
- *test_runner*: the pipe is smaller than the number of tests so that the parent
  blocks; three workers are more than a pair; five slots exceed what the byte
  allows. The bound on targets lies below the byte's range as in the code.
- *keys*: 5 and 6 overflow, 0 is invalid; every tweak can cancel every key. Six
  elements give a heap of three levels with a node that has one child.
- *silentpayments*: one recipient more than the limit, more outputs than a
  batch holds, keys of even and odd parity, input sums that cancel, invalid
  keys, and a hash function with zeros and collisions.
- *ecmult_multi*: the struct sizes are no multiples of the alignment, so
  padding matters; spaces range from no room for one point to room for all;
  six points give a last batch that is shorter.
- *ecdsa*: of the five X coordinates one is 0 and two overflow as scalars; the
  high half, zero s and every recovery id occur.
- *group*: seven points over seven elements, with an endomorphism as on the real
  curve; small enough for every degenerate pair to be reached, among them
  opposite Y with different X, which the constant-time addition treats apart.
- *ecmult*: the lattice basis is reduced, the halves use all their bits, signs
  differ, digits borrow and cancel, the comb is larger than, equal to and
  smaller than a scalar's width, with one and several blocks and teeth.
- *primitives*: limbs keep the proportions of the code (spare bits, the top limb
  that is shorter, an order or prime just below a power of two, with the same
  number of limbs in the difference). The prime's place is taken by a product of
  known factors, as the limbs' code does not use that P is prime and a number of
  forty bits can only be compared by remainders in 32-bit arithmetic. Scalars of
  four limbs take all values around 0, half the order and the order; the
  magnitude goes to 8 (32 in the code) with 2 (8) for products. The inversions
  get 83 numbers, among them powers of two and neighbours of the modulus, and
  fewer iterations than the code would allow for the symbol, so that it is given
  up for some. The accumulators of `fe_mul_inner` in five limbs, 128 bits in the
  code and 32 here, are held below 2^31 by TLC's own arithmetic, which reports an
  error beyond it: half of what the type could hold, and no property of the
  model. 55, 56, 63, 64 and 129 bytes end on each side of a block and of
  the padding. In the scratch space 0 and 29, 31 wrap in the rounding or with the
  header, 22 fills the block, and two checkpoints give nested, equal and stale
  ones. It shares no state with the other units: a behaviour is one of a
  computation or one of the scratch space.

Deadlock is checked except in `group`, `ecmult` and `primitives`. There it is
switched off: a multiplication or a call that is done has no next step, and in
the group the operations have no end state of interest. Where a program ends (test runner, ECDSA, silent
payments, many points), a stuttering action names the final states, so that any
other stop is reported.

*Fairness.* `Ends` (test runner) assumes weak fairness of the parent and of each
worker: the operating system schedules processes, and a test that neither
returns nor aborts is excluded, as the code has no timeout either. It is not
assumed that any call succeeds, nor that one fails: the failures of `read`,
`write` and `waitpid`, which could end a process's waiting, are outside the
fair actions (`CallFails`), so that no process ends only thanks to an error. `Terminates` (heap sort) assumes weak fairness
of the sort's own steps: sequential code that nothing interrupts. The other
runs are about safety.

## 4. The proofs

| Module | Theorems | For every |
| --- | --- | --- |
| `StandaloneProofs` | `ScratchTypeOK`, `ScratchFramesSound`, `ScratchMarksSound`, `ScratchCheckpointUndoes`, `ScratchMaxAllocationHonest` | word size, alignment that divides it, header size, sizes asked for |
| `StandaloneProofs` | `RunnerStatusHonest`, `RunnerCrashIsContained` | number of tests and of workers, size of the pipe, tests that abort, calls of pipe, fork, read, write and waitpid that fail, interleaving |
| `StandaloneProofs` | `WideAgreement` | even width of a word, operands, sequence of operations |
| `StandaloneProofs` | `GroupLawHolds`, `PointsReadHolds` | prime field with P % 4 = 3, curve y^2 = x^3 + B that the generator makes a cyclic group of, sequence of operations on points, scaling factors, encodings |
| `MuSigProofs` | `MuSigTypeOK`, `MuSigTweakSound`, `MuSigNonceSignsOnce`, `MuSigImplementsOneTimeNonce`, `MuSigSignaturesSound` | group order, number of signers, key lists, hashes, tweaks, nonces, order of calls |
| `SilentPaymentsProofs` | `PaymentsInvariant`, `PaymentsOutputsInOrder`, `PaymentsFailsAsDocumented`, `PaymentsFoundIsSpendable`, `PaymentsScanIsSequential`, `PaymentsReceiverFindsHisOutputs` | group order, receivers and keys, inputs, hashes, number of recipients, labels and outputs, group limit, batch size |
| `ContextProofs` | `ContextInvariant`, `ContextGenCorrect`, `ContextBlindingSound`, `ContextSecretsCleared`, `ContextStaticUntouched` | group order, comb size, threads, contexts, seeds, generator |
| `EcdsaProofs` | `EcdsaSignatureVerifies`, `EcdsaSignerIsRecovered`, `EcdsaRecoveryIsVerification` | prime group order, field order, X coordinates, key, message, nonces, attempts |
| `EcdsaProofs` | `HashesAreStandard`, `GeneratorIsStandard` | compression function, message and its pieces, keys and seeds and their lengths, sequence of requests |
| `EcdsaProofs` | `DerEncodingsStrict` | contents of integers up to 20000 bytes, what may be wrong with a length, secret keys |
| `KeysProofs` | `KeysWatcherFollows`, `KeysCommitmentOpens`, `KeysSignaturesVerify` | prime group order, byte strings, sequence of calls |
| `KeysProofs` | `HSortSound` | array length, keys |
| `KeysProofs` | `LowScalarsSound`, `LowScalarsAreCurveScalars` | prime order and lambda, width of the word, width and number of bytes, sequence of operations |
| `EcmultMultiProofs` | `EcmultMultiEveryTermOnce`, `EcmultMultiFailsOnlyByCallback`, `EcmultMultiSpaceReturned` | number of points, scratch space and what its owner has in it, sizes of structs, table of windows, failing callback |

`CurveLemmas` holds what they rest on. Division with remainder: the provers know
no nonlinear arithmetic, so that a division enters only through `DivMod`. The
ring of scalars: addition and multiplication modulo N are associative and
distribute, negation is unique. And recursion over finite sets, as the fold
operators of the community modules define it: that the recursive function
exists, unfolds at any element, and what a sum of sums or of products is. These
are proved from the existence of least elements (`LeastElement`,
`SubsetInduction`), as the induction theorems of the library take an operator
that no prover here instantiates.

*Assumptions* are the named ASSUMEs of the modules. `CurveAssumption` says that
of P and -P exactly one is odd (so the order is odd and no point is its own
negative). `EcdsaAssumption` and `KeysAssumption` state the primality of N as
what is used of it: inverses exist, or no product of units is 0. `MultiAssumption`
says of the table of windows that it does not decrease and ends at `SizeMax`,
and that powers of two are positive, as the provers know nothing of `^`.
`PowersOfTwo` says in `Int128` that 2^(i+j) = 2^i \* 2^j for the exponents
that occur, for the same reason, and so does `LowPowersOfTwo` in `ScalarLow`.
`ScalarLowAssumption` is what `scalar_low_impl.h` asks of its order: a prime, of
which a product, and a residue followed by a byte, still fit into the word. `Sha256Assumption` keeps what is hashed below
2^28 bytes, where the model's 32-bit `bytes << 3` does not wrap. `DerAssumption`
says that contents are bytes, at most 20000 of them, and that keys have 32 bytes;
inputs then are shorter than 2^16 bytes, which is where the model's `ReadBE` stops
telling lengths apart. `FieldIsPrime` says that what is not 0 has an inverse, `FermatHolds` that its
power P - 1 is 1 (Fermat's little theorem, which needs induction and
rearrangement of a product, is not proved here).
`CurveIsGroup` says what mathematics knows of the curve and not of the formulas:
that the chord and tangent rule makes its points a cyclic group of prime order,
that no point
has Y coordinate 0 (N is odd), and that Lambda and Beta are the same
endomorphism; associativity of the rule itself is beyond the provers. `MuSigAssumption` gives the hashes their range. `PaymentsAssumption` says that a
receiver is known by his scan key: two receivers with one scan key would each
take the other's outputs for a label they do not know. TLC
evaluates each ASSUME on the instances. The theorems about hashes have a
hypothesis instead, `EightWords`: the compression function maps eight words and a
block to eight words, and the initial state is eight words. It quantifies over all blocks, so TLC cannot
evaluate it; `fn_sha256_compression` has it by its type. `ContextProofs` also rests on the guards for the
documented locking.

*Arguments.*

- Scratch: `IInv` is the conjunction of the module's invariants and `Offsets`:
  `alloc_size` and all checkpoints, stale ones included, are aligned, frames are
  not empty, and only a created object has frames and checkpoints. Without it
  the frame after a roll-back could start anywhere. A stale checkpoint may cut
  into a frame, which then is nobody's. What `max_allocation` subtracts is as
  much as the rounding of that many sizes can add, less than an alignment each.
- MuSig, keys: `KeyInv` adds to `TweakSound` that the aggregate key is finite.
  The x-only negation turns g\*Q + t\*G into its negative, three fields at once.
- MuSig, nonces: `NonceInv` says that a nonce is in at most one secnonce, that
  one that is held has not been used, that a used one was born, and that
  randomness in a caller's buffer has not been born. The last part is why the
  erasure of `session_secrand32` matters. Refinement: each action either writes
  a nonce over whatever the structure held (Generate), erases one (Discard),
  signs with one (Sign) or stutters.
- MuSig, signatures: `SigInv` says what each structure is made of. An aggregate
  nonce names the nonces it was made from (`from`), a session the aggregate
  nonce and the cache, and a partial signature that was made is the
  value partial_sign computes from the signer's key and nonce and the cache and
  session of that time, e\*a\_i\*d\_i + k\_1 + b\*k\_2 up to its two signs. The sum over all signers then is
  e\*(g\*Q) + R by linearity of `AggregateKey` and `NonceSums`, which are folds
  over the set of signers, and the common part adds e\*t: the equation of
  BIP-340 for the tweaked key.
- TestRunner: `RunnerInv` has three parts. `TestsInv` places every test: not
  yet written, in the pipe, with one worker, passed, or lost with the worker
  that it aborted. `EndsInv` says which processes hold an end of the pipe, so
  that a worker sees end of file only when nothing more can come. `Control` says for each point of the
  parent's program what is done and which workers exist. That no failure is
  forgotten needs all three: a test that was started and did not pass was lost with a worker
  whose status the parent has not yet read, or has, and then the status is 1. A
  test that was not started is still in the pipe, so no worker has seen the end
  of the pipe; if none was aborted either, all of them failed to read, which
  is what `StatusHonest` leaves open and `test_runner_reads` shows. After a failed
  `write` or `waitpid` the parent's status is 1 whatever workers still do.
- SilentPayments, sender: sorting by (scan key, index) puts each group together
  in the order in which it was passed (`BeforeGroups`, `BeforeIndex`). Hence, in
  `Sending`, k is one more than the number of recipients of the group with a
  smaller index: at a new key nobody is before, at the same key the previous
  one is the next smaller index. For `FailsAsDocumented` the last recipient of
  a group that is too large has a counter the limit excludes.
- SilentPayments, receiver: `InRound` says that no output behind `pos` matches,
  except labelled ones that wait in the batch, so whatever a round records is
  the first match (`FoundInv`); adding the label back to the unlabelled key
  gives the output or its negative (`LabelAdded`). Both sides fold the keys of
  the inputs, the sender over scalars and the receiver over points, to the same
  sum (`SumsAgree`), and share the secret. If the scan had stopped before the
  counter of some recipient, another of the group has the round it stopped at as
  his counter (`BelowSegment`), and his output would have matched there.
- Context: `ContextInv` says for each thread how far it has come and what is
  left to do: between the write of the point and of the scalar,
  scalar_offset + old b = diff while ge_offset is the new b\*G. A reader's
  partial result plus what the context still holds is the product.
- Ecdsa: a created signature is some `Created(k)`, and s\*k = r\*d + m up to
  the sign that was flipped; verification then finds k\*G or -k\*G and compares
  X, and recovery lifts the one with the recorded parity and overflow. For
  signatures from elsewhere, both functions solve one equation, R\*s = r\*Q + m
  for the nonce's point R: recovery takes R from r and the id and finds Q,
  verification takes Q and looks whether R has X coordinate r.
- Keys: `FollowInv` says what the watcher *will* have once he has followed the
  pending operation; `CommitInv` what the keypair is relative to the published
  key; `SigInv` that s = e\*d + k with k the even nonce. Dummy values after a
  failed load are covered, as they never reach a result with ret = TRUE.
- HSort: while an element sinks, the array is a heap but for one node, `down`,
  whose children are not larger than its parent (`Bridged`): that is what makes
  the array a heap again when the element stops. The root of a heap is its
  largest element (a least counterexample has a parent), so the tail that it is
  swapped into is sorted.
- Int128: a pair *stands for* a number if its words are the number's quotient
  and remainder by 2^W, taken modulo 2^W. `WideInv` says that the pair stands
  for the number of the compiler's type, and that this number is in range
  whenever no check has failed. Four half products and the carry in the middle
  give the high word of a product (`ProductOfHalves`); `lo < summand` is the
  carry of a sum and the borrow of a difference (`SumWithCarry`,
  `DifferenceWithBorrow`). The checks look at three signs only: that they fail
  exactly when the sum is out of range is `SignsOfSum`, and needs that the high
  word of a product with its carry is still a signed word (`SignedProduct`).
  Shifts, check_bits and check_pow2 are divisions by powers of two taken in two
  steps (`DivDiv`). `WideSpec` is the specification of this unit alone; the run
  `primitives` checks it together with the other units, which share no state
  with it.
- Sha256: a hash has *absorbed* a message (`Absorbed`) if its words are those
  after the whole blocks of the message, its count is the message's length and
  its buffer begins with the rest. Every write keeps that, in its three cases:
  the buffer is filled and emptied, the data is too short to fill it, the buffer was empty
  (`WriteAbsorbs`); so do the padding and the size that finalize writes, and they
  make the standard's padded message (`FinalizeIsDigest`; of the zeros only one
  number fits, `ZerosAreChosen`). `HashInv` then says what each register has
  absorbed: the inner hash of an HMAC what comes after the key's pad, which is
  one block because flipping by 0x5c and then by 0x5c ^ 0x36 is flipping by 0x36
  (`XorAllTwice`). `RngInv` says that k and v are the K and V of the standard, that
  `retry` is set once something was asked, and that a generator asked for
  nonces only is the one the nonce function reaches with as many requests. The
  loops are recursive functions in LET: that they exist and what their values
  are is shown by a least counterexample (`RecursionDefined`, `RecursionType`).
- Der: whatever is read is looked at by *place*. `IsAt(e, p, d)` says that d is in
  the input from position p on, and a value is there if its tag, its length and
  its contents are, one behind the other (`TlvAt`). Lengths are the centre:
  `LengthIsRead` says that `der_read_len` reads the length that X.690 writes, and
  `LengthIsThere` that what it accepts is written so, as every other form has a 0
  in front or says less than 128. From there both directions climb through
  integers (`IntegerRead`, `IntegerIsThere`) and pairs (`PairRead`,
  `PairIsThere`) to `StrictIsRight`. `MinimalIs`: the shortest contents in two's
  complement are exactly those the two tests for padding leave, so that a scalar
  other than 0 comes from one contents only (`ContentsUnique`) and what was read is
  written back as the same bytes (`WrittenBack`). The lax parser's loops read the
  same lengths and digits (`LaxLengthIs`, `LaxIntegerIs`); of a cut key the
  outer length says more than is left (`PartIsNoKey`). `DerSpec` is this unit
  alone, as `WideSpec` is Int128.
- ScalarLow: `LowInv` says that the register is the reduced residue that it should
  be. What a theorem has to add to that is the functions' answers for every residue:
  that reading bytes from the top keeps the residue of what was read so far and
  reports overflow exactly once it was reached (`KeptGrows`), that the digits of
  a residue are the bytes it is read from (`NextPlace`), and that the search for
  an inverse finds one: the least residue other than 0 among the multiples of a
  unit divides the order, or the remainder would be a smaller one, and so is 1
  (`LowInvertible`). With the order of the group for `NLow` these are the scalars of `Curve`, which the proofs of the protocols calculate with
  (`LowScalarsAreCurveScalars`). `LowSpec` is this unit alone.
- EcmultMulti: the points below `total - n` have been summed, and the batches
  cover the others as n_batches \* n_batch_points >= total (`LoopInv`). The
  objects of a batch are above the checkpoint and the caller's frames below it
  (`InBatch`). `PlanFits` says that the objects of every batch, with their
  padding, fit into what was free: for Strauss by the division that gave the
  number of points; for Pippenger because the search for the maximum goes on to
  a larger window only after the smaller one has held all the points it is
  chosen for. So no allocation fails, and what returns 0 is a callback.

- Group: a field element *is* a number within a magnitude (`Is`) if it has the
  number's residue; every field operation computes with these, as long as the
  magnitudes of its arguments are what the caller says (`AddIs`, `NegateIs` and
  so on). A jacobian point *stands for* a point (`Stands`) if its coordinates
  are x\*z^2, y\*z^3 and z for a z that is not 0, or if it is infinity, with
  whatever coordinates but within the magnitudes: the formulas in constant time
  run on them too. `PointsStand` says this of both points. An operation is
  followed in two steps. Its coordinates are given names with the equation and
  the magnitude of each (`DoubleAt`, `AddTailAt`, `AddGeAt`), and then the
  equations are shown to be those of the chord or the tangent, scaled by powers
  of the new Z (`DoubleStands`, `AddTailStands`, `AddGeFinite`): each polynomial
  identity is a leaf of its own over integers, and `SameSum` and `SameProduct`
  take it to residues. The unified addition needs that both expressions for
  lambda are the slope (`OtherSlope`, which uses the curve equation) and that
  one of their denominators is not 0 unless the points are opposite. A root is
  determined by its parity (`RootsByParity`), so that a compressed encoding
  names one point; that the power `fe_sqrt` takes is a number is shown by a least
  counterexample (`PowersAre`, `UpTo`), and that it is a root is what the parser checks.
- Points, read: the invariant is `PointsStand` again, and what is shown is that
  each function read off it tells the multiples. Comparisons (`EqualGejs`,
  `EqualGes`) come down to different multiples being different points
  (`IndicesDiffer`, as an opposite would add up to infinity) and to the sum of
  P and -Q being infinity. `gej_eq_x_var` compares with a fraction: the same X
  is the same point or its opposite (`SameXs`). That both encodings are accepted
  needs a square to have the root `fe_sqrt` computes (`SquareHasRoot`: powers
  multiply, powers of a square are the even powers, and Fermat);
  `ge_x_frac_on_curve_var` never divides, as a square times a square is a square
  (`ScaledSquare`). The shared inversion: the loop forwards computes products
  without the points at infinity, the loop backwards their inverses, each times
  the other 1 (`ProductsInvertible`, by a least counterexample), for any number
  of points (`SetAllStands`). The table of odd multiples: the additions happen on
  the isomorphic curve on which 2P is affine, whose group law is the curve's,
  scaled (`RescaledSum`); no addition is degenerate, as P, 3P and 5P have other X
  coordinates than 2P in a group of prime order above 5 (`XsDiffer`,
  `TableIndices`); each entry's Z, which the code does not keep, times the
  ratios after it is the last one's, so that scaling by them brings all to one Z
  (`BroughtTo`, `LastPoint`). This is for tables of three points, as the run has
  them.

*Only model-checked*: `Recoding`, `Comb` and `Ecmult`, whose loops are recursive
functions or many steps over tables, `SwiftEC` and `EllSwift`, and of the primitives `ModInv`, `FieldElements` and
`Scalars` (but for its third representation, the single word, which is proved),
whose loops over words are recursive operators or weigh limbs with powers of two. Of `NonceIsRfc6979` the half
`FollowsRfc6979` is proved; that the nonces of different attempts differ
(`NoncesDiffer`) depends on the compression function and is checked for one. Liveness
(`Ends`, `Terminates`) and ENABLED are out of the prover's reach. Induction over
data is too where the data are computed by a RECURSIVE operator; folds over
finite sets and sequences are within reach, as above. `SilentPayments` defines
the sorted array as the one permutation in order, not by a sorting function;
`HSortSound` and the run `keys` are about the sort that the code uses.
That `Comb`'s loops compute `Context`'s formula is checked for eight shapes, not
proved for all.

## 5. Findings

`test_runner_reads`: `src/unit_test.h:141-143` says of `tf_run` "Returns:
EXIT_SUCCESS (0) if all tests passed, EXIT_FAILURE (non-zero) otherwise." The
loop of a worker (`unit_test.c:320`) ends on any result of `read` other than 1
and then exits with EXIT_SUCCESS. If `read` returns -1 in every worker, indices
stay in the pipe, no worker reports a failure, and `tf_run` returns EXIT_SUCCESS
although those tests were never run. One worker that reads to the end is enough
to prevent it (`StatusHonest`, `CrashIsContained`).

`musig_received`: `include/secp256k1_musig.h:537-539` says that verification of
partial signatures is not required "because if any partial signature does not
verify, the final signature will not verify either, so the problem will be
caught". `secp256k1_musig_partial_sig_agg` adds scalars: two partial signatures
that are off by opposite amounts aggregate to a signature that verifies while
neither of them does. The final signature is a valid one, so no harm is done to
its holder; the sentence is about which signatures fail, and as such too strong.

Facts about the code that the models show and no document denies:

- A stale checkpoint is accepted by `scratch_apply_checkpoint` and cuts into
  later frames (`marks` with `stale`): rolling back in order is the caller's duty.
- A silent payment output is recorded even when adding its label's tweak gives
  0 and `seckey_tweak_add` fails; the 0 that the code then stores is the right
  tweak (`FoundIsSpendable`).
- `ec_pubkey_combine` and `ecdh` do not look at the result of `pubkey_load`;
  what they do with an invalid object is up to the illegal callback.
- In ten limbs of 26 bits an element whose limbs are the largest that magnitude
  32 allows does not survive normalization: `t0 += x * 0x3D1` in
  `field_10x26_impl.h` wraps in its 32-bit word. `field.h` allows magnitude 32;
  no operation builds such limbs (the largest are those of a negation,
  2(m+1)\*P, whose lowest limb is smaller by what the product adds), and the
  tests ask `fe_get_bounds` for magnitudes up to 31 only. `FieldElements` keeps
  such an element from growing to the limit (`Grows`).

## 6. Plan

The order of work was, and goes on to be, by what a mistake would cost.

1. *Done*: stateful components (`Scratch`, `MuSig`, `Context`, `TestRunner`),
   with the abstract specification `OneTimeNonce`.
2. *Done*: protocols on `Curve` (`Ecdsa`, `Keys`, `SilentPayments`), the
   composition of `EcmultMulti` with `Scratch`, `HSort`.
3. *Done*: arithmetic on coordinates (`Field`, `Group`, `GroupOps`, `Recoding`,
   `Comb`, `Ecmult`).
4. *Done*: proofs for `Scratch`, `MuSig`, `Context`, `Ecdsa`, `Keys`,
   `EcmultMulti`, `HSort`, `TestRunner` and `SilentPayments`: every safety
   property of every protocol and stateful component that a run checks. Of the
   primitives `Int128`, `Sha256`, `Der` and `ScalarLow`. Of the coordinates,
   `Field`, `Group` and `GroupOps`.
5. *Done*: ElligatorSwift over a small field, and the primitives on words of a
   few bits: both 128-bit integers, both widths of scalars and of field elements,
   the divsteps, the hash's buffering with HMAC and RFC 6979, the DER parsers.
6. *Next, proofs*: tables of any number of points, then the loops of `Ecmult`
   over them; the limb functions of `ScalarLimbs` that add and negate.
7. *Abstract specifications worth stating*: a scan of silent payments without
   batches, which the batched one implements; an `EcmultMulti` that is one
   atomic sum; the key functions as operations on one discrete logarithm.
