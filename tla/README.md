# Verification of the anonymous age verification protocol

TLA+ models of `code/python` (the protocol and its proof core) and of the proof system of
`code/rust` (the native prover), with TLC runs on small instances and TLAPS proofs. Paths
below are relative to `src/`; `protocol.py` and `core.py` are in `code/python/`, the Rust
files in `code/rust/src/`.

## 1. Inventory

| Part | State it keeps | Operations | What makes it correct |
|---|---|---|---|
| `GovernmentAuthority` (`protocol.py:135-196`), one instance per age threshold | `registry` citizen -> slot, `tree`, `next_index` | `enroll`, `revoke`, `publish_root_bundle`, `published_tree` | registry and tree agree after any mix of refusals, revocations and re-enrolments; slots are never reused; successive bundles form a history |
| `SparseMerkleTree` (`core.py:207-248`) | `nodes`, `zero`, `next_index` | `set_leaf`, `append`, `revoke`, `root`, `path` | the root commits to exactly the leaves; a path folds to the root from the leaf at its slot and from no other |
| `CitizenWallet` (`protocol.py:262-380`) | `secret`, `leaf_index`, `indices`, `pins`, the saved file | `enroll_with`, `make_token`, `save`, `load` | one threshold per domain unless the user confirms; the warning does not depend on membership; the index used is the authority's |
| `Website` (`protocol.py:383-471`) | `bundle`, `nonces`, `accounts` | constructor, `update_root`, `challenge`, `verify_token` | a nonce is accepted once, in time; a failed verification burns nothing; a challenge can be answered until its deadline; the table does not leak; the bundle goes back to none of an earlier second |
| the protocol as a whole | the three above, tokens in flight | calls between them; the only messages are the public bundle, the nonce and the token | acceptance implies age, membership and consent; a token is accepted once; roots move forward; a registered holder is served, unless a restart lost their index or the site's bundle is out of date |
| proof system (`core.py:251-331, 420-626`, `circuit.rs`, `zkboo.rs:40-369`) | shares, tapes, transcripts | `prove`, `verify` | completeness of every gate and view; a statement accepted under every challenge has a witness |
| circuit and Poseidon2 (`core.py:102-200, 334-419`, `circuit.rs`, `poseidon2.rs`) | the state of a permutation, the running digest, a buffer of hash words | `perm_native`, `circuit`, `context_digest`, `num_muls` | the circuit computes what the native functions compute; products and words are counted right |
| threads and repetitions (`zkboo.rs:175-237, 331-369`) | chunks, result slots, flags | spawn, join | every repetition is proved and verified exactly once, for every number of threads |
| wire format (`core.py:630-711`, `zkboo.rs:371-503`) | a cursor on the input | `proof_to_bytes`, `proof_from_bytes` | round trip; one encoding per proof; bounded reads; both decoders accept the same strings |
| field arithmetic (`field.rs`) | none | `add`, `sub`, `reduce128`, `mul` | equals arithmetic modulo P in wrapping 64-bit words |
| context encoding (`protocol.py:58-119`, `main.rs:50-74`) | none | `ctx_domain`, `token_context_bytes` | injective |
| SHAKE, SHA3, AES-GCM, scrypt, ML-DSA; constant tables | none | | assumed ideal, or parameters |
| Rust Merkle tree (`poseidon2.rs:147-212`) | as `SparseMerkleTree` | used by self-tests only | |
| `demo.py`, `rust_interop.py`, `gen_constants.py`, `main.rs` self-tests, paper, animations | none | | scripts and documents |

**How they interact.** A wallet calls `ga.enroll` once per threshold and keeps the index it
gets back. The authority publishes a bundle (root, size, time, threshold, signature);
anybody may read it, any number of times and late. `published_tree` hands out the *live*
tree, so the root (from a bundle) and the path (from the tree) a wallet uses can be of
different ages. A bundle is verified under the key it carries, and no code compares that key
with a known one: wallets and sites take the bundles of any authority. A site answers a visitor with a nonce, the wallet answers with a token, the
site checks the token against the bundle *it* holds. Authority and site never talk.

**Concurrency.** The Python classes are called serially: no threads, no callbacks, no
awaits. What interleaves is whole calls of different actors, and the clock, which may also
move within `verify_token`: it reads the clock three times and verifies a proof in between.
The Rust prover and verifier are the only code with threads. The only persistence is the
wallet file.

**What is hard here** is listed under `hazards` in `PROJECT.json`: bundles and trees of
different ages, whole-second issue times, the pin written before a call fails, restarts from
an old wallet file, bundles of other authorities, proofs made without independent seeds, the deadline and the sweep of consumed nonces, redelivery, epoch
rollover, full trees, re-enrolment, byte cursors, flags without a chunk, wrap-around words,
a product count kept beside the circuit, and strings put together with separators.

## 2. Plan

| # | Module | Models | Composes | State |
|---|---|---|---|---|
| 1 | `GovernmentAuthority` (+ `Proofs`) | registry, accumulator, bundles | | checked, proved |
| 2 | `ContextEncoding`, `TokenProof` | the strings a proof is bound to; the ideal proof system | | proved (`WebsiteProofs`) |
| 3 | `Website` (+ `Proofs`) | nonces, accounts, bundle, clock | 2 | checked, proved |
| 4 | `CitizenWallet`, `WalletTwins` (+ `Proofs`) | pins, indices, file; noninterference of the warning | | checked, proved |
| 5 | `AgeVerification` (+ `Proofs`) | the whole protocol and its network | 1-4 | checked, proved |
| 6 | `SparseMerkleTree` (+ `Proofs`), `Accumulator`, `MerkleRefinement` | `set_leaf`, `path`, `circuit`'s fold, one loop iteration per step | refines `Accumulator` | checked, proved |
| 7 | `ZKBoo` (+ `Proofs`) | the three gate engines, the commitments, the replay, the three challenges | | checked, proved |
| 8 | `Repetitions` | threads over chunks of repetitions, `prove` and `verify` | | checked, proved (`ProofPipelineProofs`) |
| 9 | `WireFormat`, `ProofPipeline` (+ `Proofs`) | one encoder, two decoders as cursor machines; a proof from prover to verifier | 8, 9 | checked, proved; liveness checked |
| 10 | `RustField`, `Poseidon2`, `Circuit` (+ `CircuitProofs`) | word arithmetic, the native permutation, the circuit in both arithmetics | | checked, proved |

Abstract specifications: the accumulator, which the Merkle tree and every tree of the
authority implement; the authority, the sites and the wallets, each of which the protocol
implements; the calls of `prove` and `verify`, which the pipeline implements. All of these
are proved. What is left is listed in section 7.

## 3. Modules and the code

Every model has one action per method call that changes state; a call that raises or
returns `False` before it changed anything is a stutter and has no action of its own,
except where a refusal is interesting (`EnrollTreeFull`, `RejectSums`, `RejectOpening`).
Variables named *history* below exist only to state properties. Next to the operations each
module has a few *slips*: altered copies of an operation, as a plausible mistake would leave
it. Nothing uses them; each property was shown to fail when one of them takes the place of
the operation (`mutants` in `PROJECT.json`).

**`GovernmentAuthority`** — `registry`, `tree`, `nextIndex` are the fields of one instance
per threshold; `gaNow` is `time.time()` cut to the seconds of `issued_at`; `published`
holds every bundle ever signed. `Enroll` is `enroll` with `append` and `set_leaf` inside
(refused for minors and registered citizens, raised when full), `Revoke`,
`PublishRootBundle` the methods of those names, `Tick` the clock. A root *is* the assignment of
leaves to slots; that the code's root determines it is what `SparseMerkleTree` is for, and
that the authority moves its trees as an `Accumulator` may is `TreesAreAccumulators`.

**`ContextEncoding`** — no state. A string is a sequence of characters, a digit is its
number and a field of fixed width is one character. `CtxDomain` writes the threshold in
decimal behind a `#`, `ContextBytes` puts the fields behind each other with `|`, and
`CheckDomain`, `CheckCtxField` are the refusals of the two separators. Nothing here is
injective by construction; that it is so is `FieldsAreUnambiguous`.

**`TokenProof`** — no state. `Prove` and `Verify` are what `core.prove` and `core.verify`
promise to `protocol.py`: a proof is the record of its context, context bytes, key and folded
root, and it verifies exactly when the verifier's own values are those. The context bytes are
the exception: the verifier uses them to choose the challenges only, so they exclude other
bytes for a proof that is `bound`, made from independent seeds as `core.prove` draws them, and
nothing is said of them for one that is not (`paper/paper.tex:685-690`). `TempKey` and
`LeafHash` are ideal hashes.

**`Website`** — `bundle`, `nonces`, `accounts` per site, one clock `now`; history `minted`
(a nonce is its position there, so nonces are unique as `os.urandom(16)` makes them) and
`accepted`. `Bundles` are the bundles that `verify_root_bundle` lets pass, whoever signed
them; `Create` and `UpdateRoot` take any of them, with the rest of `_check_bundle`; `Challenge` with the sweep and the
fresh entry. `verify_token` is split at its three looks at the clock: `VerifyExpired` (past
the deadline, deletes the entry) or `VerifyInTime` (deadline and labels are fine), then
`VerifyEpoch`, then `VerifyAccept` (the proof verifies; nonce, then account) or
`VerifyReject`. `call` is the call in progress: between its steps the clock and the other
sites move, the site itself does nothing else. A call that ends before its second look
leaves the site alone and is a stutter.

**`CitizenWallet`** — `wallet` is the object in memory, `file` what `save` last wrote, in
its JSON shape (`KeyText`, `TextKey`: the index table has text keys in the file).
`MakeToken` writes the pin *before* the call may be declined, as `make_token` does, and
`Outcome` is the warning, the decline, the error of a malformed domain, or the token. `Load`
may follow any save, at any time: a restart. `NextIndices` says what any authority does: it
hands out slots in order. History: `calls` and, in the record, `past`, the calls this memory has
seen; `given`, the index each authority gave last, which no restart touches; `lost`, the
authorities whose last index a restart from an older file took from the memory, and `unsaved`,
those whose last index the file lacks.
**`WalletTwins`** runs two such wallets on the same requests (`AskBoth`, `SaveBoth`,
`LoadBoth`) with independent enrolments.

**`AgeVerification`** — INSTANCEs the three components over one set of variables and adds
the calls between them: `EnrollWith` is the authority's `Enroll` and the wallet's at once,
`MakeToken` takes the root from a bundle of any age and the path from the tree as it is or as it
was when the bundle was made (`TreesFor`), `SaveOrLoad` is the wallet's file and its restarts.
`CirculatingBundles` are what a wallet or a site may be shown: every bundle the authority
published, and `OtherBundles`, any bundles that somebody else signed with a key of their own.
`Deliverable` is the network: any token ever made, any number of times, to any site, with
its `domain`, `threshold` and `epoch` labels rewritten. `VerifyToken` begins a call of
`verify_token` and `VerifyGoesOn` takes it to its end. `OtherDomains` are names a wallet may
be told for a site, those with a separator in them included.

**`SparseMerkleTree`** — `zero`, `nodes`, `next_index` of the class; `pc`, `h`, `cur`, `idx`
say which call is in which iteration. `AppendLeaf`/`Revoke` start `set_leaf`, `Climb` is one
level of it; `StartPath`/`Walk` are `path`; `StartFold`/`FoldLevel` are the Merkle part of
`core.circuit`, which climbs from a leaf, right or wrong, along the path just read.
`Compress` is a parameter. **`Accumulator`** is the abstract specification;
**`MerkleRefinement`** maps the tree to it by opening the root: the hash is free there, a node
is the pair of its children, and `LeafBelow` goes down from a root to the leaf of a slot.

**`ZKBoo`** — one repetition over any straight-line circuit `Program`. `plain` is the native
engine, `wires` the three-party engine of the prover (`ProveLinear`, `ProveMul`), `pair` the
two-party engine of the verifier (`ReplayLinear`, `ReplayMul`); `i`, `vi`, `j` are the
cursors on tapes and committed products. `Send` commits; `StartReplay` is `verify_one_rep` up
to the circuit, `Judge` its checks after it. A dishonest prover is one that replaces a
product, an output share or an opening (`Says`, `RejectOpening`); `MaxLies` bounds how often
in a TLC run and in no proof. One set of first messages may meet each of the three challenges
once: a proof system is sound when no false statement survives all three.

**`Repetitions`** — the calls of `prove` and `verify` over `nreps` repetitions. `Forked` cuts
them into chunks, `ProveOne` and `CheckOne` are one job of one thread, `JoinProve` and
`JoinVerify` are the ends of the scopes; `slots` counts the writes to each result slot,
`oks` are the flags of the verifier's threads, all true beforehand and zipped with the
chunks, as in the code. `Sample` is one byte of the challenge block. The panics of the code
(a chunk size of zero, an empty slot) are the phase `panicked`.

**`WireFormat`** — `Encode` is `proof_to_bytes`: lengths, and one flag per opening; every other
byte is payload. `Header`, `ReadRep`, `ReadOpening`, `Finish` are the loops of the two
decoders, each a cursor `off` on the same `blob`; where the decoders differ, in the bounds
they test and in what a short slice does, there are two operators (`PyTruncated`,
`RsTruncated`, `PyReads`, `RsReads`).
**`ProofPipeline`** puts the two together: `Ship` encodes, `Exchange` may put another blob in
its place, both decoders `Read` it, and `Verify` or `Refuse` is the verification by one of the
implementations. `Given` and `Asked` say which openings carry the input shares of the third
party; `Lacking` are the repetitions where the verifier asks for what it was not given.

**`RustField`** — `add`, `sub`, `reduce128`, `mul` of `field.rs` on words of two halves below
`B`; `P` is `B*B - B + 1`, the Goldilocks prime for `B = 2^32`. **`Poseidon2`** — the native
functions of `core.py`, reduced with `% P` line by line. **`Circuit`** — `core.circuit` and
`circuit.rs`, one round of a permutation per step, run by two engines at once, one with
`% P` and one with `RustField`; `Draw` is one word of `context_digest` with its buffer, `muls`
counts the multiplications, which are the cursor of the tapes.

## 4. Runs

| Run | Checks | Instance, and why it is enough |
|---|---|---|
| `authority` | registry and tree agree; bundles are a history; no slot reuse; trees move as accumulators | 2 thresholds, 2 citizens, 2 leaves, `Capacity` 2 (so trees fill, and re-enrolment after revocation meets a full tree), 2 bundles, 2 seconds; symmetric. 36,834 states |
| `website` | a nonce is accepted once and in time; a token is accepted once by all sites; consumed = accepted; challenges stay answerable until their deadline; first-seen dates; complete sweep | 2 sites, `TTL` 1 and `EpochSeconds` 2 within `MaxTime` 4 (deadline and epoch boundary fall at different ticks, also within a call), 2 nonces, 3 bundles, two of one second; honest, repeated and relabelled tokens, and one proof without independent seeds, which verifies for any nonce. 1.97 million |
| `wallet` | one threshold per domain unless confirmed; warnings justified; index follows the authority | 1 wallet, 1 domain, 2 thresholds and the single set, 2 indices, 3 requests: two settle, a third sees what the second left; one of the thresholds is malformed for `ctx_domain`, so a call may raise after it wrote the pin. 9.96 million |
| `wallet_twins` | the warning reveals nothing about enrolment | 2 wallets, 2 domains, 2 joint requests. 8.38 million |
| `merkle_tree` | nodes hash their children; fold decides membership; fold is replacement; refines `Accumulator` | `Depth` 3: a level whose sibling is a leaf, one in the middle and one below the root; 2 leaves, every slot. 755,652 |
| `zkboo` | shares reconstruct; completeness; soundness under three challenges | `P` 3, every gate, 2 products (the second cursor position differs from the first), 2 tapes, 1 deviation. 427,776 |
| `protocol` | acceptance implies membership in the site's root, age if the root is the authority's, and a request by the holder; registered holders are served; roots of a site move forward | an adult of 20 and a 17-year-old, a tree for the age of 16 and a single set for the age of 18, one site for each under one domain, and wallets that may be told the domain is `shop#16`; a bundle of another authority that lists the 17-year-old in a single set, which the 17-year-old's wallet proves against with its index of the 16+ tree (section 8); the adult's wallet is saved and restarted at any time. 2 bundles and requests together, one nonce: the attempts vary over all deliveries and labels. `Capacity` 2 and at most two enrolments in the two trees together, so that one tree fills and a citizen enrols again after a revocation; 2 seconds, `TTL` 0, so the deadline passes. 1.42 million |
| `pipeline` | each repetition once; verdict unanimous; decoders agree and are exact; an honest proof arrives; every call returns | up to 4 repetitions and 4 threads: 3 threads on 4 repetitions leave a flag without a chunk, 4 on 3 more threads than work; fields of one byte and an optional block of two, so that every length around those of the encodings of up to 2 repetitions, with any byte at every place of a flag, is tried. 457,523 |
| `circuit` | both engines agree; the buffer is long enough; the circuit computes the native functions and its bit checks are zero on bits alone; products are counted | `B` 16, so `P` 241, a prime of the same shape; the real 4 + 22 + 4 rounds; paths of one to three levels, bits that are 2, 17, 100 or -1 among them; up to 18 words drawn, ten more than the buffer holds at first. 121,912 |
| `wallet_restart`, `wallet_fallback`, `rollback` | see section 8 | violations |

`CHECK_DEADLOCK FALSE` where the instance runs out of clock, nonces, requests or verdicts
(`website`, `protocol`, `rollback`, `zkboo`, `pipeline`, `circuit`): a finished run is no
deadlock of the code. That no call hangs is `EveryCallReturns` of `pipeline`; the classes of
the protocol never wait for each other. The other runs check for deadlock.

The type invariants of the wallets, the tree, the repetitions, the circuit and the protocol
are proved and have no run of their own.

## 5. Fairness

`ProofPipeline` is the only fair specification. A thread of a scope that can take its next
job does (weak fairness per thread, for `ProveOne` and `CheckOne`): the code's threads take no
locks and the operating system runs them. A sequential caller goes on: `JoinProve`,
`JoinVerify`, `Sample`, `Ship`, each decoder's `Read`, and the call of the verifier on what
was decoded. That `Sample` is fair over the bytes 0 to 254 says that SHAKE256 does not
return 255 for ever, which is all the loop of the challenges relies on. There is no fairness
for beginning a call of `prove` or for exchanging a blob. `EveryCallReturns` then says that a
`prove` that was begun ends in an answer of `verify`, whatever the threads do and whatever
blob arrives.

For the protocol no fairness is assumed and no liveness is claimed. Its classes are called,
they do not schedule: nothing in the code makes a holder ask, a site challenge, or an
authority publish, and a fairness condition on these would be invented.

## 6. Proofs

All theorems hold for every value of the constants under the `ASSUME`s of the modules;
the TLC bounds (`MaxTime`, `MaxCalls`, ...) are guards and the proofs do not depend on
their size. Each proof is an inductive invariant `Inv`, one lemma per action, and the
temporal step.

- `GovernmentAuthorityProofs`: the invariant adds to the properties that the *live* tree
  extends every bundle published of it (`LiveExtendsPublished`), and per instance that
  registered slots are distinct, live and below `nextIndex`. Publishing then makes a history
  out of live-extends-published and transitivity. `NoSlotReuse` and `TreesAreAccumulators`
  are read off the actions under that invariant.
- `WebsiteProofs`: first the strings: a domain holds no `#`, so where the threshold begins
  is determined, and a threshold is determined by its digits (`FieldsAreUnambiguous`, the
  claim of the comment at `protocol.py:90`). The nonce is the last character of a bound
  string (`LastField`); an accepted token is bound to the nonce it was accepted for, which
  with `NonceAcceptedOnce` gives `OneVisitor`. Table entries are challenges of that site
  with their time, and a nonce has an entry nowhere else. `NonceAcceptedOnce` needs
  `ConsumedMeansAccepted` *and* `AcceptedInTime`: an accepted nonce is consumed or swept,
  and what was swept cannot be open again. `SweepIsComplete` follows
  from the actions. `Answerable` says the same of the live entries:
  an entry whose deadline has not passed is in the table of the site that issued it, and by
  `ConsumedMeansAccepted` it is open unless it was accepted.
- `CitizenWalletProofs`: the pin of a domain is the threshold of the last settling call in
  this memory; the same is said of what `Loaded(file)` would be, which `RoundTrip` (load
  after save gives the wallet back) carries over a save. The memory knows every index `given`
  but those in `lost`, and what would be loaded knows all but those in `unsaved`
  (`KnowsIndices`): a save makes the second set what the first is, a restart the first what the
  second is. The twins add that pins are equal in memory and in the files.
- `SparseMerkleTreeProofs`: during `set_leaf` the only node that may disagree with its
  children is the parent of the one written last; the path read so far holds the siblings of
  the ancestors; the running fold is the node of its level if the leaf is right and differs
  from it if the leaf is wrong. `Width` is defined by its recurrence (`WidthAssumption`), so no
  power of two is computed. `MembershipDecided` has `CollisionFree` (the hash is injective)
  as its hypothesis; `HonestFold` and `TreeIsHashed` hold for every hash.
  `TreeImplementsTheAccumulator` and `FoldReplacesOneLeaf` open a root, with a free hash
  (`FreeHash`) as their hypothesis; the first also needs that the empty leaf is nobody's
  commitment. If every node of a table hashes its two children, going down from its root
  ends at its leaves (`Opens`). The tree is such a table whenever no call runs; while
  `set_leaf` climbs, the root still commits to the leaves from before (`Pending`), and with
  the last `Climb` it commits to the new leaf as well: that step is the `Append` or `Revoke`
  of the accumulator and all others are stutters. For the fold, the digests it has met
  (`TrailOK`) are written over the ancestors of the slot; what results is again a table, the one with one leaf replaced.
- `ZKBooProofs`: each list of wires is, gate by gate, what its engine makes of earlier wires
  and of the committed products. If the products are followed by all three parties, the
  shares add up (`Reconstruct`, from the cancellation of masks). A replay that passes the
  checks has the prover's own shares at `e` and `f` and has followed every product of `e`; so
  three acceptances mean every party followed every gate, and the opened outputs add up to
  the circuit's (`Sound`). For every modulus above 1, every circuit, tape and prover.
- `AgeVerificationProofs`: the composition. The protocol implements `GovernmentAuthority`
  step by step (`AuthorityRefined`), so the authority's invariant holds in it. On top of it
  come four parts: everyone in a tree, and so in a published root, qualifies for its
  threshold (`TreesQualify`, `BundlesQualify`); the wallet knows the slot the registry knows
  and all that was given and not lost, in memory and in its file (`HoldersAreServed`,
  `WalletsOK`); a site holds only circulating bundles of its own threshold; and
  whatever is in the network, in a call or accepted carries a proof that some recorded
  request made, with the leaf of its holder in the root it proves (`TokensAreGenuine`,
  `CallsAreGenuine`, `AcceptedAreGenuine`). Relabelling changes labels and no proof, so these
  survive the network; a verified proof is bound to the site's own field, which
  `FieldsAreUnambiguous` takes back to its domain and threshold. That gives
  `OnlyQualifiedHolders`, which promises age where the root is the authority's, and
  `OnlyRequestedTokens`. `RegisteredHoldersProve` takes the registered slot to the wallet's
  index (`HoldersAreServed`, `WalletsOK`), from there to the token of a confirmed request, and
  from the token to its verification, which fails only if the root is not the tree's
  (`AnswerVerifies`): a holder is turned away only with an index in `lost` or by a site with
  another root. `RootsMoveForward` needs no assumption on how often a tree is published:
  bundles of the authority are ordered by date but for those of one second, which is the
  exception the property makes. With the types of tokens added (`TypedInv`) the
  protocol implements `Website`, and by `WalletsRefined` also `CitizenWallet`, where an index
  given must be above those given before. What was proved of authority and sites alone holds
  in the composition (`PartsKeepTheirPromises`).
- `ProofPipelineProofs`: the chunks of any number of threads partition the repetitions, and no
  chunk is without a flag (`ceil(n / ceil(n / t)) <= min(t, n)`, which needs
  nonlinear arithmetic). The invariant says that the slots below the cursor of a
  chunk were written once and the others not, that the jobs below a cursor of the verifier
  verified, and that a flag that is down has its cursor at a refused job.
  `PipelineImplements`: the pipeline takes no other steps. The decoders: `Wire` says of each
  that the repetitions read so far, encoded again, take exactly the bytes up to the cursor
  with the flags found there. Two decoders that accept one blob read the same flags in the
  same order, so the same proof (`DecodersAlwaysAgree`), and at the end no byte is left
  (`DecodingIsAlwaysExact`), for every length of the fields and of the blob. `Judging`
  follows a blob that nobody exchanged: it is what `Encode` made, the decoder stops nowhere
  before its end, every opening that is asked for was given, and the repetitions refused are
  the spoiled ones. `EveryArrivingProofIsJudged` has `MaxReps <= MaxDeclared` as its
  hypothesis: the prover may make no more repetitions than a header may declare.
- `CircuitProofs`: `ReduceIsModulo` shows that the folded sum of `reduce128` is congruent to
  the product and less than `3 * P`, for every `B` of at least 2 and with no bound on the
  width, so `EnginesAlwaysAgree` and every element is canonical. `BufferAlwaysLongEnough`
  keeps the read position below the length over an extension and over a word that is not.
  `EveryProductIsCounted` counts the products of the rounds done (`DoneIn`: 32 in a full round,
  4 in a partial one, 344 in a permutation) and five per level, for every depth, with the
  rounds of the code.
  `CircuitAlwaysTheStatement` compares the circuit with the native functions, which are
  recursive functions over rounds and over levels. Reducing early or late gives the same
  residue (`Residues`), so a round of the circuit is a round of `perm_native` (`FullIsNative`,
  `PartialIsNative`). The invariant `Stated` keeps the sequence of states so far; a sequence
  that follows the recurrence from its start is the recursive function (`PermIs`, `RootIs`).
  A bit orders the two children as the native climb does (`BitChooses`), and a bit check is
  zero on bits alone because a field of prime order has no zero divisors (`Euclid`): `Prime`
  is the hypothesis of this theorem and of no other.

Recursive functions. The induction theorems of the library cannot be instantiated by the
provers, so that a function is determined by its recurrence is shown otherwise: the set of
numbers at which two functions differ has a least element (`Least`, from the well-foundedness
of the naturals), and there the recurrence is contradicted. This serves the tree, where one
goes down a root level by level, and the rounds and levels of the circuit.

## 7. What is only model-checked, or not at all

Only model-checked: `EveryCallReturns`, which is liveness under fairness. Every other property
of the passing runs is stated by a theorem.

The theorems about the circuit are about its model at the level of field elements; that the
2^64 - 2^32 + 1 of the code is prime is the hypothesis `Prime` and not proved; the 241 of the run
is a prime. That SHA3 or Poseidon2 behave as a free or an injective hash cannot be
proved of any function with digests of a fixed length; it is the usual ideal.

Not modelled:

- the primitives: SHAKE, SHA3, AES-GCM, scrypt and ML-DSA are ideal, and the constant tables
  of Poseidon2 are parameters;
- the derivation of challenges and tapes (`_challenges`' transcript, `expand_tape`'s rejection
  loop): a challenge is any of the three, a tape any list of elements. The skipped byte of
  the challenge block is in `Repetitions`;
- a commitment that is no digest: `enroll` does not check it, and `set_leaf` would raise after
  `append` had moved `next_index` and stored the leaf, so a slot would be spent on nobody. The
  leaves of the model are those a wallet computes;
- a crash within `save`, which empties the file before it writes it: the file is written as a
  whole, and what is left of a torn one is no wallet and no `load` accepts it;
- a wallet that enrols with several authorities of one threshold: its index table has room for
  one index per threshold. `OtherBundles` are signed by others, their trees are not modelled;
- proofs made without independent seeds in the composition: its wallets are the code's. They
  are delivered in `website`;
- the change of an epoch in the composition: the run `protocol` stays in epoch 0 and tries the
  labels of epoch 1. `website` has the boundary, also within a call, and the theorems have any
  number of epochs;
- `nreps = 0`, for which `prove` panics in Rust or never returns, and which both decoders and
  `core.verify` refuse; nobody asks for it;
- one wallet enrolled for two citizens: the composition gives each holder a wallet;
- the Rust Merkle tree, the same algorithm as the Python one, used by self-tests only;
- scripts, tests and documents, which keep no state of the protocol.

## 8. Findings

- **`wallet_restart`**: the pin written by `make_token` lives in memory until somebody calls
  `save`, and nothing does. After a `load` of an earlier file the domain is proved another
  threshold with no warning; the paper promises a persistent store.
- **`wallet_fallback`**: a bundle without a threshold uses `leaf_index`, which the first
  *threshold* enrolment sets, so a wallet that was never enrolled in the single-set tree
  builds a proof that cannot verify instead of raising `NotEnrolledError`.
- **`rollback`**: `update_root` compares whole seconds, strictly, so of two bundles of one
  second the older may replace the newer. `protocol` shows, and `RootsMoveForward` proves, that
  this is the only way back.

Notes without a run:

- `make_token` never looks whether its leaf is in the bundle's root, so a token made with a
  stale bundle or tree is sent and fails at the site; the pin is set nonetheless.
- Neither `Website` nor `CitizenWallet` is told the key of an authority. `paper/paper.tex:958`
  says that "a site embeds the bundle-verification key"; the code verifies a bundle under the key in it.
  What the properties promise of age and of order is therefore about bundles of this authority.
- Nothing saves a wallet after `enroll_with`. A holder who restarts from an older file is
  declined by the wallet and refused by `enroll`, until the authority revokes them. This is one
  of the two exceptions in `EnrolledHolderIsServed`.

## 9. Assumptions

- Hashes have no collisions, signatures are not forged (but anybody may sign with a key of their
  own), proofs verify only when the statement is the verifier's (`TokenProof`); for the last, `ZKBoo` supplies the argument of one
  repetition and `Repetitions` that all of them are judged.
- A free hash (`FreeHash`) for `TreeImplementsTheAccumulator` and `FoldReplacesOneLeaf`, an
  injective one (`CollisionFree`) for `MembershipDecided`; a prime modulus (`Prime`) for
  `CircuitAlwaysTheStatement`; `MaxReps <= MaxDeclared` for `EveryArrivingProofIsJudged`. No other
  theorem about the model uses these.
- The calls of one site, one wallet and one authority come one after another, as the code
  is written; the clock may move within `verify_token`.
- Clocks do not step back, and the sites share one.
- Each holder has one wallet, hence one secret, and enrols only it, with this authority.
- `TokenAcceptedOnce` and `OneVisitor` are about proofs whose seeds were drawn independently, as
  `core.prove` draws them. `paper/paper.tex:685-690` says of other proofs that they may verify
  under several challenges, and nothing is claimed of these beyond `NonceAcceptedOnce`.
- A nonce is never drawn twice; a nonce or a secret is not guessed.
- A threshold is a number below 65,536, as `ctx_domain` requires.
