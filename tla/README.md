# A TLA+ verification of the Attested Read Envelope reference implementation

An *attested read envelope* carries answers to reads of the Ethereum state (a balance, a nonce, code, a
storage slot) together with the material that proves them: Merkle-Patricia proofs against a state root, an SSZ
branch from that root's execution header to a beacon block, a sync-committee signature, and, for a finalized
read, two more branches. `src/reference/` holds a verifier (`are_verify.py`), the libraries under it, and
generators that package envelopes. The modules here model that code, TLC checks them on small instances, and
TLAPS proves the central properties for every value of the constants.

## The system

### Parts, state and operations

| Part | Source (`src/reference/`) | State | Operations |
|---|---|---|---|
| Verifier | `are_verify.py` | the `VerifierConfig` of a client: trusted committees, head slot, staleness bound, dispute mode, and `monotonic_max_seen_slot`, the only field that `verify` writes; the arguments of the running call | `verify`, ten steps in order; `anchor_hash_tree_root`, `envelope_signing_root`, `compute_domain`, `compute_signing_root` |
| Constants | `are_constants.py` | three module globals, switched by `select_preset` | slot, epoch and period arithmetic; fork schedule; generalized indices |
| Merkle branches | `are_ssz.py` | locals of a loop | `verify_merkle_branch`, `build_merkle_branch` |
| Merkleization | `are_ssz.py` | locals of a loop | `merkleize`, `mix_in_length`, `bytelist_root`, container roots |
| Trie proofs | `are_mpt.py` | `nodes_by_hash`, position, expected hash | `_walk`, `_next_ref`, `verify_{account,storage}_{inclusion,exclusion}` |
| Synthetic tries | `are_mpt.py` | none | `build_two_account_trie`, `build_two_storage_trie` |
| Packagers | `are_generate.py`, `are_extra_vectors.py`, `are_real_vectors.py` | none that survives | building anchors, envelopes, reads, provider signatures |
| Signatures | `are_bls.py`, `are_sig.py` | none | `fast_aggregate_verify`, `verify_provider_sig` |
| RLP | `are_mpt.py` | none | `rlp_encode`, `rlp_decode`, hex-prefix paths, trimmed integers, `decode_account` |
| Codec | `are_codec.py` | none | `*_to_json`, `*_from_json` |
| Runner | `run_vectors.py` | the directory of vector files, its counters | `run_one`, the loop over the files, the exit status |
| Benchmark | `benchmark.py` | none | timing |

A packager builds the branches and the anchor, hashes the anchor into `anchor_ref`, and may sign the envelope.
A client calls `verify(envelope, anchor, cfg)`. The verifier calls the Merkle branch check up to four times
(execution header, checkpoint, near or deep ancestor), the trie walk once or twice per read, and the signature
checks. Whatever happens, `cfg` is used again for the next call. The three generators call packager and verifier
for ten vectors, assert the verdicts and write JSON files; the runner reads the files, one preset after the
other in one process, and verifies them under a configuration that it rebuilds from each file.

### What is hard

Each program has one thread, and the verifier persists nothing; what survives a process is the directory of
vectors. The difficulties are these:

* *Chains of checks.* Each step relates two fields; the promise ("this value is the state of a valid signed
  block") follows only from all of them together, and a gap between two steps passes every test of one step.
* *State across calls.* The floor moves in step 6, although steps 7 to 10 may still reject or raise.
* *Boundaries.* Fork and committee-period boundaries and skipped slots (the domain is that of
  `signature_slot - 1`, the committee that of `signature_slot`); the quorum at exactly half; the distance 8192
  between two ways to prove an ancestor; the wrap-around of a ring of block roots.
* *Absence.* An exclusion proof and a truncated inclusion proof look alike.
* *Two sides.* Packager and verifier must walk the same path in the same order, build the same roots, and use
  the same fork and gindex.
* *Failures.* Exceptions leave the verifier where the code expects a verdict. A generator that is killed leaves
  a torn file, because `open(path, "w")` empties the file before `json.dump` fills it.
* *Shared globals.* `select_preset` changes what the next `verify` computes; the runner switches it per file.
* *Encodings.* Lengths at which an RLP prefix changes, odd and even paths, numbers of whole bytes, bits in
  bytes, and what a root leaves out of the object that it stands for.

`PROJECT.json` lists every hazard with its line and the properties that cover it.

### What makes each part correct

* Verifier: what is accepted is true of a valid block (`AcceptSound`); a FINALIZED answer comes from no
  later than the checkpoint (`FinalizedSound`); the floor stays on the chain (`FloorOnChain`); an honest
  package is accepted, whatever its size if it is unsigned (`HonestServed`); a relied-upon provider signature covers everything (`DisputeSigned`);
  a call returns (`CallsReturn`). All of it as one promise: it implements `ReadOracle` (`ImplementsOracle`).
* Constants: the gindex of step 7 holds the ancestor's root at every distance (`AncestorsReachable`).
* Merkle branches: soundness, exactness, the round trip with the builder, termination.
* Merkleization: the reduction is the root of the padded tree (`RootExact`, `LevelExact`), byte strings are
  told apart (`BytesBound`), and the root of a container identifies exactly the fields that it should
  (`RootIdentifies`); the bits of a committee come back from their bytes (`BitsRoundTrip`).
* Trie proofs: value and absence are reported only if they are true (`WalkSound`, `AnswerSound`), and exactly
  when the proof has the nodes of the path (`WalkExact`); the generator's tries serve the vectors
  (`GeneratedProofServes`).
* RLP: what is encoded comes back (`ItemRoundTrip`, `NodeRoundTrip`, `AccountRoundTrip`, `StorageRoundTrip`), no
  byte is lost on the way (`NothingLost`), every decoding ends (`Ends`).
* Vectors: each gets its verdict from the generator's objects (`GeneratorsAgree`) and from the file alone
  (`RunnerAgrees`); damage is noticed (`ExitStatus`) and repaired by running the generator (`RerunRestores`).

## Modules

```
Powers ── AREConstants ── AREVerify ── Packager ── HonestPackages ──┐
  │            │           │  ├── AREClaims ────────────────────────┴── MCAREVerify       (TLC)
  │            │           │  └── AREVerifyProofs, which also extends HonestPackages      (TLAPS)
  │            │           └───── ReadOracle        (abstract; refined by AREVerify)
  │            ├── BeaconHistory ── MCBeaconHistory (TLC), BeaconHistoryProofs (TLAPS)
  │            └── with Codec: VectorFixtures (INSTANCE Packager) ── VectorSuite
  │                            ── MCVectorSuite (TLC), VectorSuiteProofs (TLAPS)
  ├── MerkleBranch ── MCMerkleBranch (TLC), MerkleBranchProofs (TLAPS)
  ├── Merkleize ── Containers ── MCMerkleize (TLC), MerkleizeProofs (TLAPS, of both)
  ├── with HexPrefix: Rlp ── MCRlp (TLC), RlpProofs (TLAPS, of both)
  └── PowersProofs, which the proofs of BeaconHistory, MerkleBranch, Merkleize, Rlp and VectorSuite extend
MptWalk ── MptBuild ── MCMptWalk (TLC), MptWalkProofs (TLAPS)
```

**AREVerify** is `verify` as a process: `pc` names the step about to run, `Step1` to `Step10` are the ten
steps with their early returns and exceptions (`Reject`, `Raise`), and step 8 takes one read per transition.
`Call` starts the next call with any input, `AdvanceHead` moves the client's head between calls.
`monotonic_max_seen_slot` is `cfg.monotonic_max_seen_slot`. Three abstractions carry the model:

* a root is what it was computed from (hashes are free constructors), and the operators `LeafAt` and `TrieAt`
  say what a root commits to;
* a Merkle branch is named by the root and gindex whose path it follows, plus what comes after the path; a
  trie proof is named by the lookups for which it holds all nodes. `MerkleBranch` and `MptWalk` are the
  justification: they show that a branch or proof of any other content is refused;
* `Signed` is the set of all pairs of key and signing root ever signed; a signature verifies exactly if every
  participating key has signed. An aggregate is the record of who signed what.

A `declared_state_root` of `NONE` is an absent field. Fields of fixed size are taken to have it and numbers to fit
their width (the code asserts this while hashing), and `provider_key_hint` is compared as a value. What is too
long to be hashed is a set of its own: `LongValues`, `LongProofs`, `LongHints` and `LongExtraData` hold the byte
strings and lists above the limits of the code (128 bytes, 64 nodes, 256 bytes, 32 bytes), on which
`envelope_root_raises` and `anchor_root_raises` depend.

Free constructors leave out one coincidence of the hashes: `_bitvector_root` mixes in no length
(`are_verify.py:104-117`), so that 256 bits whose bytes are the digest over the two chunks of 512 bits have the same
root as these. Nothing compares the number of bits with the preset; but two such anchors differ in what steps 3
and 4 count and check, and those steps look at the anchor submitted.

**Packager** translates the generators: it builds the anchors, envelopes, reads and signatures that the
instances submit, so that packager and verifier meet in one model. **HonestPackages** says which submissions are
honest (`HonestPackage`), in terms of those operators alone: an anchor packaged from a header that more than half
of a committee signed, an envelope of true reads whose proofs hold the nodes on their paths, unsigned or, if it can
be hashed, signed with the key that the client holds (`provider_sign` raises on the same envelopes as step 10).
`HonestServed` is about `HonestInputs`, all of which are such packages
(`HonestPackager`, evaluated on the instance). **AREClaims** holds sentences of the specification that the code
does not keep.

**ReadOracle** is what the verifier promises, with no word of anchors, branches, tries or signatures: asked about
an envelope, it observes a valid block that is fresh and no older than the last one, and believes the
envelope only if it is true of that block (OPTIMISTIC_HEAD) or of a block no newer than the checkpoint of that
block's state (FINALIZED). `AREVerify` instantiates it (`Oracle`): the phase is a function of `pc`, "observed"
from step 7 on; the floor is `monotonic_max_seen_slot`; `believed` is an ACCEPT. Steps 1 to 5 stutter, step 6 is
`Observe`, the last step is `Believe`, every rejection and exception is `Refuse`. The refinement adds to the
invariants that the floor moves only by observing a fresh block of the chain and never back, in no other step,
and that a belief is about the block the floor names. An envelope with an undefined `finality_status` makes
neither claim, and the oracle promises nothing about it: that gap is the finding of the run `accepted_is_true`.

**Powers** has the powers of two as a recursive function and the depth of a generalized index.
**AREConstants** has the functions of `are_constants.py` under their own names, with sizes (32, 256, 8192,
2^24, the schedule) as constants. `ShiftOr` is Python's `(g << depth) | index`, overflow of the index into the
prefix included. `PRESET` is fixed per instance.

**BeaconHistory** lets a chain grow, with skipped slots, and keeps the two accumulators of block roots that
step 7 relies on. The state transition is that of the consensus layer, external to the repository; the shape
of the state is the reduced one which `are_constants.py:84-125` documents, and the summaries start at slot 0,
as `summary_index = read_slot // 8192` assumes. `BlockRootAt` reads a gindex as
the turns of its path (`Turns`) and follows them through that state.

**MerkleBranch** has the loops of `verify_merkle_branch` and `build_merkle_branch`, one turn per step, over a
tree in heap order; **Merkleize** the loop of `merkleize` one level per step, as called directly and through
`bytelist_root`. **Containers** calls that loop with the chunks of a container: both headers, the anchor, the
read proof, the envelope without its signature, the signing root; the roots of nested fields are the function
`PaddedRoot` which `RootExact` shows the loop to compute. Bytes are numbers 0 to 255, chunks have 32 of them,
digests are free terms. **MptWalk** is `_walk` on decoded nodes, one node per step, then the API function's answer;
`Content`, constrained by `TrieAssumption`, says what each subtrie holds, and `Needed` which nodes the path of a
key fetches, as a recursive function over the trie (`Below`) that does not look at the proof. **MptBuild** has the
builders of two-leaf tries and the two proofs they return; `Builds` are their calls, and the tries they make are
part of `Trie`. Bytes that do not decode are the kinds `malformed` (a `ValueError`) and `undecodable` (another
exception), and the values in `Undecodable`.

**HexPrefix** packs the path of a leaf or extension and reads it back. **Rlp** is the byte level under the walk.
`rlp_encode` is the recursive function `Encoding`, which maps each depth to the encoding of the items that nest
no deeper. `rlp_decode` and its recursion are a machine with a stack: one frame for the caller and one per open
list; the callers (`_walk` reading a node's path, `decode_account`, `verify_storage_inclusion`) use the item,
with Python's exceptions where an item has another shape. A walk then re-encodes an inlined child (`NextRef`) and
decodes that.

**Codec** writes and reads the JSON of a vector, field by field with the kind of JSON value that each becomes.
**VectorFixtures** holds the ten vectors with the slots, gindices, committee sizes and draws of the code, built
by the operators of `Packager`, and the trusted configurations that a generator and the runner make.
A root that the code reduces from a leaf and random siblings is the record of that leaf and gindex.
**VectorSuite** runs it all: a shell starts a generator or the runner, each a process with module globals of its
own, which calls the verifier (`INSTANCE Packager` under the preset and configuration of the moment) once per
vector. A generator asserts the verdict, truncates the file and then completes it; the runner loads what is
there, ends with an exception on a torn file, counts and exits. `Kill` ends a process at any step. A file is
absent, torn (anything a JSON parser refuses) or complete: generators are deterministic, so a complete file has
one content.

Operators whose comment begins with "Mutant of" are wrong variants of the definition they precede. No
specification uses them; each shows that a property of a run notices that mistake.

## Runs

| Run | Configuration | Instance | Shows |
|---|---|---|---|
| `verify` | `MCAREVerify.cfg` | below | `AcceptSound`, `FinalizedSound`, `FloorOnChain`, `HonestServed`, `CallsReturn`, `ImplementsOracle` |
| `verify_dispute` | `MCAREVerifyDispute.cfg` | the same, `DisputeMode` | `DisputeSigned` |
| `merkle_branch` | `MCMerkleBranch.cfg` | tree of depth 2, every branch of at most 3 digests, every gindex and leaf | soundness, exactness, round trip, termination |
| `merkleize` | `MCMerkleize.cfg` | up to 5 chunks of 3 kinds; byte strings around 1, 2 and 3 chunks; of each container one object and those that differ in a field | padding at every depth, lengths, what a root identifies, termination |
| `mpt_walk` | `MCMptWalk.cfg` | 11 nodes of all kinds and reference types, every key of 3 nibbles, 128 proofs, 3 roots; tries of two keys built by the generator | `WalkSound`, `AnswerSound`, `WalkExact`, `GeneratedProofServes`, termination |
| `beacon_history` | `MCBeaconHistory.cfg` | windows of 4 slots, 11 slots, every pattern of skipped slots | `AncestorsReachable` |
| `rlp` | `MCRlp.cfg` | strings and nested lists around the lengths 55 and 255, paths up to 4 nibbles, every input of up to 3 of 17 bytes | the round trips, `NothingLost`, `Ends` |
| `vector_suite` | `MCVectorSuite.cfg` | the ten vectors at their real slots and sizes, every order of commands, one kill | `GeneratorsAgree`, `RunnerAgrees`, `RerunRestores`, `ExitStatus` |

Runs that end in a counterexample, each for a sentence that the code does not keep; `PROJECT.json` ("findings")
quotes the sentence and the line:

| Run | Configuration | Counterexample |
|---|---|---|
| `accepted_is_true` | `MCAcceptedIsTrue.cfg` | an undefined `finality_status` passes between step 5 and step 7 |
| `two_thirds_quorum` | `MCTwoThirdsQuorum.cfg` | five of eight seats suffice, where the specification asks for two thirds |
| `verdict_returned` | `MCVerdictReturned.cfg` | a call ends with an exception instead of a verdict |
| `merkle_branch_length` | `MCMerkleBranchLength.cfg` | a branch longer than its path is accepted |

Other sentences that the code does not keep, and that the models reproduce without a run of their own:

* `specs/ARE/README.md:511-512` asks to reject an OPTIMISTIC_HEAD envelope as dispute evidence; `dispute_mode`
  is read by step 10 only (`are_verify.py:344`).
* `:246` says "1..MAX_READS reads"; no step looks at the number, only the hashing of a signed envelope does.
* `:255` gives a read's value no limit, `:313` makes that of a code read "the raw bytecode bytes", and `:335` says
  that the packager may sign the envelope. `are_verify.py:133` hashes the value as a byte list of 128: an honest
  code read of a larger contract is served unsigned, cannot be signed, and raises in step 10 if it names an
  algorithm, although "in plain correctness mode an absent/uncheckable signature is acceptable" (`:482-483`).
  `MCAREVerify` submits it in both forms (`LongInputs`, `SignedLongInputs`).
* `:311-312` say "no leading zero bytes"; `be_to_int` ignores them.
* `:269-271` call `hash_tree_root(ConsensusAnchor)` byte-canonical; the branches are hashed without their length
  (`are_verify.py:71-94`), so that lists which differ in trailing zero chunks have one root (`list_root`).
  `RootIdentifies` says exactly that: two anchors with one root agree up to zero digests at the end of a list,
  and up to absent members at the end of the bits that do not change the height of their tree.
* `are_verify.py:72` calls the anchor a "12-field container"; it hashes 11 (`anchor_chunks`).
* `are_mpt.py:235` says "None if absent / proof invalid"; a value or node that does not decode leaves the API
  functions as an exception (`Answer`, `WalkUndecodable`).

### Bounds, and why they are enough

*MCAREVerify.* Canonical blocks at slots 0 to 5 and 7; slot 6 is skipped, but has a block that half of a
committee signed. Two slots per epoch, two epochs per period and two slots per history window, so that between
slots 2 and 7 the chain crosses a fork (Electra at epoch 2, which also changes the finality gindex), a period
and several windows; read blocks lie at every distance from the checkpoint: the checkpoint itself, near, at
the boundary, deep. The committees have eight seats: five are a quorum, four are exactly half and are fewer
than two thirds of the size. Inputs are every honest package of these kinds, every read kind with presence and
absence, each unsigned and, if it can be hashed, signed; bytecode, proofs and a hint that are too long to be
hashed, unsigned and with a made-up signature; and packages that differ from an honest one in one field of the envelope, the anchor, a read or a
proof. Calls follow each other without limit: the state between calls is only the floor and the head, and the
head takes the two values of `Heads` (at the second, the older packages have become stale).

*MCMptWalk.* The trie has branches with and without a value, extensions, leaves at several depths, inlined
nodes, an empty subtrie, a short reference, a malformed and an undecodable node, and a value that does not
decode. Every subset of the well-formed nodes that are referenced by hash is a proof; four nibbles instead of
sixteen, three per key instead of 64: the walk treats all nibbles and all depths alike.

*MCMerkleBranch* has one level above the leaf level with a left and a right turn each way; a branch that is
too short, exact and too long all occur for every gindex. *MCMerkleize* goes past two powers of two, so that
padding starts at every level; chunks have their 32 bytes, and committees of 12, 16, 32 and 512 bits fill part
of a byte, part of a chunk and two chunks. Numbers have at most three bytes (`NUMBER_BYTES`) instead of 8 or 32, as
TLC's integers do; the bytes after them are zero either way. *MCBeaconHistory* wraps the ring twice and completes two summaries; with
`MAX_SLOT` (a bound of the model) every ancestor at distances 1 to 11 occurs. TLC cannot evaluate 2^k beyond
31 bits, which `BitWidth` (24, for `BitOr`) and `MAX_BITS` (30, in Rlp) respect. `MAX_BITS` bounds the numbers that
Rlp measures in bits, where Python's integers have no bound; `MAX_NESTING` (8) bounds lists within lists, where
Python has its recursion limit.

*MCRlp* has strings of 54 to 57 and 252 to 257 bytes, alone and as the payload of lists, so that both prefix
changes occur for both kinds; the arbitrary inputs combine the bytes at every boundary of the case distinction,
with lengths that claim more than there is. Lengths of three and more bytes do not occur (a node has at most 17
items of 33 bytes).

*MCVectorSuite* uses the real slots, schedule and committee sizes; only the list of historical summaries has 11
levels instead of 24, enough for the summary index 1037 of the deep ancestor. `MAX_KILLS` is 1: a kill affects
the one file that is being written, and what a second one leaves is again a directory of the same kind.

### Fairness and termination

`CallsReturn` assumes weak fairness of `VerifyStep` only: once called, `verify` runs in the caller's thread
without waiting for anything. Nothing makes a client call, so `Call` and `AdvanceHead` are unfair. The loops of
the other modules, the decoder of Rlp among them, are calls too, and assume weak fairness of their `Next`.
`VectorSuite` assumes none: nobody has to start a command, and a command may be killed; its properties are
safety properties, `ExitStatus` one of the steps in which the runner ends. `CHECK_DEADLOCK FALSE` appears where
a model is one call, whose last state has no successor, or a chain that reaches `MAX_SLOT`.

## Proofs

All proofs are for every value of the constants, under these named assumptions, which TLC evaluates on the
instances:

* `HonestMajority`: no quorum of seats has signed a header outside `Chain`. `Chain` is to be read as the valid
  blocks that a committee may sign: it need not be linear, and an optimistic head in it may be orphaned later
  (`specs/ARE/README.md:587-594`, `:658-660`). The properties promise the truth of such a block; that it is on the
  canonical chain follows only for FINALIZED, and only if finalized checkpoints are;
* `ChainAssumption`: the states of `Chain` commit to blocks of `Chain`, the checkpoint no later than the state, the
  history entries strictly earlier;
* `HonestPackager`: what is called honest was packaged by the operators of Packager from true facts, from
  payloads within the 32 bytes of `extra_data` that the consensus layer allows (used by `HonestPackagesServed` alone);
* `TreeAssumption` (a node is the hash of its children), `TrieAssumption` (what a trie means), `NodeAssumption`
  (an inlined node is itself a list, so not the empty trie), and collision freedom through the free constructors;
* `DepthAssumption`: nobody asks for a tree higher than the precomputed zero subtrees;
* `ObjectsAssumption`: the fields of an object hold what the hashing functions accept, numbers and addresses fit
  a chunk;
* `BuildsAssumption`: the builder's keys differ in their first nibble (the code asserts it), the nodes it makes
  have different hashes and are part of the trie, its values decode;
* `SizesAssumption` and `InputsAssumption` of Rlp: numbers are below 2^`MAX_BITS`; what is encoded `Fits`: it nests no
  deeper than `MAX_NESTING`, and an RLP prefix, which has eight bytes for a length, can announce its length
  (Python raises OverflowError otherwise); the bytes of a proof are no more than `MAX_NESTING`, so that they cannot nest
  deeper, and are otherwise any bytes;
* `MaxSlotAssumption`: the chain is no longer than its list of summaries, 2^24 windows in the code; behind
  that the index would run into the gindex (`ShiftOr`), at slots above 2^37 that no chain reaches;
* `InputsAssumption`, `ConfigAssumption` and the assumptions of `AREConstants`: shapes and ranges.

| Theorem | States | Argument |
|---|---|---|
| `AREVerifyProofs!TypeCorrect` | `[]TypeOK` | `TypeOK` is inductive |
| `AREVerifyProofs!AcceptanceSound` | `[]AcceptSound` | `IInv`, below |
| `AREVerifyProofs!FinalitySound` | `[]FinalizedSound` | `IInv` |
| `AREVerifyProofs!FloorSound` | `[]FloorOnChain` | `IInv` |
| `AREVerifyProofs!DisputeSignatures` | `[]DisputeSigned` | `IInv`, and `SignedMessage` on what the signing root keeps |
| `AREVerifyProofs!Implementation` | `ImplementsOracle` | `RefInv`, and one lemma per step of the oracle |
| `AREVerifyProofs!HonestPackagesServed` | `[]HonestServed` | `HonestChecks`: an honest package meets every check |
| `MerkleBranchProofs!TypeCorrect` | `[]TypeOK` | `TypeOK` is inductive |
| `MerkleBranchProofs!BranchSoundness` | `[]BranchSound` | if the digest at height `g` is the tree's, so was the leaf below (`ClimbReflects`) |
| `MerkleBranchProofs!BranchExactness` | `[]BranchExact` | `ExactInv`, below |
| `MerkleBranchProofs!RoundTripCorrect` | `RoundTrip` | `RoundTripInv`, below |
| `MerkleizeProofs!TypeCorrect`, `!RootCorrect` | `[]TypeOK`, `[]RootExact` | `IInv` of MerkleizeProofs, below |
| `MerkleizeProofs!LevelCorrect` | `[]LevelExact` | `IInv`, and the subtree over a share of the chunks (`SubTree`) |
| `MerkleizeProofs!BytesCorrect` | `[]BytesBound` | `IInv`, and roots determine chunks, chunks bytes (`SameNodes`, `PackInjective`) |
| `MerkleizeProofs!ContainerRoots` | the four invariants above for objects | `RInv`: `IInv`, and the chunks are those of the object |
| `MerkleizeProofs!RootsIdentify` | `[]RootIdentifies` | `SameObject`, below |
| `MerkleizeProofs!BitsReturn` | `[]BitsRoundTrip` | `BitsRead`: bit `i` of a packed byte is the one packed |
| `MptWalkProofs!TypeCorrect` | `[]TypeOK` | `TypeOK` is inductive |
| `MptWalkProofs!Soundness`, `!AnswersSound` | `[](WalkSound /\ AnswerSound)`, `[]AnswerSound` | the content below the node to fetch at the rest of the key is the content of the root at the key (`DescendTracks`) |
| `MptWalkProofs!WalkIsExact` | `[]WalkExact` | `ExactInv` of MptWalkProofs, below |
| `MptWalkProofs!GeneratedProofsServe` | `[]GeneratedProofServes` | `BuildsWalk`, below |
| `RlpProofs!PathsReturn` | a packed path reads back, for every path | halves of a byte, odd and even |
| `RlpProofs!ItemsReturn`, `!NodesReturn`, `!AccountsReturn`, `!StorageReturns` | `[]ItemRoundTrip`, `[]NodeRoundTrip`, `[]AccountRoundTrip`, `[]StorageRoundTrip` | `EncodedInv` and `BytesInv`, below |
| `RlpProofs!BytesKept` | `[]NothingLost` | `EncodedInv`, from the innermost list outwards (`UnreadAll`) |
| `BeaconHistoryProofs!TypeCorrect`, `!AncestorsFound` | `[]TypeOK`, `[]AncestorsReachable` | `HistoryInv`, below |
| `VectorSuiteProofs!RerunRestoresFiles` | `[]RerunRestores` | `RestoreInv`, below |
| `VectorSuiteProofs!ExitStatusCorrect` | `Spec /\ []RunnerAgrees => ExitStatus` | `RunnerInv`, below |

**The verifier is sound.** `AcceptSound` speaks about the moment `verify` returns, when the checks that justify
it are in the past. `IInv` therefore remembers: for each step that the call has passed (or if it has accepted),
the condition of that step holds of the arguments, which no step changes (`Established`), and in step 8 the reads
before `read_index` are proven. Of the conditions, `ChecksSuffice` derives the truth of the envelope: the signed
header is in `Chain` (`SignedOnChain`, from the quorum and the honest majority), so is the checkpoint in its
state and the read block in the checkpoint's history (`FinalizedOnChain`), the payload is that of the read
block, and every read agrees with the trie under its state root (`ReadSound`).

**It implements the oracle.** Step 6 observes a block, step 10 believes; in between the oracle knows the block by
its floor alone. `RefInv` adds to `IInv` that from step 7 on the floor is the slot of the attested header
(`Observed`). Then every step of `verify` is a step of the oracle or leaves its state as it is
(`StepImplements`), with `ChecksSuffice` for the step that believes.

**It is complete.** No check asks for more than an honest packager gives. `HonestFields` collects what the
packager's operators put into anchor and envelope; from it `HonestChecks` derives all checks but the one of
freshness: both sides compute the same domain, gindices, anchor reference and signed message, and the message
exists for both or for neither (`LimitsNotSigned`). The arguments of
a call stay, and a package that is stale stays stale (`StaleKept`), so that an honest one can only end as ACCEPT
or as stale.

**Branches.** `ExactInv` locates the climb (`Position`: `g` is the ancestor of `gindex` that is `i` levels up) and
says that the digest reached is the tree's own exactly if the leaf and all siblings read so far are. `RoundTripInv`
remembers that builder and verifier climb in the same way (`IsClimb`), so that the second arrives where the
first did.

**Merkleization.** At level `depth`, entry `k` of `cur` is node `k` of that level of the padded tree, and `cur`
reaches exactly as far as the chunks (`Level`). Combining a level, with the zero subtree of its own depth for an
odd end, gives the next (`CombineNodes`).

**Roots identify.** `RInv` holds the chunks of the call to those of the object, so that `RootExact` makes the result
the root of the padded tree over them. Two equal roots have equal chunks (`SameNodes`), and per field kind a lemma
says what a chunk determines: numbers by their digits (`UintInjective`), byte strings with their length
(`ByteListInjective`), vectors without one (`VectorInjective`), bits (`SameBits`), node lists (`NodesInjective`: a
hash of a node is not the zero chunk), lists of digests up to trailing zero digests (`SameBranch`). `SameObject`
puts them together container by container, in both directions: objects that agree in what is `Identified` have
one root.

**The walk is exact.** While the walk goes on, the nodes that the key needs and that are not known are those
that the rest of the walk needs (`Progress`). `Below` is a recursive definition over an arbitrary trie, acyclic
or not; that it satisfies its equation (`BelowUnfolds`) is shown by constructing a least fixed point
(`FixedPoint`), as the equation is monotone.

**The built tries serve.** `BuildsWalk` follows a walk over any built trie with the proof of either key: the branch
comes first, then the leaf of its own key, the missing leaf of the other key, or an empty slot, and so the walk
can end only as `Verdict` says. Nothing is assumed of the keys but that they differ in the first nibble.

**Paths.** `nibbles` of a packed path is its flag, a zero if the path is even, and the path itself
(`PackedNibbles`), and the slice that `decode_hp` takes is the path.

**What is encoded comes back.** `EncodedInv` says of a call that decodes an encoded item that its stack follows the
item (`Structure`): frame `k` has read the first items of a list `whole[k]` and has the bytes of the others left,
but for the one list that frame `k + 1` reads, and that is the next of them. A prefix tells the decoder the kind of
an item and where it ends, whatever follows (`HeadTaken`), so `DecodeBytes` takes the next item, `DecodeList` opens it
and `ListEnds` closes it only when all its items are read (`AllRead`). When the first frame has its item, that is the
one encoded, and what is left is what followed it. A walk may also have started on bytes of a proof that no encoder
wrote, and encode a child again: `BytesInv` then keeps that what was read encodes in no more bytes than it was read
from (`PayloadShorter`: shorter prefixes say the same), so that it can be encoded, and from `NextRef` on `EncodedInv`
holds of the child. The reads of the callers (`AccountRead`, `NumberRead`, `PathsRead`) are facts about operators: a
number's bytes are the digits that make it up (`NumbersReturn`).

**History.** The ring holds the blocks of the last window at their places (`Ring`), the summaries hold those of
the windows that are over (`Archive`), the ring has no gap behind the slot (`Filled`), and the number of summaries
is the number of windows that are over. The turns of a gindex made by `ShiftOr` are the indices it was made of
(`ShiftOrIs`, `TurnsIs`), and so the look-up ends at the place the invariant speaks of.

**The suite.** While a generator runs, each of its files is complete or still to be done, and no other program
touches them (`RestoreInv`). While the runner runs, what it passed and what it has left add up to the total, and a
torn file is still before it (`RunnerInv`). The exit status can only be wrong where a single verdict is, which is
the hypothesis `[]RunnerAgrees`: it is about ten concrete vectors, and the run `vector_suite` checks it on them.

**Recursion.** The library's induction theorems take a predicate as a parameter, which the installed provers
cannot instantiate. `PowersProofs` therefore states induction and recursion on the natural numbers for sets and
functions (`SetInduction`, `Recursion`), proved from `WFMin`. Recursive functions (`pow2`, `PaddedTree`,
`sorted_glob`, `Below`, `Encoding`) are within reach in this way; RECURSIVE operators are not, and no module has one.

**Model-checked only:**

* liveness (`CallsReturn`, `Terminates`, `Ends`): the provers have neither fairness nor `ENABLED`;
* `GeneratorsAgree` and `RunnerAgrees`: an instance by nature, ten vectors with their slots and one schedule.

## Not modelled

Keccak, SHA-256 and the curves, which are libraries outside the repository: hashes are free constructors and
signatures ideal. The wording of results and the extra fields of an ACCEPT (`signing_root`, `participants`)
except `provider_sig_ok`; in the vector files the description, the intermediates and the preset fields that
nothing reads back. Overflow of a `uint64` while hashing and byte fields of a wrong length, which raise in step
2 or step 10 as the modelled exceptions do. `benchmark.py`, which times modelled functions and keeps no state.
The real BeaconState: the reference uses gindices of a reduced one and counts summaries from slot 0, so its
ancestor proofs do not fit mainnet; `src/reference/README.md` states the first.

## Plan

Done: the verifier with its packager and the oracle that it implements, Merkle branches, merkleization and the
containers, the trie walk with the built tries, RLP, the codec, the vectors with generators and runner, the
history, and the theorems above; every safety invariant of a run but the two about the ten vectors is one of them.
What could follow is growth on the code's side: the real BeaconState and its summaries, once the reference uses
them, and a verifier whose floor is kept on disk, with the crashes that this brings.
