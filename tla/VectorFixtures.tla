--------------------------- MODULE VectorFixtures ---------------------------
(***************************************************************************)
(* The ten conformance vectors, as the three generators build them, and    *)
(* the trusted configurations that a generator and the runner give the     *)
(* verifier.  Slots, gindices, committee sizes and the fork schedule are   *)
(* those of the code.  A root that the generators reduce from a leaf and   *)
(* random siblings is the record of what it was reduced from: it commits   *)
(* to that leaf at that gindex and to nothing anyone can prove elsewhere.  *)
(***************************************************************************)
EXTENDS AREConstants, Codec, TLC

CONSTANTS ABSENT, TRUNCATED, EMPTY_TRIE_ROOT

(* State of the verifier that the generators and the runner call.          *)
VARIABLES pc, envelope, anchor, read_index, head_slot, monotonic_max_seen_slot, result

Root(leaf, gindex, siblings) == [leaf |-> leaf, gindex |-> gindex, siblings |-> siblings]
randbytes(label)             == Root(NONE, 0, label)

SyntheticLeafAt(root, gindex) == IF root.gindex = gindex THEN root.leaf ELSE NONE

TrieRoot(content)         == [trie |-> content]
SyntheticTrieAt(root, key) == IF key \in DOMAIN root.trie THEN root.trie[key] ELSE ABSENT

BeaconBlockHeader(slot, proposer, state_root, body_root) ==
  [slot |-> slot, proposer_index |-> proposer, parent_root |-> randbytes("parent"),
   state_root |-> state_root, body_root |-> body_root]

ZeroBlockHeader == [BeaconBlockHeader(0, 0, randbytes("0"), randbytes("0")) EXCEPT !.parent_root = randbytes("0")]

ExecNumbers == {"block_number", "timestamp", "gas_limit", "gas_used", "base_fee_per_gas",
                "blob_gas_used", "excess_blob_gas"}

(* Seventeen fields; the generators set three of them. *)
ExecutionPayloadHeader(state_root, block_number, timestamp) ==
  [[f \in ExecBytes \union ExecNumbers |-> IF f \in ExecNumbers THEN 0 ELSE randbytes("0")]
     EXCEPT !.state_root = state_root, !.block_number = block_number, !.timestamp = timestamp]

(* The verifier and the packager under a preset, a configuration and the   *)
(* set of committee signatures there are.                                  *)
CHAIN_ID == 1

V(preset, config, signed) == INSTANCE Packager WITH
  PRESET <- preset, ChainId <- CHAIN_ID, GenesisValidatorsRoot <- "mainnet",
  Committees <- config.committees, MaxStalenessSlots <- config.max_staleness_slots,
  DisputeMode <- config.dispute_mode, ProviderKeys <- config.provider_keys,
  Heads <- {config.head_slot}, LeafAt <- SyntheticLeafAt, TrieAt <- SyntheticTrieAt,
  Signed <- signed, Chain <- {}, HonestInputs <- {}, Inputs <- {}, MAX_READS <- 256,
  LongValues <- {}, LongProofs <- {}, LongHints <- {}, LongExtraData <- {},
  ZeroHeader <- ZeroBlockHeader, Undecodable <- {}

---------------------------------------------------------------------------
(* Committees: keys are draws of the generator seeded with SEED.           *)

SEED == 42

gen_committee(size) == [i \in 0 .. size - 1 |-> [seed |-> SEED, draw |-> i + 1]]

(* The runner draws 32 keys from its own seeded generator; a generator     *)
(* draws SYNC_COMMITTEE_SIZE keys before anything else.                    *)
minimal_committee(period) == period :> gen_committee(32)

mainnet_committee(period) == period :> [i \in 0 .. 511 |-> [seed |-> 0, draw |-> i]]

SigPeriodOf(a) == compute_sync_committee_period_at_slot(a.signature_slot)

VerifierConfig(committees, head, dispute_mode, provider_keys) ==
  [committees |-> committees, head_slot |-> head, max_staleness_slots |-> 64,
   dispute_mode |-> dispute_mode, provider_keys |-> provider_keys]

---------------------------------------------------------------------------
(* are_generate.py, are_extra_vectors.py *)

ATTESTED_SLOT  == 8999990
SIGNATURE_SLOT == ATTESTED_SLOT + 1
BLOCK_NUMBER   == 21000000
TIMESTAMP      == 1700000000
HEAD_SLOT      == 9000000
BALANCE_WEI    == 1000      \* 10**18 in the code

DEEP_READ_SLOT     == 8500000
DEEP_FIN_SLOT      == DEEP_READ_SLOT + 20000
DEEP_ATTESTED_SLOT == DEEP_FIN_SLOT + 64

(* Packages are signed by the first keys drawn, whatever the period.       *)
MinimalBuild ==
  VerifierConfig([period \in {compute_sync_committee_period_at_slot(slot + 1) :
                               slot \in {ATTESTED_SLOT, DEEP_ATTESTED_SLOT}}
                    |-> gen_committee(MINIMAL_COMMITTEE_SIZE)], 0, FALSE, <<>>)

Account(nonce, balance) ==
  [nonce |-> nonce, balance |-> balance, storageRoot |-> EMPTY_TRIE_ROOT, codeHash |-> "empty code"]

account_trie == TrieRoot("ADDRESS" :> Account(7, BALANCE_WEI) @@ "NEIGHBOR" :> Account(0, 0))

(* Branch node and leaf of ADDRESS: they also show that the slot of        *)
(* ABSENT_ADDR in the branch is empty.                                     *)
account_proof == {<<account_trie, "ADDRESS">>, <<account_trie, "ABSENT_ADDR">>}

minimal_exec == ExecutionPayloadHeader(account_trie, BLOCK_NUMBER, TIMESTAMP)
minimal_body == Root(minimal_exec, EXECUTION_PAYLOAD_GINDEX, "body")

(* Seats 0 .. n-1 sign. *)
participants(n) == 0 .. n - 1

optimistic_anchor(n) ==
  V("MINIMAL", MinimalBuild, {})!base_optimistic_anchor(
    BeaconBlockHeader(ATTESTED_SLOT, 1, randbytes("state"), minimal_body),
    minimal_exec, SIGNATURE_SLOT, participants(n))

(* A block whose state proves read_block, and one whose state proves the   *)
(* finalized block.                                                        *)
finalized_block(slot, proposer, read_block, gindex) ==
  BeaconBlockHeader(slot, proposer, Root(read_block, gindex, "finalized"), randbytes("body"))

(* Mutant of fin_gindex: the index of the Electra fork.                    *)
fin_gindex_electra == FINALIZED_ROOT_GINDEX_ELECTRA

fin_gindex == FINALIZED_ROOT_GINDEX_PRE_ELECTRA

attested_block(slot, finalized) ==
  BeaconBlockHeader(slot, 1, Root(finalized, fin_gindex, "attested"), randbytes("body"))

(* The finalized block is 100 slots newer than the read block, which is at *)
(* the slot of the attested one.                                           *)
near_anchor ==
  LET read_block == BeaconBlockHeader(ATTESTED_SLOT, 1, randbytes("state"), minimal_body)
      gindex     == block_roots_leaf_gindex(ATTESTED_SLOT % SLOTS_PER_HISTORICAL_ROOT)
      finalized  == finalized_block(ATTESTED_SLOT + 100, 2, read_block, gindex)
  IN  V("MINIMAL", MinimalBuild, {})!build_finalized(
        attested_block(ATTESTED_SLOT, finalized), finalized, read_block, minimal_exec,
        SIGNATURE_SLOT, participants(25), fin_gindex)

deep_anchor ==
  LET read_block == BeaconBlockHeader(DEEP_READ_SLOT, 3, randbytes("state"), minimal_body)
      gindex     == historical_summaries_leaf_gindex(DEEP_READ_SLOT \div SLOTS_PER_HISTORICAL_ROOT,
                                                     DEEP_READ_SLOT % SLOTS_PER_HISTORICAL_ROOT)
      finalized  == finalized_block(DEEP_FIN_SLOT, 4, read_block, gindex)
  IN  V("MINIMAL", MinimalBuild, {})!build_deep_ancestor(
        attested_block(DEEP_ATTESTED_SLOT, finalized), finalized, read_block, minimal_exec,
        DEEP_ATTESTED_SLOT + 1, participants(25), fin_gindex)

(* A flipped byte: signatures that nobody has made. *)
bad_bls(a) == [a EXCEPT !.sync_committee_signature.root = NONE]
tamper(e)  == [e EXCEPT !.provider_sig.msg = NONE]

balance_read == V("MINIMAL", MinimalBuild, {})!balance_read("ADDRESS", BALANCE_WEI, account_proof)

make_envelope(a, reads, finality_status, hint) ==
  V("MINIMAL", MinimalBuild, {})!make_envelope(a, reads, finality_status, hint)

NO_HINT           == ""
PROVIDER_KEY_HINT == "are-reference-provider.eth"
ProviderPublicKey == "ed25519 key of the provider seed"

build_provider_sig ==
  V("MINIMAL", MinimalBuild, {})!provider_sign(
    make_envelope(optimistic_anchor(25), <<balance_read>>, 0, PROVIDER_KEY_HINT),
    ProviderPublicKey, SIG_ALG_ED25519)

---------------------------------------------------------------------------
(* are_real_vectors.py: headers, branches and signature are captured.      *)

MainnetBuild ==
  VerifierConfig(mainnet_committee(compute_sync_committee_period_at_slot(14640722)), 0, FALSE, <<>>)

weth_trie ==
  TrieRoot("WETH" :> [nonce |-> 1, balance |-> BALANCE_WEI,
                      storageRoot |-> TrieRoot("slot 0" :> 5), codeHash |-> "weth"])

captured_exec == ExecutionPayloadHeader(weth_trie, 25404693, TIMESTAMP + 1)

captured_finalized ==
  BeaconBlockHeader(14640640, 5, randbytes("state"),
                    Root(captured_exec, EXECUTION_PAYLOAD_GINDEX, "body"))

captured_attested ==
  BeaconBlockHeader(14640721, 6,
                    Root(captured_finalized, FINALIZED_ROOT_GINDEX_ELECTRA, "attested"),
                    randbytes("body"))

(* The read block is the finalized block: the ancestor proof is empty.     *)
mainnet_anchor ==
  V("MAINNET", MainnetBuild, {})!finalized_anchor(
    captured_attested, captured_finalized, captured_finalized, captured_exec, 14640722,
    0 .. 511 \ {4, 373}, FINALIZED_ROOT_GINDEX_ELECTRA,
    V("MAINNET", MainnetBuild, {})!EmptyBranch)

weth_read(kind, slot, value, storage_proof) ==
  V("MAINNET", MainnetBuild, {})!read_proof(kind, "WETH", slot, [num |-> value, zeros |-> 0],
    {<<weth_trie, "WETH">>}, storage_proof, 0)

mainnet_reads ==
  LET storage_root == weth_trie.trie["WETH"].storageRoot
  IN  <<weth_read(0, "zero", BALANCE_WEI, {}),
        weth_read(1, "slot 0", 5, {<<storage_root, "slot 0">>})>>

---------------------------------------------------------------------------
(* What write_vector stores: preset, envelope, anchor, expected result.    *)

Generated(preset, e, a, expected) ==
  [preset |-> preset, envelope |-> e, anchor |-> a, expected |-> expected]

minimal_preset  == [name |-> "MINIMAL"]
provider_preset ==
  [name |-> "MINIMAL", dispute_mode |-> TRUE, provider_pubkey |-> hx(ProviderPublicKey),
   provider_key_hint |-> hx(PROVIDER_KEY_HINT)]

generated_minimal(a, reads, finality_status, expected) ==
  Generated(minimal_preset, make_envelope(a, reads, finality_status, NO_HINT), a, expected)

unproven_read == [balance_read EXCEPT !.address = "ABSENT_ADDR"]
mixed_read    == [balance_read EXCEPT !.declared_state_root = TrieRoot(<<>>)]

Files ==
  {"accept_balance.json", "accept_balance_finalized.json", "reject_quorum_too_low.json",
   "reject_bad_bls.json", "reject_unproven_absence.json", "reject_mixed_root_batch.json",
   "accept_deep_ancestor.json", "accept_provider_sig.json", "reject_bad_provider_sig.json",
   "accept_mainnet_real.json"}

(* The objects in memory, before they are written. *)
Fixture ==
  [f \in Files |->
     CASE f = "accept_balance.json" ->
         generated_minimal(optimistic_anchor(25), <<balance_read>>, 0, "ACCEPT")
       [] f = "accept_balance_finalized.json" ->
         generated_minimal(near_anchor, <<balance_read>>, 1, "ACCEPT")
       [] f = "reject_quorum_too_low.json" ->
         generated_minimal(optimistic_anchor(16), <<balance_read>>, 0, "REJECT@step3")
       [] f = "reject_bad_bls.json" ->
         generated_minimal(bad_bls(optimistic_anchor(25)), <<balance_read>>, 0, "REJECT@step4")
       [] f = "reject_unproven_absence.json" ->
         generated_minimal(optimistic_anchor(25), <<unproven_read>>, 0, "REJECT@step8")
       [] f = "reject_mixed_root_batch.json" ->
         generated_minimal(optimistic_anchor(25), <<balance_read, mixed_read>>, 0, "REJECT@step9")
       [] f = "accept_deep_ancestor.json" ->
         generated_minimal(deep_anchor, <<balance_read>>, 1, "ACCEPT")
       [] f = "accept_provider_sig.json" ->
         Generated(provider_preset, build_provider_sig, optimistic_anchor(25), "ACCEPT")
       [] f = "reject_bad_provider_sig.json" ->
         Generated(provider_preset, tamper(build_provider_sig), optimistic_anchor(25), "REJECT@step10")
       [] f = "accept_mainnet_real.json" ->
         Generated([name |-> "MAINNET"],
                   V("MAINNET", MainnetBuild, {})!make_envelope(mainnet_anchor, mainnet_reads, 1, NO_HINT),
                   mainnet_anchor, "ACCEPT")]

write_vector(v) ==
  [v EXCEPT !.envelope = envelope_to_json(@),
            !.anchor   = anchor_to_json(@, SYNC_COMMITTEE_SIZE(v.preset.name))]

(* Every signature that the generators make or capture. *)
Signatures ==
  UNION {LET signature == Fixture[f].anchor.sync_committee_signature
         IN  {<<signature.by[i], signature.root>> : i \in DOMAIN signature.by} : f \in Files}

---------------------------------------------------------------------------
(* The trusted configurations.  A generator takes the head from a literal, *)
(* but for the deep ancestor, and the committee from what it has drawn.    *)

provider_keys(preset) ==
  IF "provider_pubkey" \in DOMAIN preset
    THEN <<unhx(preset.provider_key_hint), SIG_ALG_ED25519>> :> unhx(preset.provider_pubkey)
    ELSE <<>>

dispute_mode(preset) == "dispute_mode" \in DOMAIN preset /\ preset.dispute_mode

GeneratorConfig(f) ==
  LET v == Fixture[f]
      build == IF v.preset.name = "MAINNET" THEN MainnetBuild ELSE MinimalBuild
      head == IF f \in {"accept_deep_ancestor.json", "accept_mainnet_real.json"}
                THEN v.anchor.attested_header.slot + 8 ELSE HEAD_SLOT
  IN  VerifierConfig(build.committees, head, dispute_mode(v.preset), provider_keys(v.preset))

(* run_one rebuilds everything from the file. *)
RunnerConfig(v, a) ==
  VerifierConfig(IF v.preset.name = "MAINNET" THEN mainnet_committee(SigPeriodOf(a))
                                              ELSE minimal_committee(SigPeriodOf(a)),
                 a.attested_header.slot + 8, dispute_mode(v.preset), provider_keys(v.preset))
=============================================================================
