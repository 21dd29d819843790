----------------------------- MODULE AREVerify -----------------------------
(***************************************************************************)
(* The verifier of src/reference/are_verify.py: the function verify as a   *)
(* process that runs the ten steps of the specification in order, called   *)
(* again and again with one VerifierConfig, whose monotonic floor is the   *)
(* only state that survives a call.                                        *)
(*                                                                         *)
(* Hashes are free constructors: the root of a container is the container  *)
(* itself, as far as the hash binds it.  What a root commits to is given   *)
(* by LeafAt and TrieAt; what keys have signed, by Signed.  A Merkle       *)
(* branch is named by the path it is the sibling list of (MerkleBranch     *)
(* proves that nothing else verifies), a Merkle-Patricia proof by the      *)
(* lookups whose nodes it holds (MptWalk proves that nothing else is       *)
(* answered).                                                              *)
(***************************************************************************)
EXTENDS AREConstants, FiniteSets

CONSTANTS
  (* trusted configuration: VerifierConfig and the active preset *)
  PRESET, ChainId, GenesisValidatorsRoot,
  Committees,            \* period -> seat -> public key
  MaxStalenessSlots, DisputeMode,
  ProviderKeys,          \* <<hint, sig_alg>> -> public key
  Heads,                 \* values of the client's head slot
  (* the world *)
  LeafAt(_, _),          \* leaf that an SSZ root commits to at a gindex
  TrieAt(_, _),          \* what a trie root commits to at a key
  Signed,                \* <<public key, signing root>> pairs ever signed
  Chain,                 \* headers of valid beacon blocks
  HonestInputs,          \* inputs an honest packager would build
  (* inputs and sentinels *)
  Inputs,                \* <<envelope, anchor>> pairs submitted
  MAX_READS,             \* 256
  LongValues,            \* values of more than 128 bytes
  LongProofs,            \* proofs of more than 64 nodes
  LongHints,             \* key hints of more than 256 bytes
  LongExtraData,         \* execution headers with more than 32 bytes of extra_data
  ZeroHeader, EMPTY_TRIE_ROOT,
  Undecodable,           \* trie values that decode_account / rlp_decode raise on
  NONE, ABSENT, TRUNCATED

BALANCE == 0
STORAGE == 1
CODE    == 2
NONCE   == 3

OPTIMISTIC_HEAD == 0
FINALIZED       == 1

---------------------------------------------------------------------------
(* SSZ branches.  A branch is the sibling list of the path to gindex under *)
(* root, with extra elements after it: none (""), one zero chunk ("zero"), *)
(* others ("more"), or more than MAX_BRANCH in total ("oversized").        *)

EmptyBranch == [root |-> NONE, gindex |-> 0, extra |-> ""]

verify_merkle_branch(leaf, branch, gindex, root) ==
  branch.root = root /\ branch.gindex = gindex /\ LeafAt(root, gindex) = leaf

(* merkleize(list, limit=64) without mix_in_length: trailing zero chunks   *)
(* leave no trace; too many chunks are a ValueError.                       *)
list_root(branch) == [branch EXCEPT !.extra = IF @ = "zero" THEN "" ELSE @]

anchor_hash_tree_root(a) ==
  [a EXCEPT !.execution_branch = list_root(@),
            !.finalized_header = IF a.has_finality THEN @ ELSE ZeroHeader,
            !.finality_branch  = IF a.has_finality THEN list_root(@) ELSE EmptyBranch,
            !.ancestor_proof   = IF a.has_finality THEN list_root(@) ELSE EmptyBranch]

anchor_root_raises(a) ==
  \/ a.execution_header \in LongExtraData
  \/ a.execution_branch.extra = "oversized"
  \/ a.has_finality /\ "oversized" \in {a.finality_branch.extra, a.ancestor_proof.extra}

---------------------------------------------------------------------------
(* Sync-committee signatures *)

popcount(bits) == Cardinality(bits)

compute_domain(fork_version, gvr) == [fork_version |-> fork_version, gvr |-> gvr]

compute_signing_root(header, domain) == [header |-> header, domain |-> domain]

fast_aggregate_verify(pubkeys, signing_root, signature) ==
  /\ DOMAIN pubkeys # {}
  /\ signature = [by |-> pubkeys, root |-> signing_root]
  /\ \A i \in DOMAIN pubkeys : <<pubkeys[i], signing_root>> \in Signed

---------------------------------------------------------------------------
(* Merkle-Patricia lookups.  Bytes that encode a number are a record       *)
(* [num, zeros]: the minimal encoding of num after that many zero bytes.   *)

EmptyBytes == [num |-> 0, zeros |-> 0]
be_to_int(bytes) == bytes.num

TrieContent(root, key) == IF root = EMPTY_TRIE_ROOT THEN ABSENT ELSE TrieAt(root, key)

walk(key, proof, root) ==
  IF root = EMPTY_TRIE_ROOT \/ <<root, key>> \in proof THEN TrieContent(root, key)
                                                       ELSE TRUNCATED

Found(value) == value \notin {ABSENT, TRUNCATED}

account_of(r, root)    == walk(r.address, r.account_proof, root)
storage_of(r, account) == walk(r.slot, r.storage_proof, account.storageRoot)

ValueMatches(r, account) ==
  \/ r.read_kind = BALANCE /\ account.balance = be_to_int(r.value)
  \/ r.read_kind = NONCE   /\ account.nonce = be_to_int(r.value)
  \/ r.read_kind = CODE    /\ account.codeHash = r.value
  \/ /\ r.read_kind = STORAGE
     /\ Found(storage_of(r, account))
     /\ storage_of(r, account) = be_to_int(r.value)

(* Decoding the account, or the storage value found, raises.               *)
ReadRaises(r, root) ==
  LET account == account_of(r, root) IN
  /\ r.presence = 0 \/ r.read_kind = STORAGE
  /\ Found(account)
  /\ \/ account \in Undecodable
     \/ /\ r.presence = 0 /\ r.read_kind = STORAGE
        /\ storage_of(r, account) \in Undecodable

InclusionOk(r, root) ==
  LET account == account_of(r, root) IN Found(account) /\ ValueMatches(r, account)

(* Mutant of ExclusionOk: a proof that stops short counts as absence.      *)
ExclusionOkTruncated(r, root) ==
  LET account == account_of(r, root) IN
  /\ r.value = EmptyBytes
  /\ IF r.read_kind = STORAGE THEN Found(account) /\ ~Found(storage_of(r, account))
                              ELSE ~Found(account)

(* Any presence other than 0 asks for exclusion, any read_kind other than  *)
(* STORAGE for the exclusion of the account.                               *)
ExclusionOk(r, root) ==
  LET account == account_of(r, root) IN
  /\ r.value = EmptyBytes
  /\ IF r.read_kind = STORAGE THEN Found(account) /\ storage_of(r, account) = ABSENT
                              ELSE account = ABSENT

ReadOk(r, root) == IF r.presence = 0 THEN InclusionOk(r, root) ELSE ExclusionOk(r, root)

---------------------------------------------------------------------------
(* Provider signatures *)

NoSignature == [key |-> NONE, msg |-> NONE]

(* Mutant of envelope_signing_root: the reads are not signed.              *)
envelope_signing_root_header(e) == [e EXCEPT !.provider_sig = NoSignature, !.reads = <<>>]

(* Every field but provider_sig; declared_state_root is no field of the    *)
(* container.                                                              *)
envelope_signing_root(e) ==
  [e EXCEPT !.provider_sig = NoSignature,
            !.reads = [j \in DOMAIN @ |-> [@[j] EXCEPT !.declared_state_root = NONE]]]

(* The lists of an envelope are hashed against a limit; above it merkleize *)
(* raises a ValueError.  128 bytes are less than most contracts' bytecode. *)
read_root_raises(r) ==
  \/ r.value \in LongValues
  \/ r.account_proof \in LongProofs
  \/ r.storage_proof \in LongProofs

envelope_root_raises(e) ==
  \/ Len(e.reads) > MAX_READS
  \/ \E j \in DOMAIN e.reads : read_root_raises(e.reads[j])
  \/ e.provider_key_hint \in LongHints

resolve_provider_key(hint, sig_alg) ==
  IF <<hint, sig_alg>> \in DOMAIN ProviderKeys THEN ProviderKeys[<<hint, sig_alg>>] ELSE NONE

(* secp256k1 and unknown algorithms are never verified. *)
verify_provider_sig(sig_alg, pub, msg, signature) ==
  sig_alg = SIG_ALG_ED25519 /\ signature = [key |-> pub, msg |-> msg]

---------------------------------------------------------------------------
VARIABLES
  pc,                        \* "idle" or the step about to run
  envelope, anchor,          \* the arguments of the current or last call
  read_index,                \* loop index of step 8
  head_slot,                 \* cfg.head_slot, set by the client
  monotonic_max_seen_slot,   \* cfg.monotonic_max_seen_slot
  result                     \* what the last call returned

call == <<envelope, anchor>>
cfg  == <<head_slot, monotonic_max_seen_slot>>
vars == <<pc, envelope, anchor, read_index, head_slot, monotonic_max_seen_slot, result>>

Rejects == {"REJECT@step1", "REJECT@step2", "REJECT@step3", "REJECT@step4", "REJECT@step5",
            "REJECT@step6", "REJECT@step7", "REJECT@step8", "REJECT@step9", "REJECT@step10"}

NoResult == [verdict |-> "none", provider_sig_ok |-> "None"]

Goto(step) == pc' = step /\ UNCHANGED <<call, read_index, cfg, result>>

Finish(verdict, provider_sig_ok) ==
  /\ pc' = "idle"
  /\ result' = [verdict |-> verdict, provider_sig_ok |-> provider_sig_ok]
  /\ UNCHANGED <<call, cfg>>
  /\ read_index' = 0

(* Mutant of Reject: the step is not recorded.                             *)
RejectBare(verdict) == Finish("REJECT", "None")

Reject(verdict) == Finish(verdict, "None")
Raise           == Finish("raise", "None")

Check(step, condition, next, verdict) ==
  /\ pc = step
  /\ \/ condition /\ Goto(next)
     \/ ~condition /\ Reject(verdict)

Init ==
  /\ pc = "idle"
  /\ \E input \in Inputs : envelope = input[1] /\ anchor = input[2]
  /\ read_index = 0
  /\ head_slot \in Heads
  /\ monotonic_max_seen_slot = 0
  /\ result = NoResult

(* The client calls verify with an envelope and a rehydrated anchor. *)
Call ==
  /\ pc = "idle"
  /\ \E input \in Inputs : envelope' = input[1] /\ anchor' = input[2]
  /\ pc' = "step1"
  /\ read_index' = 0
  /\ result' = NoResult
  /\ UNCHANGED cfg

(* Between calls the client's own view of the chain head advances. *)
AdvanceHead ==
  /\ pc = "idle"
  /\ \E head \in Heads : head > head_slot /\ head_slot' = head
  /\ UNCHANGED <<pc, call, read_index, monotonic_max_seen_slot, result>>

(* Step 1 - self-description cross-check *)
SelfDescribed ==
  /\ envelope.chain_id = ChainId
  /\ envelope.anchor_type = 0
  /\ envelope.version = 1
  /\ envelope.proof_format = <<0, 0, 0>>

Step1 == Check("step1", SelfDescribed, "step2", "REJECT@step1")

(* Step 2 - anchor rehydration and binding *)
AnchorBound == anchor_hash_tree_root(anchor) = envelope.anchor_ref

Step2 ==
  \/ pc = "step2" /\ anchor_root_raises(anchor) /\ Raise
  \/ ~anchor_root_raises(anchor) /\ Check("step2", AnchorBound, "step3", "REJECT@step2")

(* Step 3 - participation quorum *)
(* Mutant of Quorum: half of the committee is enough.                      *)
QuorumHalf == 2 * popcount(anchor.sync_committee_bits) >= SYNC_COMMITTEE_SIZE(PRESET)

Quorum == 2 * popcount(anchor.sync_committee_bits) > SYNC_COMMITTEE_SIZE(PRESET)

Step3 == Check("step3", Quorum, "step4", "REJECT@step3")

(* Step 4 - sync-committee signature.  A bit beyond the committee is an    *)
(* IndexError.                                                             *)
SigPeriod == compute_sync_committee_period_at_slot(anchor.signature_slot)

CommitteeKnown ==
  anchor.signature_slot > anchor.attested_header.slot /\ SigPeriod \in DOMAIN Committees

SeatsExist == anchor.sync_committee_bits \subseteq DOMAIN Committees[SigPeriod]

participating == [i \in anchor.sync_committee_bits |-> Committees[SigPeriod][i]]

(* Mutant of fork_version_slot: the domain of the signature slot itself.   *)
fork_version_slot_late == anchor.signature_slot

fork_version_slot == Max({anchor.signature_slot, 1}) - 1

SigningRoot ==
  compute_signing_root(anchor.attested_header,
    compute_domain(fork_version_at_epoch(PRESET, compute_epoch_at_slot(fork_version_slot)),
                   GenesisValidatorsRoot))

SignatureOk ==
  fast_aggregate_verify(participating, SigningRoot, anchor.sync_committee_signature)

Step4 ==
  \/ pc = "step4" /\ ~CommitteeKnown /\ Reject("REJECT@step4")
  \/ pc = "step4" /\ CommitteeKnown /\ ~SeatsExist /\ Raise
  \/ /\ CommitteeKnown /\ SeatsExist
     /\ Check("step4", SignatureOk, "step5", "REJECT@step4")

(* Step 5 - execution binding *)
ExecutionBound ==
  /\ verify_merkle_branch(anchor.execution_header, anchor.execution_branch,
                          EXECUTION_PAYLOAD_GINDEX, anchor.read_block_header.body_root)
  /\ anchor.execution_header.state_root = envelope.state_root
  /\ anchor.execution_header.block_number = envelope.block_number
  /\ anchor.execution_header.timestamp = envelope.timestamp
  /\ anchor.read_block_header.slot = envelope.beacon_slot
  /\ envelope.finality_status = OPTIMISTIC_HEAD =>
       anchor.read_block_header = anchor.attested_header

bound_state_root == anchor.execution_header.state_root

Step5 == Check("step5", ExecutionBound, "step6", "REJECT@step5")

(* Step 6 - freshness contract; the floor moves before steps 7 to 10 run.  *)
(* Mutant of Fresh: envelopes may go back before the floor.                *)
FreshOnly == anchor.attested_header.slot >= head_slot - MaxStalenessSlots

Fresh ==
  /\ anchor.attested_header.slot >= head_slot - MaxStalenessSlots
  /\ anchor.attested_header.slot >= monotonic_max_seen_slot

Step6 ==
  \/ /\ pc = "step6" /\ Fresh
     /\ monotonic_max_seen_slot' = Max({monotonic_max_seen_slot, anchor.attested_header.slot})
     /\ pc' = "step7"
     /\ UNCHANGED <<call, read_index, head_slot, result>>
  \/ pc = "step6" /\ ~Fresh /\ Reject("REJECT@step6")

(* Step 7 - finality entailment *)
FinalizedByAttested ==
  verify_merkle_branch(anchor.finalized_header, anchor.finality_branch,
                       finalized_root_gindex_for_attested_slot(anchor.attested_header.slot),
                       anchor.attested_header.state_root)

AncestorOfFinalized ==
  IF anchor.read_block_header = anchor.finalized_header
    THEN anchor.ancestor_proof = EmptyBranch
    ELSE verify_merkle_branch(anchor.read_block_header, anchor.ancestor_proof,
                              ancestor_gindex(anchor.read_block_header.slot,
                                              anchor.finalized_header.slot),
                              anchor.finalized_header.state_root)

(* Mutant of FinalityEntailed: the checkpoint is taken from the anchor.    *)
FinalityEntailedUnproven ==
  /\ anchor.has_finality = (envelope.finality_status = FINALIZED)
  /\ envelope.finality_status = FINALIZED => AncestorOfFinalized

FinalityEntailed ==
  /\ anchor.has_finality = (envelope.finality_status = FINALIZED)
  /\ envelope.finality_status = FINALIZED => FinalizedByAttested /\ AncestorOfFinalized

Step7 == Check("step7", FinalityEntailed, "step8", "REJECT@step7")

(* Step 8 - per-read Merkle verification, one read at a time *)
CurrentRead == envelope.reads[read_index + 1]

(* Mutant of Step8Read: the loop stays at the same read.                   *)
Step8ReadStuck ==
  /\ pc = "step8" /\ read_index < Len(envelope.reads)
  /\ ~ReadRaises(CurrentRead, bound_state_root) /\ ReadOk(CurrentRead, bound_state_root)
  /\ UNCHANGED vars

Step8Read ==
  /\ pc = "step8" /\ read_index < Len(envelope.reads)
  /\ ~ReadRaises(CurrentRead, bound_state_root) /\ ReadOk(CurrentRead, bound_state_root)
  /\ read_index' = read_index + 1
  /\ UNCHANGED <<pc, call, cfg, result>>

Step8 ==
  \/ Step8Read
  \/ /\ pc = "step8" /\ read_index < Len(envelope.reads)
     /\ ReadRaises(CurrentRead, bound_state_root) /\ Raise
  \/ /\ pc = "step8" /\ read_index < Len(envelope.reads)
     /\ ~ReadRaises(CurrentRead, bound_state_root) /\ ~ReadOk(CurrentRead, bound_state_root)
     /\ Reject("REJECT@step8")
  \/ pc = "step8" /\ read_index >= Len(envelope.reads) /\ Goto("step9")

(* Step 9 - batch root consistency *)
SameRoot ==
  \A j \in DOMAIN envelope.reads :
    envelope.reads[j].declared_state_root \in {NONE, bound_state_root}

Step9 == Check("step9", SameRoot, "step10", "REJECT@step9")

(* Step 10 - provider signature, if present.  The envelope is hashed before *)
(* the key is resolved, in either mode; a signature that cannot be checked *)
(* is fatal only in dispute mode.                                          *)
ProviderKey == resolve_provider_key(envelope.provider_key_hint, envelope.sig_alg)

ProviderSigOk ==
  /\ ProviderKey # NONE
  /\ verify_provider_sig(envelope.sig_alg, ProviderKey, envelope_signing_root(envelope),
                         envelope.provider_sig)

Step10 ==
  /\ pc = "step10"
  /\ \/ envelope.sig_alg = SIG_ALG_NONE /\ Finish("ACCEPT", "None")
     \/ envelope.sig_alg # SIG_ALG_NONE /\ envelope_root_raises(envelope) /\ Raise
     \/ /\ envelope.sig_alg # SIG_ALG_NONE /\ ~envelope_root_raises(envelope)
        /\ \/ ProviderSigOk /\ Finish("ACCEPT", "True")
           \/ ~ProviderSigOk /\ DisputeMode /\ Reject("REJECT@step10")
           \/ ~ProviderSigOk /\ ~DisputeMode /\ Finish("ACCEPT", "False")

VerifyStep ==
  \/ Step1 \/ Step2 \/ Step3 \/ Step4 \/ Step5
  \/ Step6 \/ Step7 \/ Step8 \/ Step9 \/ Step10

Next == Call \/ AdvanceHead \/ VerifyStep

Spec     == Init /\ [][Next]_vars
FairSpec == Spec /\ WF_vars(VerifyStep)

---------------------------------------------------------------------------
(* The world outside the verifier *)

Slots == {input[2].read_block_header.slot : input \in Inputs}

ASSUME ConfigAssumption ==
  /\ MaxStalenessSlots \in Nat /\ MAX_READS \in Nat /\ Heads \subseteq Nat
  /\ DisputeMode \in BOOLEAN /\ PRESET \in Presets

ASSUME InputsAssumption ==
  /\ ABSENT # TRUNCATED
  /\ HonestInputs \subseteq Inputs
  /\ \A input \in Inputs :
       /\ input = <<input[1], input[2]>>
       /\ {"reads", "provider_sig"} \subseteq DOMAIN input[1]
       /\ Len(input[1].reads) \in Nat
       /\ DOMAIN input[1].reads = 1 .. Len(input[1].reads)
       /\ input[2].attested_header.slot \in Nat
       /\ input[2].finalized_header.slot \in Nat
       /\ input[2].read_block_header.slot \in Nat
       /\ input[2].read_block_header # NONE

(* Honest majority: what more than half of a committee's seats sign is the *)
(* header of a valid block.  Chain need not be linear: a committee signs   *)
(* heads that may be orphaned later, and these are in Chain as well.       *)
ASSUME HonestMajority ==
  \A signature \in Signed : signature[2].header \notin Chain =>
    \A period \in DOMAIN Committees : \A bits \in SUBSET DOMAIN Committees[period] :
      (\A i \in bits : <<Committees[period][i], signature[2]>> \in Signed) =>
        ~ (2 * popcount(bits) > SYNC_COMMITTEE_SIZE(PRESET))

(* The states of the chain commit to its blocks: the checkpoint finalized  *)
(* as of the state, and strictly older blocks in the two history trees.    *)
FinalizedAsOf(h) == LeafAt(h.state_root, finalized_root_gindex_for_attested_slot(h.slot))

InHistoryOf(h, gindex) ==
  LET leaf == LeafAt(h.state_root, gindex) IN
  leaf # NONE => leaf \in Chain /\ leaf.slot < h.slot

ASSUME ChainAssumption ==
  /\ \A h \in Chain : h.slot \in Nat
  /\ \A h \in Chain : FinalizedAsOf(h) \in Chain /\ FinalizedAsOf(h).slot <= h.slot
  /\ \A h \in Chain, slot \in Slots :
       LET j == slot % SLOTS_PER_HISTORICAL_ROOT
       IN  /\ InHistoryOf(h, block_roots_leaf_gindex(j))
           /\ InHistoryOf(h, historical_summaries_leaf_gindex(
                               slot \div SLOTS_PER_HISTORICAL_ROOT, j))

---------------------------------------------------------------------------
(* Properties *)

Steps == {"step1", "step2", "step3", "step4", "step5",
          "step6", "step7", "step8", "step9", "step10"}

TypeOK ==
  /\ pc \in {"idle"} \union Steps
  /\ <<envelope, anchor>> \in Inputs
  /\ read_index \in 0 .. Len(envelope.reads)
  /\ head_slot \in Heads
  /\ monotonic_max_seen_slot \in Nat
  /\ result.verdict \in {"none", "ACCEPT", "raise"} \union Rejects
  /\ result.provider_sig_ok \in {"None", "True", "False"}

Accepted == result.verdict = "ACCEPT"

(* The execution payload header of a beacon block.                         *)
Payload(h) == LeafAt(h.body_root, EXECUTION_PAYLOAD_GINDEX)

(* What a read claims, in terms of the state itself, not of a proof.       *)
Claim(r, root) ==
  LET account == TrieContent(root, r.address)
      stored  == TrieContent(account.storageRoot, r.slot)
  IN  IF r.presence = 0
        THEN /\ account # ABSENT
             /\ \/ r.read_kind = BALANCE /\ account.balance = r.value.num
                \/ r.read_kind = NONCE   /\ account.nonce = r.value.num
                \/ r.read_kind = CODE    /\ account.codeHash = r.value
                \/ r.read_kind = STORAGE /\ stored # ABSENT /\ stored = r.value.num
        ELSE /\ r.value = EmptyBytes
             /\ IF r.read_kind = STORAGE THEN account # ABSENT /\ stored = ABSENT
                                         ELSE account = ABSENT

(* The envelope tells the truth about the block h of the chain: position,  *)
(* state root, and the answer to every read.                               *)
TrueAt(e, h) ==
  /\ h \in Chain /\ h.slot = e.beacon_slot
  /\ Payload(h).state_root = e.state_root
  /\ Payload(h).block_number = e.block_number
  /\ Payload(h).timestamp = e.timestamp
  /\ \A j \in DOMAIN e.reads : Claim(e.reads[j], e.state_root)

(* An accepted envelope whose finality_status is one of the two that the   *)
(* specification defines tells the truth about a valid block of the beacon *)
(* chain, however its anchor and its proofs were put together: the chain   *)
(* of checks of steps 3, 4, 5, 7 and 8 has no gap.                         *)
AcceptSound ==
  Accepted /\ envelope.finality_status \in {OPTIMISTIC_HEAD, FINALIZED} =>
    TrueAt(envelope, anchor.read_block_header)

(* An accepted envelope labelled FINALIZED answers from a block no newer   *)
(* than the checkpoint that its signed header finalizes (step 7).          *)
FinalizedSound ==
  Accepted /\ envelope.finality_status = FINALIZED =>
    LET checkpoint == FinalizedAsOf(anchor.attested_header)
    IN  checkpoint \in Chain /\ anchor.read_block_header.slot <= checkpoint.slot

(* The floor is always the slot of a block of the chain: an envelope that  *)
(* is rejected after step 6 has moved it, one that fails earlier has not.  *)
FloorOnChain ==
  monotonic_max_seen_slot # 0 => \E h \in Chain : h.slot = monotonic_max_seen_slot

(* Envelopes of an honest packager are served: the verifier accepts them,  *)
(* across fork and committee-period boundaries, for every read kind and    *)
(* every ancestor distance, or they have become stale.  An unsigned one is *)
(* served whatever its size (steps 1 to 9 have no limit on a read), and a  *)
(* signed one is, because it is signed only if it can be hashed: there the *)
(* limits of step 10 are those that the packager met before.               *)
HonestServed ==
  (pc = "idle" /\ <<envelope, anchor>> \in HonestInputs) =>
    \/ result.verdict \in {"none", "ACCEPT"}
    \/ result.verdict = "REJECT@step6" /\ ~Fresh

(* In dispute mode an accepted envelope that names a signature algorithm   *)
(* carries a signature of the key its hint resolves to, and the signed     *)
(* message agrees with the envelope in every field and in every read that  *)
(* the verifier has relied on: nothing was changed after signing.          *)
DisputeSigned ==
  Accepted /\ DisputeMode /\ envelope.sig_alg # SIG_ALG_NONE =>
    LET msg == envelope.provider_sig.msg
    IN  /\ <<envelope.provider_key_hint, envelope.sig_alg>> \in DOMAIN ProviderKeys
        /\ envelope.provider_sig.key =
             ProviderKeys[<<envelope.provider_key_hint, envelope.sig_alg>>]
        /\ \A f \in DOMAIN envelope \ {"reads", "provider_sig"} : msg[f] = envelope[f]
        /\ DOMAIN msg.reads = DOMAIN envelope.reads
        /\ \A j \in DOMAIN envelope.reads :
             \A f \in DOMAIN envelope.reads[j] \ {"declared_state_root"} :
               msg.reads[j][f] = envelope.reads[j][f]

(* Every call returns: verify runs to its end in the caller's thread.      *)
CallsReturn == pc # "idle" ~> pc = "idle"

---------------------------------------------------------------------------
(* Refinement *)

Envelopes == {input[1] : input \in Inputs}

AsksForHead(e)      == e.finality_status = OPTIMISTIC_HEAD
AsksForFinalized(e) == e.finality_status = FINALIZED

CallPhase ==
  IF pc = "idle" THEN "idle"
  ELSE IF pc \in {"step7", "step8", "step9", "step10"} THEN "observed" ELSE "asked"

Oracle == INSTANCE ReadOracle WITH
  Questions     <- Envelopes,
  Optimistic    <- AsksForHead,
  Final         <- AsksForFinalized,
  phase         <- CallPhase,
  question      <- envelope,
  head          <- head_slot,
  floor         <- monotonic_max_seen_slot,
  believed      <- Accepted

(* The verifier implements the oracle: between the client and an accepted  *)
(* envelope stand only the ten steps, and step by step they keep the       *)
(* promise - truth of a valid block, freshness, and no answer that is      *)
(* older than one given before (steps 3 to 8 and the floor of step 6).     *)
ImplementsOracle == Oracle!Spec
============================================================================
