------------------------------ MODULE Packager ------------------------------
(***************************************************************************)
(* The packager side: how the vector generators are_generate.py,           *)
(* are_extra_vectors.py and are_real_vectors.py put an anchor, an envelope *)
(* and a provider signature together from blocks they are given.  They are *)
(* the only packagers in the repository; here a header stands for its      *)
(* block, and a branch that the code builds or captures is named by its    *)
(* root and gindex.                                                        *)
(***************************************************************************)
EXTENDS AREVerify

build_merkle_branch(gindex, root) == [root |-> root, gindex |-> gindex, extra |-> ""]

make_exec_branch(block) == build_merkle_branch(EXECUTION_PAYLOAD_GINDEX, block.body_root)

(* The domain is that of the slot before the signature slot. *)
build_signing_root(attested_header, signature_slot) ==
  LET epoch == compute_epoch_at_slot(Max({signature_slot, 1}) - 1)
  IN  compute_signing_root(attested_header,
        compute_domain(fork_version_at_epoch(PRESET, epoch), GenesisValidatorsRoot))

sign_committee(committee, bits, signing_root) ==
  [by |-> [i \in bits |-> committee[i]], root |-> signing_root]

committee_of(signature_slot) ==
  Committees[compute_sync_committee_period_at_slot(signature_slot)]

sync_aggregate(attested, signature_slot, bits) ==
  sign_committee(committee_of(signature_slot), bits, build_signing_root(attested, signature_slot))

base_optimistic_anchor(attested, exec_header, signature_slot, bits) ==
  [attested_header |-> attested, signature_slot |-> signature_slot,
   sync_committee_bits |-> bits,
   sync_committee_signature |-> sync_aggregate(attested, signature_slot, bits),
   read_block_header |-> attested, execution_header |-> exec_header,
   execution_branch |-> make_exec_branch(attested),
   has_finality |-> FALSE, finalized_header |-> ZeroHeader,
   finality_branch |-> EmptyBranch, ancestor_proof |-> EmptyBranch]

(* FINALIZED: the read block is the checkpoint itself, or an ancestor whose *)
(* root is proven through block_roots or, deeper, historical_summaries.     *)
(* fin_gindex is 105 in the Deneb fixtures, 169 in the captured Fulu data.  *)
finalized_anchor(attested, finalized, read_block, exec_header, signature_slot, bits, fin_gindex, ancestor_proof) ==
  [base_optimistic_anchor(attested, exec_header, signature_slot, bits) EXCEPT
     !.read_block_header = read_block, !.execution_branch = make_exec_branch(read_block),
     !.has_finality = TRUE, !.finalized_header = finalized,
     !.finality_branch = build_merkle_branch(fin_gindex, attested.state_root),
     !.ancestor_proof = ancestor_proof]

near_ancestor(finalized, read_block) ==
  build_merkle_branch(block_roots_leaf_gindex(read_block.slot % SLOTS_PER_HISTORICAL_ROOT),
                      finalized.state_root)

deep_ancestor(finalized, read_block) ==
  build_merkle_branch(
    historical_summaries_leaf_gindex(read_block.slot \div SLOTS_PER_HISTORICAL_ROOT,
                                     read_block.slot % SLOTS_PER_HISTORICAL_ROOT),
    finalized.state_root)

build_finalized(attested, finalized, read_block, exec_header, signature_slot, bits, fin_gindex) ==
  finalized_anchor(attested, finalized, read_block, exec_header, signature_slot, bits, fin_gindex,
                   near_ancestor(finalized, read_block))

build_deep_ancestor(attested, finalized, read_block, exec_header, signature_slot, bits, fin_gindex) ==
  finalized_anchor(attested, finalized, read_block, exec_header, signature_slot, bits, fin_gindex,
                   deep_ancestor(finalized, read_block))

(* The envelope copies its position from the anchor's read block; sig_alg  *)
(* is 0 until provider_sign.                                               *)
make_envelope(a, reads, finality_status, hint) ==
  [version |-> 1, chain_id |-> ChainId, anchor_type |-> 0, settlement_layer |-> ChainId,
   proof_format |-> <<0, 0, 0>>,
   block_number |-> a.execution_header.block_number, beacon_slot |-> a.read_block_header.slot,
   timestamp |-> a.execution_header.timestamp, state_root |-> a.execution_header.state_root,
   finality_status |-> finality_status, anchor_ref |-> anchor_hash_tree_root(a),
   reads |-> reads, sig_alg |-> SIG_ALG_NONE, provider_sig |-> NoSignature,
   provider_key_hint |-> hint]

(* sig_alg is set first, so that the signature covers it.  An envelope that *)
(* cannot be hashed cannot be signed: the packager raises, as the verifier  *)
(* would.                                                                   *)
provider_sign(e, key, sig_alg) ==
  LET unsigned == [e EXCEPT !.sig_alg = sig_alg]
  IN  IF envelope_root_raises(unsigned) THEN NONE
      ELSE [unsigned EXCEPT !.provider_sig = [key |-> key, msg |-> envelope_signing_root(unsigned)]]

(* A read with the nodes of its account proof and storage proof. *)
read_proof(kind, address, slot, value, account_proof, storage_proof, presence) ==
  [read_kind |-> kind, address |-> address, slot |-> slot, value |-> value,
   account_proof |-> account_proof, storage_proof |-> storage_proof,
   presence |-> presence, declared_state_root |-> NONE]

(* be_trim: the minimal big-endian encoding. *)
be_trim(x) == [num |-> x, zeros |-> 0]

balance_read(address, balance, account_proof) ==
  read_proof(BALANCE, address, "zero", be_trim(balance), account_proof, {}, 0)
============================================================================
