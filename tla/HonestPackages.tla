--------------------------- MODULE HonestPackages ---------------------------
(***************************************************************************)
(* What an honest packager submits: an anchor put together by the          *)
(* operations of Packager from a header that more than half of a committee *)
(* signed, with the branches that its block and state have, and an         *)
(* envelope of reads that are true of that state and carry the trie nodes  *)
(* they need.  HonestServed is about these inputs; nothing here mentions a *)
(* step of the verifier.                                                   *)
(***************************************************************************)
EXTENDS Packager

(* The aggregate of the block at signature_slot is over attested. *)
SignedByCommittee(attested, signature_slot, bits) ==
  /\ signature_slot > attested.slot
  /\ compute_sync_committee_period_at_slot(signature_slot) \in DOMAIN Committees
  /\ bits \subseteq DOMAIN committee_of(signature_slot)
  /\ 2 * popcount(bits) > SYNC_COMMITTEE_SIZE(PRESET)
  /\ \A i \in bits :
       <<committee_of(signature_slot)[i], build_signing_root(attested, signature_slot)>> \in Signed

HonestHead(a) ==
  LET head == a.attested_header
  IN  /\ SignedByCommittee(head, a.signature_slot, a.sync_committee_bits)
      /\ a = base_optimistic_anchor(head, Payload(head), a.signature_slot, a.sync_committee_bits)

(* The state of the checkpoint keeps the roots of the last window of slots *)
(* in block_roots and the older ones in historical_summaries.              *)
InWindow(fin, block) == fin.slot - block.slot <= SLOTS_PER_HISTORICAL_ROOT

HonestFinalized(a) ==
  LET head  == a.attested_header
      block == a.read_block_header
      fin   == FinalizedAsOf(head)
      g     == finalized_root_gindex_for_attested_slot(head.slot)
      near  == near_ancestor(fin, block)
      deep  == deep_ancestor(fin, block)
  IN  /\ SignedByCommittee(head, a.signature_slot, a.sync_committee_bits)
      /\ \/ /\ block = fin
            /\ a = finalized_anchor(head, fin, block, Payload(block), a.signature_slot,
                                    a.sync_committee_bits, g, EmptyBranch)
         \/ /\ block # fin /\ InWindow(fin, block) /\ LeafAt(near.root, near.gindex) = block
            /\ a = build_finalized(head, fin, block, Payload(block), a.signature_slot,
                                   a.sync_committee_bits, g)
         \/ /\ block # fin /\ ~InWindow(fin, block) /\ LeafAt(deep.root, deep.gindex) = block
            /\ a = build_deep_ancestor(head, fin, block, Payload(block), a.signature_slot,
                                       a.sync_committee_bits, g)

(* The nodes on the way to key are among those of the proof. *)
Covers(proof, root, key) == root = EMPTY_TRIE_ROOT \/ <<root, key>> \in proof

Readable(value) == value # TRUNCATED /\ value \notin Undecodable

HonestRead(r, root) ==
  LET account == TrieContent(root, r.address)
  IN  /\ Claim(r, root)
      /\ Covers(r.account_proof, root, r.address) /\ Readable(account)
      /\ r.read_kind = STORAGE =>
           /\ Covers(r.storage_proof, account.storageRoot, r.slot)
           /\ Readable(TrieContent(account.storageRoot, r.slot))
      /\ r.declared_state_root \in {NONE, root}

(* Unsigned, or signed with the key that the client holds for the hint, if *)
(* it can be: a signature over a large contract's bytecode does not exist. *)
HonestEnvelope(e, a, finality_status) ==
  LET plain == make_envelope(a, e.reads, finality_status, e.provider_key_hint)
      known == <<e.provider_key_hint, SIG_ALG_ED25519>>
  IN  \/ e = plain
      \/ /\ known \in DOMAIN ProviderKeys /\ ProviderKeys[known] # NONE
         /\ ~envelope_root_raises([plain EXCEPT !.sig_alg = SIG_ALG_ED25519])
         /\ e = provider_sign(plain, ProviderKeys[known], SIG_ALG_ED25519)

(* The consensus layer allows a payload no more than 32 bytes of extra_data. *)
HonestPackage(e, a) ==
  /\ a.execution_header \notin LongExtraData
  /\ \/ HonestHead(a) /\ HonestEnvelope(e, a, OPTIMISTIC_HEAD)
     \/ HonestFinalized(a) /\ HonestEnvelope(e, a, FINALIZED)
  /\ \A j \in DOMAIN e.reads : HonestRead(e.reads[j], a.execution_header.state_root)

ASSUME HonestPackager == \A input \in HonestInputs : HonestPackage(input[1], input[2])
=============================================================================
