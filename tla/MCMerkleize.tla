---------------------------- MODULE MCMerkleize ----------------------------
(* Lists of at most five chunks, byte strings around one, two and three    *)
(* chunks, limits around the powers of two; and of every container one     *)
(* object, those that differ from it in one field, and the ones whose      *)
(* lists differ in length or in zero entries only.                         *)
EXTENDS Containers

Fill(n, byte) == [k \in 1 .. n |-> byte]
D(n)          == Chunk(Fill(BYTES_PER_CHUNK, n))

MCBytes32    == {ZeroChunk} \union {D(n) : n \in 1 .. 5}
MCNode       == {"n1", "n2", "n3"}
MCChunks     == {ZeroChunk, D(1), D(2)}
MCChunkLists == UNION {[1 .. n -> MCChunks] : n \in 0 .. 5}
MCDatas      == {Fill(n, byte) : n \in {0, 1, 2, 31, 32, 33, 63, 64, 65, 97}, byte \in {0, 1}}
                  \union {Fill(n, 1) \o Fill(m, 0) : n \in {1, 31, 32}, m \in {1, 2, 32}}

(* An object and its neighbours: alternatives maps fields to other values. *)
Neighbours(base, alternatives) ==
  {base} \union UNION {{[base EXCEPT ![f] = v] : v \in alternatives[f]} : f \in DOMAIN alternatives}

Lists == {<<>>, <<ZeroChunk>>, <<D(1)>>, <<D(1), ZeroChunk>>, <<ZeroChunk, D(1)>>,
          <<D(1), D(1)>>, [k \in 1 .. 5 |-> D(k)]}

AHeader  == [ZERO_HEADER EXCEPT !.slot = 257, !.proposer_index = 1, !.parent_root = D(1),
                               !.state_root = D(2), !.body_root = D(3)]
Headers == Neighbours(AHeader, [slot |-> {0, 1, 256, 65536}, proposer_index |-> {0, 257},
                               parent_root |-> {ZeroChunk, D(2)}, state_root |-> {D(1)},
                               body_root |-> {D(2)}]) \union {ZERO_HEADER}

AnExecution ==
  [type |-> "execution", parent_hash |-> D(1), fee_recipient |-> Fill(20, 1),
   state_root |-> D(2), receipts_root |-> D(1), logs_bloom |-> Fill(256, 1),
   prev_randao |-> D(1), block_number |-> 7, gas_limit |-> 7, gas_used |-> 7,
   timestamp |-> 7, extra_data |-> <<1>>, base_fee_per_gas |-> 7, block_hash |-> D(1),
   transactions_root |-> D(1), withdrawals_root |-> D(1), blob_gas_used |-> 7,
   excess_blob_gas |-> 7]
Numbers == {0, 8, 1792}
Executions == Neighbours(AnExecution,
  [parent_hash |-> {D(2)}, fee_recipient |-> {Fill(20, 0)}, state_root |-> {D(1)},
   receipts_root |-> {D(2)}, logs_bloom |-> {Fill(256, 0), [Fill(256, 1) EXCEPT ![256] = 2]},
   prev_randao |-> {D(2)}, block_number |-> Numbers, gas_limit |-> Numbers,
   gas_used |-> Numbers, timestamp |-> Numbers,
   extra_data |-> {<<>>, <<0>>, <<1, 0>>, Fill(32, 0)}, base_fee_per_gas |-> Numbers,
   block_hash |-> {D(2)}, transactions_root |-> {D(2)},
   withdrawals_root |-> {D(2)}, blob_gas_used |-> Numbers, excess_blob_gas |-> Numbers])

(* Committees of twelve, of 32 as in MINIMAL and of 512 as in MAINNET. *)
Committee(n, absent) == [i \in 1 .. n |-> i \notin absent]
AnAnchor ==
  [type |-> "anchor", attested_header |-> AHeader, signature_slot |-> 258,
   sync_committee_bits |-> Committee(32, {1}), sync_committee_signature |-> Fill(96, 1),
   read_block_header |-> AHeader, execution_header |-> AnExecution,
   execution_branch |-> <<D(1), D(2)>>, has_finality |-> TRUE,
   finalized_header |-> AHeader, finality_branch |-> <<D(1), D(2)>>,
   ancestor_proof |-> <<D(1)>>]
FinalityFields == [finalized_header |-> {ZERO_HEADER}, finality_branch |-> Lists,
                   ancestor_proof |-> Lists]
Empty == [AnAnchor EXCEPT !.finalized_header = ZERO_HEADER, !.finality_branch = <<>>,
                        !.ancestor_proof = <<>>]
Anchors ==
  Neighbours(AnAnchor,
    [attested_header |-> Headers, signature_slot |-> {257},
     sync_committee_bits |-> {Committee(32, s) : s \in {{}, {2}, {8}, {9}, {32}, 1 .. 32}}
                               \union {Committee(512, s) : s \in {{}, {1}, {257}, {512}}}
                               \union {Committee(12, {1}), Committee(16, {1} \union 13 .. 16), Committee(32, {1} \union 13 .. 32)},
     sync_committee_signature |-> {Fill(96, 0), [Fill(96, 1) EXCEPT ![96] = 2]},
     read_block_header |-> {ZERO_HEADER}, execution_header |-> Executions,
     execution_branch |-> Lists])
  \union Neighbours(AnAnchor, FinalityFields)
  \union Neighbours([AnAnchor EXCEPT !.has_finality = FALSE], FinalityFields)
  \union {Empty, [Empty EXCEPT !.has_finality = FALSE]}

ARead ==
  [type |-> "read", read_kind |-> 1, address |-> Fill(20, 1), slot |-> D(1), value |-> <<1>>,
   account_proof |-> <<"n1", "n2">>, storage_proof |-> <<"n1">>, presence |-> 0,
   declared_state_root |-> D(1)]
NodeLists == {<<>>, <<"n1">>, <<"n1", "n1">>, <<"n2", "n1">>, <<"n1", "n2", "n3">>}
Reads == Neighbours(ARead,
  [read_kind |-> {0, 3}, address |-> {Fill(20, 0)}, slot |-> {ZeroChunk},
   value |-> {<<>>, <<0>>, <<1, 0>>, <<0, 1>>, Fill(33, 1)}, account_proof |-> NodeLists,
   storage_proof |-> NodeLists, presence |-> {1}, declared_state_root |-> {NONE, D(2)}])

AnEnvelope ==
  [type |-> "envelope", version |-> 1, chain_id |-> 1, anchor_type |-> 0, settlement_layer |-> 1,
   block_number |-> 7, beacon_slot |-> 257, timestamp |-> 7, state_root |-> D(2),
   proof_format |-> <<0, 0, 0>>, finality_status |-> 1, anchor_ref |-> D(3),
   reads |-> <<ARead>>, sig_alg |-> 2, provider_sig |-> Fill(64, 1), provider_key_hint |-> <<5, 6>>]
Envelopes == Neighbours(AnEnvelope,
  [version |-> {0}, chain_id |-> {5}, anchor_type |-> {1}, settlement_layer |-> {5},
   block_number |-> Numbers, beacon_slot |-> {256}, timestamp |-> Numbers,
   state_root |-> {D(1)}, proof_format |-> {<<1, 0, 0>>, <<0, 1, 0>>, <<0, 0, 1>>},
   finality_status |-> {0}, anchor_ref |-> {D(2)},
   reads |-> {<<>>, <<ARead, ARead>>} \union {<<r>> : r \in Reads}
               \union {<<ARead, [ARead EXCEPT !.presence = 1]>>, <<[ARead EXCEPT !.presence = 1], ARead>>},
   sig_alg |-> {0, 1}, provider_sig |-> {<<>>, Fill(64, 0)},
   provider_key_hint |-> {<<>>, <<5>>, <<5, 6, 0>>}])

ASigning  == [type |-> "signing", header |-> AHeader, domain_type |-> <<7, 0, 0, 0>>,
             fork_version |-> <<5, 0, 0, 0>>, gvr |-> D(1)]
Signings == Neighbours(ASigning,
  [header |-> Headers, domain_type |-> {<<0, 0, 0, 0>>},
   fork_version |-> {<<4, 0, 0, 0>>, <<0, 0, 0, 5>>}, gvr |-> {ZeroChunk, D(2)}])

MCObjects == Headers \union Executions \union Anchors \union Reads \union Envelopes \union Signings
============================================================================
