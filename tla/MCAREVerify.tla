---------------------------- MODULE MCAREVerify ----------------------------
(***************************************************************************)
(* A small world for AREVerify: beacon blocks at slots 0..5 and 7, two     *)
(* slots per epoch, two epochs per committee period, two slots per history *)
(* window; Electra starts at slot 4.  Eight seats per committee, so five   *)
(* make a quorum and four are exactly half.  Slot 6 is skipped by the      *)
(* canonical chain, but has a block that half of a committee has signed.   *)
(***************************************************************************)
EXTENDS HonestPackages, AREClaims, TLC

CONSTANTS p1, p2, mainnet, testnet, torn

MCForkSchedule == <<[epoch |-> 0, name |-> "deneb"], [epoch |-> 2, name |-> "electra"]>>

(* Validators 1..8 sit in the committee of period 0, 5..12 in the next.    *)
MCCommittees == [period \in 0 .. 1 |-> [seat \in 1 .. 8 |-> 4 * period + seat]]

---------------------------------------------------------------------------
(* Blocks *)

Canonical == (0 .. 5) \union {7}    \* a block is named by its slot
Orphan    == 6

Block(n)    == [slot |-> n, state_root |-> <<"state", n>>, body_root |-> <<"body", n>>]
Exec(n)     == [state_root |-> <<"exec", n>>, block_number |-> 10 + n, timestamp |-> n]
MCChain     == {Block(n) : n \in Canonical}
MCZero      == [slot |-> 0, state_root |-> NONE, body_root |-> NONE]

Latest(slot) == Max({n \in Canonical : n <= slot})
Finalized(n) == IF n <= 1 THEN 0 ELSE Latest(n - 1)

Deep(m) == historical_summaries_leaf_gindex(m \div SLOTS_PER_HISTORICAL_ROOT,
                                            m % SLOTS_PER_HISTORICAL_ROOT)

(* The leaves of the state of block n: its checkpoint, the block roots of  *)
(* the last window and those of the complete windows before it.            *)
StateLeaves ==
  [n \in Canonical \union {Orphan} |->
     LET recent == {m \in 0 .. n - 1 : m >= n - SLOTS_PER_HISTORICAL_ROOT}
         old == {m \in 0 .. n - 1 :
                   SLOTS_PER_HISTORICAL_ROOT * (m \div SLOTS_PER_HISTORICAL_ROOT + 1) <= n}
         checkpoint == finalized_root_gindex_for_attested_slot(n) :> Block(Finalized(n))
         roots == {<<block_roots_leaf_gindex(m % SLOTS_PER_HISTORICAL_ROOT), Block(Latest(m))>> :
                     m \in recent}
                    \union {<<Deep(m), Block(Latest(m))>> : m \in old}
     IN  checkpoint @@ [g \in {x[1] : x \in roots} |-> (CHOOSE x \in roots : x[1] = g)[2]]]

StateLeaf(n, gindex) ==
  IF gindex \in DOMAIN StateLeaves[n] THEN StateLeaves[n][gindex] ELSE NONE

MCLeafAt(root, gindex) ==
  IF root = NONE THEN NONE
  ELSE IF root[1] = "body" THEN IF gindex = EXECUTION_PAYLOAD_GINDEX THEN Exec(root[2]) ELSE NONE
  ELSE StateLeaf(root[2], gindex)

---------------------------------------------------------------------------
(* Execution state: account "a" changes with the block, "e" has no         *)
(* storage, "t" does not decode, every other account is absent.            *)

Bytes(n)  == be_trim(n)
Code      == [num |-> 7, zeros |-> 1]
NoCode    == EmptyBytes

MCTrieAt(root, key) ==
  IF root[1] = "exec"
    THEN CASE key = "a" -> [nonce |-> 1, balance |-> 100 + root[2],
                            storageRoot |-> <<"storage", root[2]>>, codeHash |-> Code]
           [] key = "e" -> [nonce |-> 0, balance |-> 0,
                            storageRoot |-> EMPTY_TRIE_ROOT, codeHash |-> NoCode]
           [] key = "t" -> torn
           [] OTHER -> ABSENT
    ELSE CASE key = "p" -> 40 + root[2]
           [] key = "t" -> torn
           [] OTHER -> ABSENT

AccountProof(n, address) == {<<<<"exec", n>>, address>>}
StorageProof(n, slot)    == {<<<<"storage", n>>, slot>>}

---------------------------------------------------------------------------
(* Signatures: the aggregate in the block at signature_slot is over the    *)
(* head at the slot before; the block at 7 also gets four votes for the    *)
(* orphan.                                                                 *)

MCSigned ==
  {<<k, build_signing_root(Block(Latest(s - 1)), s)>> : k \in 1 .. 12, s \in 1 .. 9}
    \union {<<k, build_signing_root(Block(Orphan), 7)>> : k \in 5 .. 8}

---------------------------------------------------------------------------
(* Packages about block n *)

Seats == 1 .. 5

Optimistic(n, signature_slot, bits) ==
  base_optimistic_anchor(Block(n), Exec(n), signature_slot, bits)

(* A finalized package of head n about the block at m. *)
FinalizedAnchor(n, m) ==
  LET fin == Finalized(n)
      signature_slot == IF n = 5 THEN 7 ELSE n + 1
      g == finalized_root_gindex_for_attested_slot(n)
  IN  IF fin = m
        THEN finalized_anchor(Block(n), Block(fin), Block(m), Exec(m), signature_slot, Seats, g, EmptyBranch)
      ELSE IF fin - m <= SLOTS_PER_HISTORICAL_ROOT
        THEN build_finalized(Block(n), Block(fin), Block(m), Exec(m), signature_slot, Seats, g)
        ELSE build_deep_ancestor(Block(n), Block(fin), Block(m), Exec(m), signature_slot, Seats, g)

Envelope(a, finality_status, reads) == make_envelope(a, reads, finality_status, "hint")

---------------------------------------------------------------------------
(* Reads at block n *)

Read(n, kind, address, slot, value, presence) ==
  read_proof(kind, address, slot, value, AccountProof(n, address),
             IF kind = STORAGE THEN StorageProof(n, slot) ELSE {}, presence)

Balance(n) == balance_read("a", 100 + n, AccountProof(n, "a"))

(* The contract's bytecode, a proof with many nodes that no lookup needs    *)
(* and one of the hints are too long to be hashed.                          *)
WithMoreNodes(proof) == proof \union {<<<<"exec", 0>>, "x">>}

MCLongValues    == {Code}
MCLongProofs    == {WithMoreNodes(AccountProof(5, "a")), WithMoreNodes(StorageProof(5, "p"))}
MCLongHints     == {"long hint"}
MCLongExtraData == {Exec(8)}

TrueReads(n) ==
  {Balance(n),
   Read(n, NONCE, "a", "zero", Bytes(1), 0),
   Read(n, CODE, "a", "zero", Code, 0),
   Read(n, CODE, "e", "zero", NoCode, 0),
   [Balance(n) EXCEPT !.account_proof = WithMoreNodes(@)],
   [Read(n, STORAGE, "a", "p", Bytes(40 + n), 0) EXCEPT !.storage_proof = WithMoreNodes(@)],
   Read(n, STORAGE, "a", "p", Bytes(40 + n), 0),
   Read(n, STORAGE, "a", "q", EmptyBytes, 1),
   Read(n, STORAGE, "e", "p", EmptyBytes, 1),
   Read(n, BALANCE, "e", "zero", EmptyBytes, 0),
   Read(n, BALANCE, "x", "zero", EmptyBytes, 1),
   [Balance(n) EXCEPT !.declared_state_root = <<"exec", n>>]}

(* Reads that differ from a true one in a field, or whose proof is cut.    *)
OddReads(n) ==
  {[Balance(n) EXCEPT !.value = Bytes(100)],
   [Balance(n) EXCEPT !.value.zeros = 1],
   [Balance(n) EXCEPT !.presence = 1],
   [Balance(n) EXCEPT !.presence = 1, !.value = EmptyBytes],
   [Balance(n) EXCEPT !.read_kind = 9],
   [Balance(n) EXCEPT !.account_proof = AccountProof(n - 1, "a")],
   [Balance(n) EXCEPT !.account_proof = {}, !.presence = 1, !.value = EmptyBytes],
   [Balance(n) EXCEPT !.declared_state_root = <<"exec", n - 1>>],
   Read(n, BALANCE, "x", "zero", EmptyBytes, 0),
   Read(n, BALANCE, "x", "zero", Bytes(5), 1),
   Read(n, NONCE, "a", "zero", Bytes(2), 0),
   Read(n, CODE, "a", "zero", NoCode, 0),
   Read(n, STORAGE, "a", "p", Bytes(40), 0),
   Read(n, STORAGE, "a", "q", EmptyBytes, 0),
   Read(n, STORAGE, "a", "p", EmptyBytes, 1),
   Read(n, STORAGE, "x", "p", EmptyBytes, 1),
   [Read(n, STORAGE, "a", "p", EmptyBytes, 1) EXCEPT !.storage_proof = {}],
   Read(n, BALANCE, "t", "zero", EmptyBytes, 0),
   Read(n, STORAGE, "t", "p", EmptyBytes, 1),
   Read(n, STORAGE, "a", "t", EmptyBytes, 0),
   Read(n, BALANCE, "t", "zero", EmptyBytes, 1)}

---------------------------------------------------------------------------
(* Inputs *)

Pack(a, finality_status, reads) == <<Envelope(a, finality_status, reads), a>>

Head5 == Optimistic(5, 7, Seats)
Reads5(reads) == Pack(Head5, OPTIMISTIC_HEAD, reads)

OptimisticInputs ==
  {Pack(Optimistic(d[1], d[2], 1 .. 8), OPTIMISTIC_HEAD, <<Balance(d[1])>>) :
     d \in {<<2, 3>>, <<3, 4>>, <<4, 5>>}}

FinalizedInputs ==
  {Pack(FinalizedAnchor(d[1], d[2]), FINALIZED, <<Balance(d[2])>>) :
     d \in {<<3, 2>>, <<3, 1>>, <<3, 0>>, <<5, 4>>, <<5, 3>>, <<5, 2>>, <<5, 1>>, <<5, 0>>}}

ReadInputs ==
  {Reads5(<<r>>) : r \in TrueReads(5)}
    \union {Reads5(<<Balance(5), Read(5, STORAGE, "a", "p", Bytes(45), 0)>>)}

SignedInputs ==
  {<<provider_sign(Reads5(<<r>>)[1], p1, SIG_ALG_ED25519), Head5>> :
     r \in {r \in TrueReads(5) : ~read_root_raises(r)}}

(* Served unsigned only: a read or the hint is too long to be hashed. *)
LongHintInput == <<make_envelope(Head5, <<Balance(5)>>, OPTIMISTIC_HEAD, "long hint"), Head5>>

LongInputs ==
  {Reads5(<<r>>) : r \in {r \in TrueReads(5) : read_root_raises(r)}}
    \union {LongHintInput, Reads5(<<Balance(5), Balance(5), Balance(5)>>)}

MCHonestInputs ==
  OptimisticInputs \union FinalizedInputs \union ReadInputs \union SignedInputs \union LongInputs

(* A signature over them could only be made up. *)
SignedLongInputs ==
  {<<[input[1] EXCEPT !.sig_alg = SIG_ALG_ED25519, !.provider_sig.key = p1], input[2]>> :
     input \in LongInputs}

OddReadInputs ==
  {Reads5(<<r>>) : r \in OddReads(5)}
    \union {Reads5(<<Balance(5), r>>) : r \in {[Balance(5) EXCEPT !.value = Bytes(1)],
                                              [Balance(5) EXCEPT !.declared_state_root = NONE],
                                              [Balance(5) EXCEPT !.declared_state_root = <<"exec", 4>>]}}
    \union {Reads5(<<>>)}

(* Anchors that differ from an honest one in a field, correctly referenced. *)
OddAnchors ==
  LET f == FinalizedAnchor(5, 3)
      g == FinalizedAnchor(5, 4)
  IN  {Optimistic(5, 7, 1 .. 4),
       [Head5 EXCEPT !.sync_committee_bits = 1 .. 6],
       [Head5 EXCEPT !.sync_committee_bits = (1 .. 5) \union {9}],
       [Head5 EXCEPT !.signature_slot = 5],
       [Head5 EXCEPT !.signature_slot = 9],
       [Head5 EXCEPT !.attested_header = Block(4)],
       [Head5 EXCEPT !.sync_committee_signature.root.domain.gvr = testnet],
       [Head5 EXCEPT !.execution_header = Exec(4)],
       [Head5 EXCEPT !.execution_header = Exec(Orphan)],
       [Head5 EXCEPT !.execution_branch.gindex = 24],
       [Head5 EXCEPT !.execution_branch.extra = "zero"],
       [Head5 EXCEPT !.execution_branch.extra = "more"],
       [Head5 EXCEPT !.execution_branch.extra = "oversized"],
       [Head5 EXCEPT !.read_block_header = Block(Orphan), !.execution_header = Exec(Orphan),
                     !.execution_branch.root = <<"body", Orphan>>],
       [Head5 EXCEPT !.has_finality = TRUE],
       [Head5 EXCEPT !.finalized_header = Block(4)],
       Optimistic(Orphan, 7, 1 .. 4),
       [Optimistic(Orphan, 7, Seats) EXCEPT !.sync_committee_signature = Head5.sync_committee_signature],
       Optimistic(Orphan, 7, Seats),
       [f EXCEPT !.has_finality = FALSE],
       [f EXCEPT !.finalized_header = Block(Orphan)],
       [f EXCEPT !.finalized_header = Block(2)],
       [f EXCEPT !.finality_branch.gindex = FINALIZED_ROOT_GINDEX_PRE_ELECTRA],
       [f EXCEPT !.finality_branch.extra = "oversized"],
       [f EXCEPT !.ancestor_proof = EmptyBranch],
       [f EXCEPT !.ancestor_proof.gindex = historical_summaries_leaf_gindex(1, 1)],
       [g EXCEPT !.ancestor_proof = near_ancestor(Block(5), Block(4))],
       [g EXCEPT !.read_block_header = Block(5), !.execution_header = Exec(5),
                 !.execution_branch.root = <<"body", 5>>, !.finalized_header = Block(7),
                 !.ancestor_proof = near_ancestor(Block(7), Block(5))],
       [f EXCEPT !.read_block_header = Block(Orphan), !.execution_header = Exec(Orphan),
                 !.execution_branch.root = <<"body", Orphan>>]}

(* The envelope fits whatever payload the anchor carries; a finality       *)
(* status that the specification does not define is among the claims.      *)
NumberOf(a) == CHOOSE n \in Canonical \union {Orphan} : Exec(n) = a.execution_header
OddAnchorInputs ==
  {Pack(a, status, <<Balance(NumberOf(a))>>) :
     a \in OddAnchors, status \in {OPTIMISTIC_HEAD, FINALIZED, 2}}

OddEnvelopeInputs ==
  LET e == Reads5(<<Balance(5)>>)[1]
      signed == provider_sign(e, p1, SIG_ALG_ED25519)
  IN  {<<x, Head5>> : x \in
        {[e EXCEPT !.chain_id = testnet], [e EXCEPT !.anchor_type = 1],
         [e EXCEPT !.version = 2], [e EXCEPT !.proof_format = <<0, 1, 0>>],
         [e EXCEPT !.block_number = 14], [e EXCEPT !.beacon_slot = 4],
         [e EXCEPT !.timestamp = 4], [e EXCEPT !.state_root = <<"exec", 4>>],
         [e EXCEPT !.anchor_ref = anchor_hash_tree_root(Optimistic(5, 6, Seats))],
         provider_sign(e, p2, SIG_ALG_ED25519), provider_sign(e, p1, 1), provider_sign(e, p1, 3),
         [e EXCEPT !.sig_alg = SIG_ALG_ED25519],
         [signed EXCEPT !.provider_key_hint = "other"], [signed EXCEPT !.settlement_layer = testnet],
         [signed EXCEPT !.reads = <<Read(5, NONCE, "a", "zero", Bytes(1), 0)>>],
         [signed EXCEPT !.provider_sig.msg.beacon_slot = 4]}}

LongHeaderInput == Pack([Head5 EXCEPT !.execution_header = Exec(8)], OPTIMISTIC_HEAD, <<Balance(5)>>)

MCInputs ==
  MCHonestInputs \union OddReadInputs \union OddAnchorInputs \union OddEnvelopeInputs
    \union SignedLongInputs \union {LongHeaderInput}

MCProviderKeys == <<"hint", SIG_ALG_ED25519>> :> p1
============================================================================
