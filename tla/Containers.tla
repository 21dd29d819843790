---------------------------- MODULE Containers ----------------------------
(***************************************************************************)
(* The containers whose hash_tree_root the reference implementation takes: *)
(* the two headers of src/reference/are_ssz.py and, from are_verify.py,    *)
(* the anchor (its root is the anchor_ref that step 2 compares), the read  *)
(* proof, the envelope that a provider signs, and the signing root of the  *)
(* sync committee.  hash_tree_root evaluates the field roots and then      *)
(* merkleizes them: Init calls Merkleize's loop with those chunks, and     *)
(* the roots of the fields are taken by the function it computes.          *)
(*                                                                         *)
(* A 32-byte digest is a chunk or the term of a hash.  Objects are records *)
(* with the attributes of the Python objects, and a field type; the fields *)
(* hold what the functions below accept without raising.                   *)
(***************************************************************************)
EXTENDS Merkleize

CONSTANTS
  Objects,        \* what hash_tree_root is called on
  NUMBER_BYTES,   \* bound on the bytes of a number; a uint64 has 8
  Bytes32,        \* digests that fields hold
  Node            \* nodes of Merkle-Patricia proofs

VARIABLE object   \* the object whose root is computed, or NONE

merkle_root(list, max) == PaddedRoot(list, levels(AtLeastOne(IF max = NONE THEN Len(list) ELSE max)))

---------------------------------------------------------------------------
(* Field roots (are_ssz.py) *)

(* Bytes filled with zero bytes up to a chunk. *)
Padded(bytes) == pack(bytes)[1]

little(x) == [k \in 1 .. NUMBER_BYTES |-> (x \div pow2[8 * (k - 1)]) % 256]

uint_root(x)        == Padded(little(x))
bytes20_root(b)     == Padded(b)
bytes32_root(chunk) == chunk

(* At least one chunk, of zero bytes if there are none. *)
OrZeroChunk(list) == IF list = <<>> THEN <<ZeroChunk>> ELSE list

bytevector_root(bytes)              == merkle_root(OrZeroChunk(pack(bytes)), NONE)
bytelist_root(bytes, limit_bytes)   ==
  mix_in_length(merkle_root(pack(bytes), AtLeastOne(CeilDiv(limit_bytes, BYTES_PER_CHUNK))),
                Len(bytes))

Bit(bits, i) == IF At(bits, i, FALSE) THEN 1 ELSE 0

(* Mutant of packed_bits: the first bit of a byte is its highest.          *)
packed_bits_big(bits) ==
  [j \in 1 .. CeilDiv(Len(bits), 8) |->
     LET b(i) == Bit(bits, 8 * (j - 1) + i)
     IN  128 * b(1) + 64 * b(2) + 32 * b(3) + 16 * b(4) + 8 * b(5) + 4 * b(6) + 2 * b(7) + b(8)]

(* Bit i of the vector, from 0, is bit i % 8 of byte i / 8. *)
packed_bits(bits) ==
  [j \in 1 .. CeilDiv(Len(bits), 8) |->
     LET b(i) == Bit(bits, 8 * (j - 1) + i)
     IN  b(1) + 2 * b(2) + 4 * b(3) + 8 * b(4) + 16 * b(5) + 32 * b(6) + 64 * b(7) + 128 * b(8)]

bitvector_root(bits) == bytevector_root(packed_bits(bits))

(* How are_real_vectors.py reads the bits of a fetched sync aggregate. *)
bits_from_hex(bytes, size) ==
  [i \in 1 .. size |-> (bytes[(i - 1) \div 8 + 1] \div pow2[(i - 1) % 8]) % 2 = 1]

---------------------------------------------------------------------------
(* Containers: the chunks each hands to merkleize. *)

header_chunks(h) ==
  <<uint_root(h.slot), uint_root(h.proposer_index), bytes32_root(h.parent_root),
    bytes32_root(h.state_root), bytes32_root(h.body_root)>>

header_root(h) == merkle_root(header_chunks(h), NONE)

Zero32       == ZeroChunk
ZERO_HEADER  == [type |-> "header", slot |-> 0, proposer_index |-> 0, parent_root |-> Zero32,
                 state_root |-> Zero32, body_root |-> Zero32]

MAX_EXTRA_DATA_BYTES == 32

execution_chunks(x) ==
  <<bytes32_root(x.parent_hash), bytes20_root(x.fee_recipient), bytes32_root(x.state_root),
    bytes32_root(x.receipts_root), bytevector_root(x.logs_bloom), bytes32_root(x.prev_randao),
    uint_root(x.block_number), uint_root(x.gas_limit), uint_root(x.gas_used),
    uint_root(x.timestamp), bytelist_root(x.extra_data, MAX_EXTRA_DATA_BYTES),
    uint_root(x.base_fee_per_gas), bytes32_root(x.block_hash),
    bytes32_root(x.transactions_root), bytes32_root(x.withdrawals_root),
    uint_root(x.blob_gas_used), uint_root(x.excess_blob_gas)>>

execution_root(x) == merkle_root(execution_chunks(x), NONE)

MAX_BRANCH == 64
MAX_NODES  == 64
MAX_READS  == 256

(* Mutant of anchor_chunks: the presence of finality is not hashed.        *)
anchor_chunks_flagless(a) ==
  LET final == a.has_finality
  IN  <<header_root(a.attested_header), uint_root(a.signature_slot),
        bitvector_root(a.sync_committee_bits), bytevector_root(a.sync_committee_signature),
        header_root(a.read_block_header), execution_root(a.execution_header),
        merkle_root(a.execution_branch, MAX_BRANCH),
        uint_root(0),
        header_root(IF final THEN a.finalized_header ELSE ZERO_HEADER),
        merkle_root(IF final THEN a.finality_branch ELSE <<>>, MAX_BRANCH),
        merkle_root(IF final THEN a.ancestor_proof ELSE <<>>, MAX_BRANCH)>>

(* The lengths of the three lists are not mixed in. *)
anchor_chunks(a) ==
  LET final == a.has_finality
  IN  <<header_root(a.attested_header), uint_root(a.signature_slot),
        bitvector_root(a.sync_committee_bits), bytevector_root(a.sync_committee_signature),
        header_root(a.read_block_header), execution_root(a.execution_header),
        merkle_root(a.execution_branch, MAX_BRANCH),
        uint_root(IF final THEN 1 ELSE 0),
        header_root(IF final THEN a.finalized_header ELSE ZERO_HEADER),
        merkle_root(IF final THEN a.finality_branch ELSE <<>>, MAX_BRANCH),
        merkle_root(IF final THEN a.ancestor_proof ELSE <<>>, MAX_BRANCH)>>

keccak256(node) == [keccak |-> node]
node_roots(proof) == merkle_root(OrZeroChunk([k \in DOMAIN proof |-> keccak256(proof[k])]), MAX_NODES)

read_proof_chunks(r) ==
  <<uint_root(r.read_kind), bytes20_root(r.address), bytes32_root(r.slot),
    bytelist_root(r.value, 128), node_roots(r.account_proof), node_roots(r.storage_proof),
    uint_root(r.presence)>>

read_proof_root(r) == merkle_root(read_proof_chunks(r), NONE)

(* provider_sig is hashed as the empty byte list. *)
envelope_chunks(e) ==
  LET read_roots == [k \in DOMAIN e.reads |-> read_proof_root(e.reads[k])]
  IN  <<uint_root(e.version), uint_root(e.chain_id), uint_root(e.anchor_type),
        uint_root(e.settlement_layer), uint_root(e.block_number), uint_root(e.beacon_slot),
        uint_root(e.timestamp), bytes32_root(e.state_root),
        merkle_root([k \in 1 .. 3 |-> uint_root(e.proof_format[k])], NONE),
        uint_root(e.finality_status), bytes32_root(e.anchor_ref),
        mix_in_length(merkle_root(OrZeroChunk(read_roots), MAX_READS), Len(e.reads)),
        uint_root(e.sig_alg), bytelist_root(<<>>, 256), bytelist_root(e.provider_key_hint, 256)>>

(* The domain is four bytes of type and the first 28 of fork_data_root,    *)
(* which still tell two roots apart.                                       *)
compute_domain(domain_type, fork_version, gvr) ==
  [domain_type |-> domain_type,
   fork_data |-> merkle_root(<<Padded(fork_version), bytes32_root(gvr)>>, NONE)]

signing_chunks(s) ==
  <<header_root(s.header), compute_domain(s.domain_type, s.fork_version, s.gvr)>>

Chunks(o) ==
  CASE o.type = "header"    -> header_chunks(o)
    [] o.type = "execution" -> execution_chunks(o)
    [] o.type = "anchor"    -> anchor_chunks(o)
    [] o.type = "read"      -> read_proof_chunks(o)
    [] o.type = "envelope"  -> envelope_chunks(o)
    [] o.type = "signing"   -> signing_chunks(o)

---------------------------------------------------------------------------
(* The objects, field by field. *)

Number        == 0 .. pow2[8 * NUMBER_BYTES] - 1
Vector(n)     == [1 .. n -> Byte]
List(S, max)  == {list \in Seq(S) : Len(list) <= max}
Branch        == List(Bytes32, MAX_BRANCH)
MAX_BITS      == 8 * pow2[MAX_DEPTH]     \* bound on the size of a committee

BeaconBlockHeader ==
  [type : {"header"}, slot : Number, proposer_index : Number, parent_root : Bytes32,
   state_root : Bytes32, body_root : Bytes32]
ExecutionPayloadHeader ==
  [type : {"execution"}, parent_hash : Bytes32, fee_recipient : Vector(20), state_root : Bytes32,
   receipts_root : Bytes32, logs_bloom : Vector(256), prev_randao : Bytes32, block_number : Number,
   gas_limit : Number, gas_used : Number, timestamp : Number,
   extra_data : List(Byte, MAX_EXTRA_DATA_BYTES), base_fee_per_gas : Number,
   block_hash : Bytes32, transactions_root : Bytes32, withdrawals_root : Bytes32,
   blob_gas_used : Number, excess_blob_gas : Number]
ConsensusAnchor ==
  [type : {"anchor"}, attested_header : BeaconBlockHeader, signature_slot : Number,
   sync_committee_bits : List(BOOLEAN, MAX_BITS), sync_committee_signature : Vector(96),
   read_block_header : BeaconBlockHeader, execution_header : ExecutionPayloadHeader,
   execution_branch : Branch, has_finality : BOOLEAN, finalized_header : BeaconBlockHeader,
   finality_branch : Branch, ancestor_proof : Branch]
ReadProof ==
  [type : {"read"}, read_kind : Number, address : Vector(20), slot : Bytes32,
   value : List(Byte, 128), account_proof : List(Node, MAX_NODES),
   storage_proof : List(Node, MAX_NODES), presence : Number,
   declared_state_root : Bytes32 \union {NONE}]
Envelope ==
  [type : {"envelope"}, version : Number, chain_id : Number, anchor_type : Number,
   settlement_layer : Number, block_number : Number, beacon_slot : Number, timestamp : Number,
   state_root : Bytes32, proof_format : [1 .. 3 -> Number], finality_status : Number,
   anchor_ref : Bytes32, reads : List(ReadProof, MAX_READS), sig_alg : Number,
   provider_sig : Seq(Byte), provider_key_hint : List(Byte, 256)]
SigningData ==
  [type : {"signing"}, header : BeaconBlockHeader, domain_type : Vector(4),
   fork_version : Vector(4), gvr : Bytes32]

(* A chunk holds an address or a number, and the tree of the most reads is *)
(* not higher than the precomputed zero subtrees.                          *)
ASSUME ObjectsAssumption ==
  /\ Objects \subseteq BeaconBlockHeader \union ExecutionPayloadHeader \union ConsensusAnchor
                        \union ReadProof \union Envelope \union SigningData
  /\ NUMBER_BYTES \in 1 .. BYTES_PER_CHUNK /\ 20 <= BYTES_PER_CHUNK
  /\ MAX_READS <= pow2[MAX_DEPTH]

---------------------------------------------------------------------------
RootInit ==
  \/ Init /\ object = NONE
  \/ /\ object \in Objects
     /\ pc = "call" /\ data = NONE
     /\ chunks = Chunks(object) /\ limit = NONE
     /\ cur = <<>> /\ depth = 0 /\ result = NONE

RootNext == Next /\ UNCHANGED object
RootSpec == RootInit /\ [][RootNext]_<<vars, object>> /\ WF_<<vars, object>>(RootNext)

---------------------------------------------------------------------------
(* Properties *)

Roots == [o \in Objects |-> merkle_root(Chunks(o), NONE)]

WithoutTrailing(list, zero) ==
  SubSeq(list, 1, CHOOSE n \in 0 .. Len(list) :
                    /\ n > 0 => list[n] # zero
                    /\ \A k \in n + 1 .. Len(list) : list[k] = zero)

Height(bits) == levels(AtLeastOne(CeilDiv(CeilDiv(Len(bits), 8), BYTES_PER_CHUNK)))

(* What a root is meant to identify: all of an object but the signature of *)
(* an envelope, a read's declared state root, and the finality fields of   *)
(* an anchor without finality.  The three lists of an anchor, hashed       *)
(* without their length, are identified up to zero digests at their end;   *)
(* so are its bits, up to absent members at their end that do not change   *)
(* the height of their tree.                                               *)
Identified(o) ==
  LET bare(r)    == [r EXCEPT !.declared_state_root = NONE]
      kept(list) == IF o.has_finality THEN WithoutTrailing(list, ZeroChunk) ELSE <<>>
  IN  CASE o.type = "anchor" ->
             [o EXCEPT !.sync_committee_bits = <<WithoutTrailing(@, FALSE), Height(@)>>,
                       !.execution_branch = WithoutTrailing(@, ZeroChunk),
                       !.finalized_header = IF o.has_finality THEN @ ELSE ZERO_HEADER,
                       !.finality_branch  = kept(@), !.ancestor_proof = kept(@)]
        [] o.type = "envelope" ->
             [o EXCEPT !.provider_sig = <<>>, !.reads = [k \in DOMAIN @ |-> bare(@[k])]]
        [] o.type = "read" -> bare(o)
        [] OTHER -> o

(* A root is the root of one object: two anchors with one anchor_ref, two  *)
(* envelopes under one provider signature, two headers or forks under one  *)
(* committee signature agree in every field the root identifies, and in    *)
(* nothing else do they have to.                                           *)
RootIdentifies ==
  pc = "done" /\ object # NONE =>
    \A other \in Objects :
      other.type = object.type =>
        (Roots[other] = result <=> Identified(other) = Identified(object))

(* The bits of a committee come back from the bytes they are packed into,  *)
(* whole bytes or not: the bits the signature is checked against are those *)
(* the anchor_ref commits to.                                              *)
BitsRoundTrip ==
  object # NONE /\ object.type = "anchor" =>
    LET bits == object.sync_committee_bits
    IN  bits_from_hex(packed_bits(bits), Len(bits)) = bits
===========================================================================
