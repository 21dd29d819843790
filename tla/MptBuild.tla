----------------------------- MODULE MptBuild -----------------------------
(***************************************************************************)
(* The synthetic tries of src/reference/are_mpt.py: build_two_account_trie *)
(* and build_two_storage_trie make the same shape, one branch node over    *)
(* two leaves, from two keys that differ in their first nibble, and return *)
(* a proof for each key.  What the vectors need of those proofs is asked   *)
(* of the walk of MptWalk.                                                 *)
(***************************************************************************)
EXTENDS MptWalk

CONSTANT Builds   \* calls of the builders: two keys, two values, three hashes

(* _leaf_node: _decode_hp undoes the packing (PathsReturn), so a leaf is   *)
(* its nibbles and its value.                                              *)
leaf_node(remaining, value) == [kind |-> "leaf", path |-> remaining, value |-> value]

(* The trie under the three hashes h.branch, h.a and h.b. *)
build_two_trie(h, ka, va, kb, vb) ==
  LET hash(n) == [type |-> "hash", node |-> n]
      branch == [kind  |-> "branch",
                 child |-> [x \in Nibble |-> CASE x = ka[1] -> hash(h.a)
                                               [] x = kb[1] -> hash(h.b)
                                               [] OTHER -> [type |-> "empty", node |-> h.branch]],
                 value |-> NoValue]
  IN  [n \in {h.branch, h.a, h.b} |->
         CASE n = h.branch -> branch
           [] n = h.a -> leaf_node(Tail(ka), va)
           [] n = h.b -> leaf_node(Tail(kb), vb)]

proof_a(h) == {h.branch, h.a}

(* Mutant of proof_b: the leaf of the other key.                           *)
proof_b_swapped(h) == {h.branch, h.a}
proof_b(h) == {h.branch, h.b}

(* A key is a whole hash.  The builder asserts that its keys differ in     *)
(* their first nibble; their leaves differ, and nodes that differ have     *)
(* different hashes; the values are encoded by the code that decodes them. *)
ASSUME BuildsAssumption ==
  /\ KeyLen # 0 /\ Keys \subseteq [1 .. KeyLen -> Nibble]
  /\ \A b \in Builds :
       LET h    == b.hashes
           trie == build_two_trie(h, b.ka, b.va, b.kb, b.vb)
       IN  /\ {b.ka, b.kb} \subseteq [1 .. KeyLen -> Nibble] /\ b.ka[1] # b.kb[1]
           /\ \A n \in DOMAIN trie : n \in Node \ {EMPTY_TRIE_ROOT} /\ Trie[n] = trie[n]
           /\ h.branch # h.a /\ h.branch # h.b /\ h.a # h.b
           /\ {b.va, b.vb} \cap Undecodable = {}

(* A proof made for a key is accepted for that key with its value, shows   *)
(* that every key on its own or on an unused branch slot is absent, and    *)
(* says nothing about the other key.                                       *)
Serves(proofOf, own, value, other, h) ==
  (answer # Pending /\ root = h.branch /\ proof = proofOf) =>
    /\ key = own /\ api \in Inclusion => answer = [type |-> "found", value |-> value]
    /\ key # own /\ key[1] # other[1] /\ api \notin Inclusion => answer.type = "True"
    /\ key[1] = other[1] => answer.type \in {"None", "False"}

(* The proofs that the builders return do what the vectors need.           *)
GeneratedProofServes ==
  \A b \in Builds :
    /\ Serves(proof_a(b.hashes), b.ka, b.va, b.kb, b.hashes)
    /\ Serves(proof_b(b.hashes), b.kb, b.vb, b.ka, b.hashes)
===========================================================================
