------------------------------ MODULE MptWalk ------------------------------
(***************************************************************************)
(* The hexary Merkle-Patricia proof walk of src/reference/are_mpt.py:      *)
(* _walk, _next_ref and the four verify_{account,storage}_{inclusion,      *)
(* exclusion} functions around it.                                         *)
(*                                                                         *)
(* keccak256 is collision free, so a node is named by its hash.  Trie maps *)
(* every hash with a known preimage to the decoded node:                   *)
(*   [kind |-> "branch", child |-> nibble -> reference, value |-> value]   *)
(*   [kind |-> "extension", path |-> nibbles, child |-> reference]         *)
(*   [kind |-> "leaf", path |-> nibbles, value |-> value]                  *)
(*   [kind |-> "malformed"]     a list of another length, or no list at all*)
(*   [kind |-> "undecodable"]   rlp_decode or _decode_hp fails on it with  *)
(*                              an AssertionError or an IndexError         *)
(* A reference is [type, node], where type says how the child item is      *)
(* written: "hash" (32 bytes), "inlined" (a nested list), "empty" or       *)
(* "short" (a byte string of another length).                              *)
(***************************************************************************)
EXTENDS Integers, Sequences, SequencesExt

CONSTANTS
  Nibble,            \* 0..15 in the code
  KeyLen,            \* nibbles in a hashed key: 64 in the code
  Node, Trie,        \* known hashes, and the nodes they are the hashes of
  EMPTY_TRIE_ROOT,   \* the hash of the empty trie
  Content,           \* what a (sub)trie holds at a key suffix
  Keys, Proofs, Roots,  \* the arguments callers may pass
  ABSENT, NoValue,
  Undecodable        \* values that decode_account / rlp_decode raise on

Suffix == UNION {[1 .. k -> Nibble] : k \in 0 .. KeyLen}

Drop(p, n) == [j \in 1 .. Len(p) - n |-> p[j + n]]

---------------------------------------------------------------------------
(* What a Merkle-Patricia trie means.  Content[n][p] is the value that the *)
(* subtrie under node n holds for the remaining nibbles p, or ABSENT; the  *)
(* assumption is the definition of the data structure, node by node.       *)

ContentAt(n, p) == IF n = EMPTY_TRIE_ROOT THEN ABSENT ELSE Content[n][p]

ASSUME KeysAssumption ==
  /\ KeyLen \in Nat
  /\ Keys \subseteq Suffix
  /\ \A proof \in Proofs : proof \subseteq Node

ASSUME TrieAssumption ==
  \A n \in DOMAIN Trie : LET t == Trie[n] IN
    /\ t.kind \in {"extension", "leaf"} => Len(t.path) \in Nat
    /\ \A p \in Suffix :
        /\ t.kind = "leaf" => Content[n][p] = IF p = t.path THEN t.value ELSE ABSENT
        /\ t.kind = "extension" =>
             /\ ~IsPrefix(t.path, p) => Content[n][p] = ABSENT
             /\ IsPrefix(t.path, p) /\ t.child.type \in {"hash", "inlined"} =>
                  Content[n][p] = ContentAt(t.child.node, Drop(p, Len(t.path)))
        /\ t.kind = "branch" =>
             /\ Len(p) = 0 => Content[n][p] = IF t.value = NoValue THEN ABSENT ELSE t.value
             /\ Len(p) > 0 /\ t.child[p[1]].type = "empty" => Content[n][p] = ABSENT
             /\ Len(p) > 0 /\ t.child[p[1]].type \in {"hash", "inlined"} =>
                  Content[n][p] = ContentAt(t.child[p[1]].node, Drop(p, 1))

(* An inlined child carries its own preimage, which is a list and so not   *)
(* the empty string that EMPTY_TRIE_ROOT is the hash of.                   *)
ASSUME NodeAssumption ==
  /\ DOMAIN Trie = Node /\ NoValue \notin Node
  /\ \A n \in Node :
       /\ Trie[n].kind = "extension" /\ Trie[n].child.type = "inlined" =>
            Trie[n].child.node \in Node \ {EMPTY_TRIE_ROOT}
       /\ Trie[n].kind = "branch" =>
            \A x \in Nibble : Trie[n].child[x].type = "inlined" =>
              Trie[n].child[x].node \in Node \ {EMPTY_TRIE_ROOT}

---------------------------------------------------------------------------
VARIABLES
  api,                 \* which of the four functions was called
  key, proof, root,    \* its arguments; key is already hashed into nibbles
  nodes,               \* nodes_by_hash
  idx, expected,       \* position in the key, hash to fetch next
  outcome,             \* how _walk ended: [type, value]
  answer               \* what the function returned or raised

args == <<api, key, proof, root>>
vars == <<api, key, proof, root, nodes, idx, expected, outcome, answer>>

Apis == {"verify_account_inclusion", "verify_account_exclusion",
         "verify_storage_inclusion", "verify_storage_exclusion"}

Walking == [type |-> "walking", value |-> ABSENT]
Pending == [type |-> "pending", value |-> ABSENT]

Init ==
  /\ api \in Apis
  /\ key \in Keys /\ proof \in Proofs /\ root \in Roots
  /\ nodes = proof
  /\ idx = 0 /\ expected = root
  /\ outcome = Walking
  /\ answer = Pending

Remaining == Drop(key, idx)
Fetched   == Trie[expected]

At(kind) ==
  /\ outcome = Walking
  /\ expected # EMPTY_TRIE_ROOT
  /\ expected \in nodes
  /\ Fetched.kind = kind

End(type, value) ==
  /\ outcome' = [type |-> type, value |-> value]
  /\ UNCHANGED <<args, nodes, idx, expected, answer>>

(* Mutant of Descend: the inlined child is not added to the known nodes.   *)
DescendHashedOnly(ref, n) ==
  \/ /\ ref.type \in {"hash", "inlined"}
     /\ idx' = idx + n
     /\ expected' = ref.node
     /\ UNCHANGED <<args, nodes, outcome, answer>>
  \/ /\ ref.type \notin {"hash", "inlined"}
     /\ End("ValueError", ABSENT)

(* _next_ref, for a descent that consumes n nibbles.  An inlined child is  *)
(* re-encoded and becomes one more known node; a byte string that is not a *)
(* 32-byte hash is a ValueError.                                           *)
Descend(ref, n) ==
  \/ /\ ref.type \in {"hash", "inlined"}
     /\ idx' = idx + n
     /\ expected' = ref.node
     /\ nodes' = IF ref.type = "inlined" THEN nodes \union {ref.node} ELSE nodes
     /\ UNCHANGED <<args, outcome, answer>>
  \/ /\ ref.type \notin {"hash", "inlined"}
     /\ End("ValueError", ABSENT)

WalkEmptyTrie ==
  /\ outcome = Walking /\ expected = EMPTY_TRIE_ROOT
  /\ End("absent", ABSENT)

(* Mutant of WalkMissingNode: a truncated proof counts as absence.         *)
WalkMissingNodeAbsent ==
  /\ outcome = Walking /\ expected # EMPTY_TRIE_ROOT /\ expected \notin nodes
  /\ End("absent", ABSENT)

WalkMissingNode ==
  /\ outcome = Walking /\ expected # EMPTY_TRIE_ROOT /\ expected \notin nodes
  /\ End("ValueError", ABSENT)

WalkMalformed   == At("malformed") /\ End("ValueError", ABSENT)
WalkUndecodable == At("undecodable") /\ End("raise", ABSENT)

(* The key is used up at a branch: its 17th item is the value. *)
WalkBranchValue ==
  /\ At("branch") /\ idx = Len(key)
  /\ IF Fetched.value = NoValue THEN End("absent", ABSENT)
                                ELSE End("value", Fetched.value)

WalkBranchEmptySlot ==
  /\ At("branch") /\ idx # Len(key)
  /\ Fetched.child[key[idx + 1]].type = "empty"
  /\ End("absent", ABSENT)

(* Mutant of WalkBranchDescend: a branch consumes two nibbles.             *)
WalkBranchDescendTwo ==
  /\ At("branch") /\ idx # Len(key)
  /\ Fetched.child[key[idx + 1]].type # "empty"
  /\ Descend(Fetched.child[key[idx + 1]], 2)

WalkBranchDescend ==
  /\ At("branch") /\ idx # Len(key)
  /\ Fetched.child[key[idx + 1]].type # "empty"
  /\ Descend(Fetched.child[key[idx + 1]], 1)

(* Mutant of WalkLeaf: a leaf with another path is not handled.            *)
WalkLeafMatching ==
  /\ At("leaf") /\ Remaining = Fetched.path
  /\ End("value", Fetched.value)

WalkLeaf ==
  /\ At("leaf")
  /\ IF Remaining = Fetched.path THEN End("value", Fetched.value)
                                 ELSE End("absent", ABSENT)

WalkExtensionDiverges ==
  /\ At("extension") /\ ~IsPrefix(Fetched.path, Remaining)
  /\ End("absent", ABSENT)

WalkExtensionDescend ==
  /\ At("extension") /\ IsPrefix(Fetched.path, Remaining)
  /\ Descend(Fetched.child, Len(Fetched.path))

WalkStep ==
  \/ WalkEmptyTrie \/ WalkMissingNode \/ WalkMalformed \/ WalkUndecodable
  \/ WalkBranchValue \/ WalkBranchEmptySlot \/ WalkBranchDescend
  \/ WalkLeaf \/ WalkExtensionDiverges \/ WalkExtensionDescend

(* The four functions catch ValueError only, and only around _walk: the    *)
(* decoding of the value found is outside the try.                         *)
Inclusion == {"verify_account_inclusion", "verify_storage_inclusion"}

(* Mutant of Answer: exclusion holds whenever no value was found.          *)
AnswerNotFound ==
  CASE outcome.type = "raise" -> [type |-> "raise", value |-> ABSENT]
    [] outcome.type = "value" /\ api \in Inclusion ->
         IF outcome.value \in Undecodable
           THEN [type |-> "raise", value |-> ABSENT]
           ELSE [type |-> "found", value |-> outcome.value]
    [] outcome.type # "raise" /\ api \notin Inclusion ->
         [type |-> IF outcome.type # "value" THEN "True" ELSE "False", value |-> ABSENT]
    [] OTHER -> [type |-> "None", value |-> ABSENT]

Answer ==
  CASE outcome.type = "raise" -> [type |-> "raise", value |-> ABSENT]
    [] outcome.type = "value" /\ api \in Inclusion ->
         IF outcome.value \in Undecodable
           THEN [type |-> "raise", value |-> ABSENT]
           ELSE [type |-> "found", value |-> outcome.value]
    [] outcome.type # "raise" /\ api \notin Inclusion ->
         [type |-> IF outcome.type = "absent" THEN "True" ELSE "False", value |-> ABSENT]
    [] OTHER -> [type |-> "None", value |-> ABSENT]

Return ==
  /\ outcome # Walking /\ answer = Pending
  /\ answer' = Answer
  /\ UNCHANGED <<args, nodes, idx, expected, outcome>>

Next == WalkStep \/ Return

Spec     == Init /\ [][Next]_vars
FairSpec == Spec /\ WF_vars(Next)

---------------------------------------------------------------------------
(* Properties *)

TypeOK ==
  /\ api \in Apis
  /\ key \in Suffix
  /\ nodes \subseteq Node
  /\ idx \in 0 .. Len(key)
  /\ outcome.type \in {"walking", "value", "absent", "ValueError", "raise"}
  /\ answer.type \in {"pending", "found", "None", "True", "False", "raise"}

(* Whatever nodes the proof holds, a walk that returns a value returns the *)
(* one the committed trie holds at the key, and a walk that returns ABSENT *)
(* has shown that the trie holds nothing there (_walk's docstring: a       *)
(* truncated proof is "never treated as absence").                         *)
WalkSound ==
  /\ outcome.type = "value"  => ContentAt(root, key) = outcome.value
  /\ outcome.type = "absent" => ContentAt(root, key) = ABSENT

(* The same for the answers: an inclusion function returns only the        *)
(* committed value, an exclusion function says True only of an absent key. *)
AnswerSound ==
  /\ answer.type = "found" => ContentAt(root, key) = answer.value
  /\ answer.type = "True"  => ContentAt(root, key) = ABSENT

(* The nodes that a walk has to fetch by hash, with an entry NoValue if it *)
(* runs into something that is no trie node: when it is to fetch n with    *)
(* the nibbles p left, when it is to follow a reference, and once it has   *)
(* fetched n.  Below gives the last for every node and suffix.             *)
FetchedFrom(below, n, p) ==
  IF n = EMPTY_TRIE_ROOT THEN {}
  ELSE {n} \union (IF n \in Node THEN below[<<n, p>>] ELSE {})

Following(below, ref, p) ==
  CASE ref.type = "hash"    -> FetchedFrom(below, ref.node, p)
    [] ref.type = "inlined" -> below[<<ref.node, p>>]
    [] OTHER                -> {NoValue}

BelowNode(below, n, p) ==
  LET t == Trie[n] IN
  CASE t.kind = "leaf"   -> {}
    [] t.kind = "branch" -> IF Len(p) = 0 \/ t.child[p[1]].type = "empty" THEN {}
                            ELSE Following(below, t.child[p[1]], Drop(p, 1))
    [] t.kind = "extension" -> IF ~IsPrefix(t.path, p) THEN {}
                               ELSE Following(below, t.child, Drop(p, Len(t.path)))
    [] OTHER -> {NoValue}

Below[s \in Node \X Suffix] == BelowNode(Below, s[1], s[2])

Needed == FetchedFrom(Below, root, key)

(* The walk ends without a verdict exactly when the proof lacks a node of  *)
(* the key's path or the path is not one of a trie: extra nodes never      *)
(* change the result, a missing one never goes unnoticed.                  *)
WalkExact ==
  outcome # Walking =>
    (outcome.type \in {"value", "absent"} <=> Needed \subseteq nodes)

(* Every call returns.  The walk is a loop of the calling thread, and it   *)
(* ends because hashes cannot form a cycle.                                *)
Terminates == <>(answer # Pending)
===========================================================================
