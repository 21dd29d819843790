----------------------------- MODULE MCMptWalk -----------------------------
(* Two kinds of trie side by side.  One is made by hand and has every kind *)
(* of node and of reference: branches with and without a value,            *)
(* extensions, leaves at several depths, inlined nodes, an empty subtrie,  *)
(* a malformed and an undecodable node, a short hash and a value that does *)
(* not decode; every subset of its well-formed nodes referenced by hash is *)
(* a proof.  The others are those the generator builds from two keys, with *)
(* the two proofs it hands out.  Every key of three nibbles is asked for,  *)
(* with every proof and against every root.                                *)
EXTENDS MptBuild

CONSTANTS v1, v2, v3, junk, EmptyRoot, NoNode

MCNibble == 0 .. 3
MCSuffix == UNION {[1 .. k -> MCNibble] : k \in 0 .. 3}
MCKeys   == [1 .. 3 -> MCNibble]

hash(n)    == [type |-> "hash", node |-> <<n>>]
inlined(n) == [type |-> "inlined", node |-> <<n>>]
empty      == [type |-> "empty", node |-> NoNode]
short      == [type |-> "short", node |-> NoNode]

branch(c, v)    == [kind |-> "branch", child |-> [x \in MCNibble |-> c[x + 1]], value |-> v]
extension(p, c) == [kind |-> "extension", path |-> p, child |-> c]
leaf(p, v)      == [kind |-> "leaf", path |-> p, value |-> v]
emptyTrie       == [type |-> "hash", node |-> EmptyRoot]

Handmade ==
     "top"   :> branch(<<hash("ext"), hash("mid"), hash("leaf"), short>>, NoValue)
  @@ "ext"   :> extension(<<1>>, hash("deep"))
  @@ "deep"  :> branch(<<hash("bad"), inlined("tiny"), hash("end"), empty>>, NoValue)
  @@ "bad"   :> leaf(<<>>, junk)
  @@ "tiny"  :> leaf(<<>>, v3)
  @@ "end"   :> branch(<<empty, empty, empty, empty>>, v2)
  @@ "leaf"  :> leaf(<<2, 0>>, v1)
  @@ "mid"   :> branch(<<inlined("stub"), hash("odd"), hash("torn"), emptyTrie>>, NoValue)
  @@ "stub"  :> extension(<<0>>, empty)
  @@ "odd"   :> [kind |-> "malformed"]
  @@ "torn"  :> [kind |-> "undecodable"]

(* The keys a builder is called with: they share a leaf, or the path below *)
(* the branch, or nothing.                                                 *)
Pairs == {<< <<0, 1, 2>>, <<1, 1, 2>> >>, << <<3, 1, 2>>, <<0, 2, 1>> >>,
          << <<2, 0, 0>>, <<3, 0, 0>> >>}

(* Equal nodes have equal hashes: a leaf is named by what it holds. *)
Hashes(ab) == [branch |-> <<"branch", ab>>,
               a |-> <<"leaf", <<Tail(ab[1]), v1>> >>,
               b |-> <<"leaf", <<Tail(ab[2]), v2>> >>]

MCBuilds == {[hashes |-> Hashes(ab), ka |-> ab[1], va |-> v1, kb |-> ab[2], vb |-> v2] : ab \in Pairs}

Built(ab) == build_two_trie(Hashes(ab), ab[1], v1, ab[2], v2)

HandmadeNode == {<<n>> : n \in DOMAIN Handmade}
MCNode       == HandmadeNode \union UNION {DOMAIN Built(ab) : ab \in Pairs}
MCTrie       == [n \in MCNode |->
                   IF n \in HandmadeNode THEN Handmade[n[1]]
                   ELSE LET ab == CHOOSE ab \in Pairs : n \in DOMAIN Built(ab) IN Built(ab)[n]]

Optional == {<<n>> : n \in DOMAIN Handmade \ {"tiny", "stub", "odd", "torn"}}
MCProofs == {p \union {<<"odd">>, <<"torn">>} : p \in SUBSET Optional}
              \union UNION {{proof_a(Hashes(ab)), proof_b(Hashes(ab))} : ab \in Pairs}
MCRoots  == {<<"top">>, <<"mid">>, EmptyRoot} \union {Hashes(ab).branch : ab \in Pairs}

(* What a trie made by hand holds, node by node; and what the caller of a  *)
(* builder asked for: a map of two keys.                                   *)
MCContent ==
  LET Val[n \in HandmadeNode, p \in MCSuffix] ==
        LET t == Handmade[n[1]]
            via(ref, q) == CASE ref.type \in {"empty", "short"} -> ABSENT
                             [] ref.node = EmptyRoot -> ABSENT
                             [] OTHER -> Val[ref.node, q]
        IN CASE t.kind = "leaf" -> IF p = t.path THEN t.value ELSE ABSENT
             [] t.kind = "extension" ->
                  IF IsPrefix(t.path, p) THEN via(t.child, Drop(p, Len(t.path))) ELSE ABSENT
             [] t.kind = "branch" ->
                  IF p # <<>> THEN via(t.child[Head(p)], Tail(p))
                  ELSE IF t.value = NoValue THEN ABSENT ELSE t.value
             [] OTHER -> ABSENT
      TwoKeys(n, p) ==
        CASE n[1] = "leaf" -> IF p = n[2][1] THEN n[2][2] ELSE ABSENT
          [] OTHER -> IF p = n[2][1] THEN v1 ELSE IF p = n[2][2] THEN v2 ELSE ABSENT
  IN  [n \in MCNode |-> [p \in MCSuffix |->
         IF n \in HandmadeNode THEN Val[n, p] ELSE TwoKeys(n, p)]]
===========================================================================
