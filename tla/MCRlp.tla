------------------------------- MODULE MCRlp -------------------------------
(* Strings and lists on both sides of the lengths where the prefix changes *)
(* (1 and 128, 55, 255), a branch and an extension with inlined children,  *)
(* every input of up to three bytes that the case distinction tells apart. *)
EXTENDS Rlp

Filled(n) == [k \in 1 .. n |-> 7]

MCStrings == {Bytes(b) : b \in {<<>>, <<0>>, <<127>>, <<128>>, <<255>>, <<4, 0>>}}
               \union {Bytes(Filled(n)) : n \in {4, 32, 55, 56, 57, 255, 256, 257}}

Leaf   == List(<<Bytes(PackedPath(<<5>>)), Bytes(<<200>>)>>)
Branch == List([k \in 1 .. 17 |-> CASE k = 2  -> Leaf
                                    [] k = 3  -> Bytes(Filled(32))
                                    [] k = 16 -> List(<<>>)
                                    [] OTHER  -> Bytes(<<>>)])

MCLists ==
  {List(<<>>), List(<<List(<<>>)>>), Leaf, Branch,
   List(<<Bytes(ExtensionPath(<<1, 2>>)), Branch>>),
   List(<<Bytes(ExtensionPath(<<1>>)), List(<<>>)>>),
   List(<<Leaf, List(<<>>), Bytes(<<>>)>>),
   List([k \in 1 .. 4 |-> Bytes(<<k, k>>)]),
   List([k \in 1 .. 4 |-> List(<<>>)]),
   List([k \in 1 .. 4 |-> List(<<Bytes(<<k>>)>>)]),
   List(<<List(<<>>), Leaf>>),
   List(<<Bytes(<<>>), Leaf>>)}
  \union {List(<<Bytes(Filled(n))>>) : n \in {53, 54, 55, 252, 253, 254, 255}}
  \union {List(<<List(<<Bytes(Filled(n))>>), Bytes(<<1>>)>>) : n \in {51, 52, 53, 54}}

MCItems == MCStrings \union MCLists

Short    == {<<>>, <<4>>, <<0, 200>>, <<1, 2, 3, 4>>, <<0, 0, 3, 4, 5>>}
MCShapes ==
  {Bytes(b) : b \in Short} \union {List(<<>>), List(<<Bytes(<<1>>)>>)}
  \union UNION {{List([k \in 1 .. n |-> item]) :
                   item \in {Bytes(<<9>>), List(<<>>), List(<<Bytes(<<9>>)>>)}} : n \in 3 .. 5}

MCTails == {<<>>, <<0>>, <<128>>, <<192>>}

MCBytes == {0, 1, 33, 127, 128, 129, 183, 184, 185, 191, 192, 193, 194, 247, 248, 249, 255}
MCDatas == UNION {[1 .. n -> MCBytes] : n \in 0 .. 3}
             (* Longer prefixes than an encoder would write. *)
             \union {<<196, 129, 17, 129, 5>>, <<198, 17, 248, 3, 129, 32, 129>>,
                     <<248, 4, 17, 194, 32, 5>>}

MCNumbers == {0, 1, 127, 128, 255, 256, 65535, 65536, 16777215, 16777216, 1073741823}
MCPaths   == UNION {[1 .. n -> {0, 1, 15}] : n \in 0 .. 4}
MCHashes  == {[k \in 1 .. 32 |-> 0], [k \in 1 .. 32 |-> 250]}
=============================================================================
