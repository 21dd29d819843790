----------------------------- MODULE HexPrefix -----------------------------
(***************************************************************************)
(* The hex-prefix coding of a path in src/reference/are_mpt.py: _leaf_node *)
(* packs the nibbles of a key two to a byte, behind a flag of parity and   *)
(* kind, and _decode_hp reads them back.                                   *)
(***************************************************************************)
EXTENDS Integers, Sequences

(* data[first:end], which Python clips to the string. *)
Slice(data, first, end) ==
  SubSeq(data, first + 1, IF end < Len(data) THEN end ELSE Len(data))
From(data, first) == Slice(data, first, Len(data))

nibbles(b) == [k \in 1 .. 2 * Len(b) |-> LET byte == b[(k + 1) \div 2]
                                         IN  IF k % 2 = 1 THEN byte \div 16 ELSE byte % 16]

(* Mutant of decode_hp: the parity of the path is not looked at.           *)
decode_hp_even(encoded) ==
  LET nibs == nibbles(encoded)
  IN  [path |-> From(nibs, 2), is_leaf |-> nibs[1] >= 2]

decode_hp(encoded) ==
  LET nibs == nibbles(encoded)
  IN  [path |-> From(nibs, IF nibs[1] % 2 = 1 THEN 1 ELSE 2), is_leaf |-> nibs[1] >= 2]

(* The compact path of a leaf, with the flag 2 or 3 in its first nibble. *)
PackedPath(remaining) ==
  LET odd  == Len(remaining) % 2
      rest == IF odd = 1 THEN Tail(remaining) ELSE remaining
  IN  <<IF odd = 1 THEN 3 * 16 + remaining[1] ELSE 2 * 16>>
        \o [k \in 1 .. Len(rest) \div 2 |-> rest[2 * k - 1] * 16 + rest[2 * k]]

(* Nodes of fetched proofs pack the path of an extension with flag 0 or 1. *)
ExtensionPath(path) == [PackedPath(path) EXCEPT ![1] = @ - 2 * 16]
===========================================================================
