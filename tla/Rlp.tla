-------------------------------- MODULE Rlp --------------------------------
(***************************************************************************)
(* The byte codings under the Merkle-Patricia tries of                     *)
(* src/reference/are_mpt.py: RLP, the big-endian integers without leading  *)
(* zeros, the account record, and the paths of HexPrefix in the nodes.     *)
(*                                                                         *)
(* Bytes are the integers 0..255 and a byte string is a sequence of them.  *)
(* The prefixes and lengths are those of the code.  rlp_decode and the two *)
(* functions it calls recursively are one machine: `stack' holds a frame   *)
(* [rest, out] for the caller, which wants one item, and one for every     *)
(* _rlp_decode_list that runs.                                             *)
(***************************************************************************)
EXTENDS HexPrefix, Powers, SequencesExt

CONSTANTS
  Items,      \* items that are encoded: [bytes |-> ...] or [list |-> ...]
  Datas,      \* byte strings a proof may hold instead of an encoded item
  Shapes,     \* items that need not be accounts or values
  Tails,      \* bytes that may follow an encoded item; <<>> is one of them
  Numbers,    \* nonces, balances and storage values
  Paths,      \* sequences of nibbles
  Hashes,     \* 32-byte strings
  MAX_BITS,     \* bound on the bits of a number: Python's integers have none
  MAX_NESTING,  \* bound on lists within lists: Python's recursion limit
  NONE

Byte == 0 .. 255

ASSUME SizesAssumption ==
  /\ MAX_BITS \in Nat /\ MAX_NESTING \in Nat
  /\ \A x \in Numbers : x \in Nat /\ x < pow2[MAX_BITS]

Bytes(b)      == [bytes |-> b]
List(items)   == [list |-> items]
IsBytes(item) == "bytes" \in DOMAIN item

---------------------------------------------------------------------------
(* Integers *)

(* The powers of two up to x: 2^0 .. 2^(n - 1), if x has n bits. *)
bit_length(x) == Cardinality({n \in 0 .. MAX_BITS - 1 : pow2[n] <= x})

to_bytes(x, length) == [k \in 1 .. length |-> (x \div pow2[8 * (length - k)]) % 256]

(* Mutant of be_trim: a zero byte in front of a number of whole bytes.     *)
be_trim_padded(x) == IF x = 0 THEN <<>> ELSE to_bytes(x, (bit_length(x) + 8) \div 8)

be_trim(x) == IF x = 0 THEN <<>> ELSE to_bytes(x, (bit_length(x) + 7) \div 8)

from_bytes(b) ==
  LET sum[n \in 0 .. Len(b)] == IF n = 0 THEN 0 ELSE sum[n - 1] * 256 + b[n]
  IN  sum[Len(b)]

(* be_to_int of an item: Python takes an empty list for no bytes, and      *)
(* raises TypeError for a list of items.                                   *)
BeToIntFails(item) == ~IsBytes(item) /\ item.list # <<>>
be_to_int(item) == IF IsBytes(item) THEN from_bytes(item.bytes) ELSE 0

---------------------------------------------------------------------------
(* RLP *)

(* Mutant of rlp_encode_length: 56 is taken for a short length.            *)
rlp_encode_length_56(length, offset) ==
  IF length <= 56 THEN <<offset + length>>
  ELSE LET len_bytes == to_bytes(length, (bit_length(length) + 7) \div 8)
       IN  <<offset + 55 + Len(len_bytes)>> \o len_bytes

rlp_encode_length(length, offset) ==
  IF length < 56 THEN <<offset + length>>
  ELSE LET len_bytes == to_bytes(length, (bit_length(length) + 7) \div 8)
       IN  <<offset + 55 + Len(len_bytes)>> \o len_bytes

rlp_encode_bytes(b) ==
  IF Len(b) = 1 /\ b[1] < 128 THEN b ELSE rlp_encode_length(Len(b), 128) \o b

(* The encodings of byte strings, and of lists of the items that inner encodes. *)
EncodingOver(inner) ==
  [item \in [bytes : Seq(Byte)] \union [list : Seq(DOMAIN inner)] |->
     IF IsBytes(item) THEN rlp_encode_bytes(item.bytes)
     ELSE LET out == FlattenSeq([k \in DOMAIN item.list |-> inner[item.list[k]]])
          IN  rlp_encode_length(Len(out), 192) \o out]

Encoding[depth \in Nat] == IF depth = 0 THEN <<>> ELSE EncodingOver(Encoding[depth - 1])

rlp_encode(item) == Encoding[MAX_NESTING][item]

(* The longest length of a prefix has eight bytes. *)
Announced(length) == length < pow2[MAX_BITS] /\ bit_length(length) <= 64
Fits(item) == item \in DOMAIN Encoding[MAX_NESTING] /\ Announced(Len(rlp_encode(item)))

(* Where the payload of the item at the head of data begins and how long   *)
(* the prefix says it is: below 0x80 the byte itself, below 0xB8 and 0xF8  *)
(* a short string or list, else the length follows in prefix - 0xB7 or     *)
(* prefix - 0xF7 bytes.                                                    *)
Payload(data) ==
  LET prefix == data[1]
      short(offset) == [start |-> 1, length |-> prefix - offset]
      long(offset)  == LET ll == prefix - offset
                       IN  [start |-> 1 + ll, length |-> from_bytes(Slice(data, 1, 1 + ll))]
  IN  CASE prefix < 128 -> [start |-> 0, length |-> 1]
        [] prefix \in 128 .. 183 -> short(128)
        [] prefix \in 184 .. 191 -> long(183)
        [] prefix \in 192 .. 247 -> short(192)
        [] OTHER -> long(247)

---------------------------------------------------------------------------
(* Accounts and paths *)

Account(nonce, balance, storage_root, code_hash) ==
  List(<<Bytes(be_trim(nonce)), Bytes(be_trim(balance)), Bytes(storage_root), Bytes(code_hash)>>)

encode_account(nonce, balance, storage_root, code_hash) ==
  rlp_encode(Account(nonce, balance, storage_root, code_hash))

Raised(exception) == [raised |-> exception]

(* Mutant of decode_account: the two numbers change places.                *)
decode_account_swapped(item) ==
  IF IsBytes(item) THEN Raised(IF Len(item.bytes) = 4 THEN "TypeError" ELSE "ValueError")
  ELSE IF Len(item.list) # 4 THEN Raised("ValueError")
  ELSE IF BeToIntFails(item.list[1]) \/ BeToIntFails(item.list[2]) THEN Raised("TypeError")
  ELSE [nonce |-> be_to_int(item.list[2]), balance |-> be_to_int(item.list[1]),
        storageRoot |-> item.list[3], codeHash |-> item.list[4]]

(* Four values are unpacked from the item.  A byte string unpacks to its   *)
(* bytes, which be_to_int does not take.                                   *)
decode_account(item) ==
  IF IsBytes(item) THEN Raised(IF Len(item.bytes) = 4 THEN "TypeError" ELSE "ValueError")
  ELSE IF Len(item.list) # 4 THEN Raised("ValueError")
  ELSE IF BeToIntFails(item.list[1]) \/ BeToIntFails(item.list[2]) THEN Raised("TypeError")
  ELSE [nonce |-> be_to_int(item.list[1]), balance |-> be_to_int(item.list[2]),
        storageRoot |-> item.list[3], codeHash |-> item.list[4]]

(* What _walk reads in a decoded node of two items; None in another one.   *)
ReadPath(item) ==
  IF IsBytes(item) \/ Len(item.list) # 2 THEN [path |-> NONE, is_leaf |-> FALSE]
  ELSE LET first == item.list[1] IN
       IF IsBytes(first) /\ first.bytes # <<>> THEN decode_hp(first.bytes)
       ELSE Raised(IF ~IsBytes(first) /\ first.list # <<>> THEN "TypeError" ELSE "IndexError")

PathNode(packed, value) == List(<<Bytes(packed), Bytes(value)>>)

leaf_node(remaining, value) == rlp_encode(PathNode(PackedPath(remaining), value))
extension_node(path, child) == rlp_encode(PathNode(ExtensionPath(path), child))

(* What is encoded fits, and the bytes of a proof are fewer than the bound *)
(* on nesting, so that they cannot nest deeper.                            *)
ASSUME InputsAssumption ==
  /\ Hashes \union Tails \union Datas \subseteq Seq(Byte) /\ Paths \subseteq Seq(0 .. 15)
  /\ \A bytes \in Datas : Len(bytes) <= MAX_NESTING /\ Announced(Len(bytes))
  /\ \A item \in Items : Fits(item)
  /\ \A value \in Numbers : Fits(Bytes(be_trim(value)))
  /\ \A nonce, balance \in Numbers, root, code \in Hashes : Fits(Account(nonce, balance, root, code))
  /\ \A path \in Paths, hash \in Hashes :
       Fits(PathNode(PackedPath(path), hash)) /\ Fits(PathNode(ExtensionPath(path), hash))

---------------------------------------------------------------------------
VARIABLES
  call,       \* who decodes
  data,       \* what
  stack,      \* the recursion: frames of bytes left and items read
  result,     \* what the call returned or raised, NONE while it runs
  expected    \* what was encoded into data, NONE if data is arbitrary

vars == <<call, data, stack, result, expected>>

Frame(rest, out) == [rest |-> rest, out |-> out]
Decoded(item)    == [item |-> item, read |-> ReadPath(item)]

(* rlp_decode returns to its caller, which goes on with the item.          *)
Use(item) ==
  CASE call = "rlp_decode"     -> [item |-> item]
    [] call = "_walk"          -> Decoded(item)
    [] call = "decode_account" -> decode_account(item)
    [] call = "verify_storage_inclusion" ->
         IF BeToIntFails(item) THEN Raised("TypeError") ELSE [int |-> be_to_int(item)]

Called(who, with, answer) == call = who /\ data = with /\ expected = answer

Calls == {"rlp_decode", "_walk", "decode_account", "verify_storage_inclusion"}

Init ==
  /\ \/ \E item \in Items, tail \in Tails :
          Called("rlp_decode", rlp_encode(item) \o tail,
                 IF tail = <<>> THEN [item |-> item] ELSE Raised("AssertionError"))
     \/ \E item \in Items : Called("_walk", rlp_encode(item), Decoded(item))
     \/ \E path \in Paths, hash \in Hashes :
          LET node(packed, is_leaf) ==
                [item |-> PathNode(packed, hash),
                 read |-> [path |-> path, is_leaf |-> is_leaf]]
          IN  \/ Called("_walk", leaf_node(path, hash), node(PackedPath(path), TRUE))
              \/ Called("_walk", extension_node(path, hash), node(ExtensionPath(path), FALSE))
     \/ \E nonce, balance \in Numbers, root, code \in Hashes :
          Called("decode_account", encode_account(nonce, balance, root, code),
                 [nonce |-> nonce, balance |-> balance,
                  storageRoot |-> Bytes(root), codeHash |-> Bytes(code)])
     \/ \E value \in Numbers :
          Called("verify_storage_inclusion", rlp_encode(Bytes(be_trim(value))), [int |-> value])
     \/ \E who \in {"decode_account", "verify_storage_inclusion"}, item \in Shapes :
          Called(who, rlp_encode(item), NONE)
     \/ \E who \in Calls, bytes \in Datas : Called(who, bytes, NONE)
  /\ stack = <<Frame(data, <<>>)>>
  /\ result = NONE

Top    == stack[Len(stack)]
Caller == stack[Len(stack) - 1]
Pop    == SubSeq(stack, 1, Len(stack) - 1)

End(answer) == result' = answer /\ UNCHANGED <<call, data, stack, expected>>

(* The caller still waits for its item, or the loop of a list goes on.     *)
Decoding == result = NONE /\ IF Len(stack) = 1 THEN Top.out = <<>> ELSE Top.rest # <<>>

DecodeNothing == Decoding /\ Top.rest = <<>> /\ End(Raised("ValueError"))

DecodeBytes ==
  /\ Decoding /\ Top.rest # <<>> /\ Top.rest[1] < 192
  /\ LET p    == Payload(Top.rest)
         item == Bytes(Slice(Top.rest, p.start, p.start + p.length))
     IN  stack' = Append(Pop, Frame(From(Top.rest, p.start + p.length), Append(Top.out, item)))
  /\ UNCHANGED <<call, data, result, expected>>

(* Mutant of DecodeList: the bytes after the list are forgotten.           *)
DecodeListLast ==
  /\ Decoding /\ Top.rest # <<>> /\ Top.rest[1] >= 192
  /\ LET p == Payload(Top.rest)
     IN  stack' = Pop \o <<Frame(<<>>, Top.out),
                           Frame(Slice(Top.rest, p.start, p.start + p.length), <<>>)>>
  /\ UNCHANGED <<call, data, result, expected>>

DecodeList ==
  /\ Decoding /\ Top.rest # <<>> /\ Top.rest[1] >= 192
  /\ LET p == Payload(Top.rest)
     IN  stack' = Pop \o <<Frame(From(Top.rest, p.start + p.length), Top.out),
                           Frame(Slice(Top.rest, p.start, p.start + p.length), <<>>)>>
  /\ UNCHANGED <<call, data, result, expected>>

(* Mutant of ListEnds: the loop of an empty list does not end.             *)
ListEndsNonEmpty ==
  /\ result = NONE /\ Len(stack) > 1 /\ Top.rest = <<>> /\ Top.out # <<>>
  /\ stack' = Append(SubSeq(stack, 1, Len(stack) - 2),
                     Frame(Caller.rest, Append(Caller.out, List(Top.out))))
  /\ UNCHANGED <<call, data, result, expected>>

ListEnds ==
  /\ result = NONE /\ Len(stack) > 1 /\ Top.rest = <<>>
  /\ stack' = Append(SubSeq(stack, 1, Len(stack) - 2),
                     Frame(Caller.rest, Append(Caller.out, List(Top.out))))
  /\ UNCHANGED <<call, data, result, expected>>

(* Mutant of Return: trailing bytes are not looked at.                     *)
ReturnUnchecked ==
  /\ result = NONE /\ Len(stack) = 1 /\ Top.out # <<>>
  /\ End(Use(Top.out[1]))

Return ==
  /\ result = NONE /\ Len(stack) = 1 /\ Top.out # <<>>
  /\ End(IF Top.rest = <<>> THEN Use(Top.out[1]) ELSE Raised("AssertionError"))

(* The children of a branch or of an extension that are nodes themselves.  *)
Inlined ==
  LET items == result.item.list
      nodes == {k \in DOMAIN items : ~IsBytes(items[k])}
  IN  IF IsBytes(result.item) THEN {}
      ELSE CASE Len(items) = 17 -> {items[k] : k \in {k \in nodes : k < 17 /\ items[k].list # <<>>}}
             [] Len(items) = 2  -> IF "path" \in DOMAIN result.read /\ ~result.read.is_leaf
                                     THEN {items[k] : k \in nodes \ {1}} ELSE {}
             [] OTHER -> {}

(* Mutant of NextRef: the child is encoded without the prefix of its list. *)
NextRefBare ==
  /\ call = "_walk" /\ result # NONE /\ "item" \in DOMAIN result
  /\ \E child \in Inlined :
       /\ data' = FlattenSeq([k \in DOMAIN child.list |-> rlp_encode(child.list[k])])
       /\ expected' = Decoded(child)
  /\ stack' = <<Frame(data', <<>>)>> /\ result' = NONE
  /\ UNCHANGED call

(* _next_ref encodes an inlined child again, and the walk decodes it.      *)
NextRef ==
  /\ call = "_walk" /\ result # NONE /\ "item" \in DOMAIN result
  /\ \E child \in Inlined : data' = rlp_encode(child) /\ expected' = Decoded(child)
  /\ stack' = <<Frame(data', <<>>)>> /\ result' = NONE
  /\ UNCHANGED call

Next == DecodeNothing \/ DecodeBytes \/ DecodeList \/ ListEnds \/ Return \/ NextRef

Spec == Init /\ [][Next]_vars /\ WF_vars(Next)

---------------------------------------------------------------------------
(* Properties *)

Answered(who) == call = who /\ expected # NONE /\ result # NONE

(* What rlp_encode wrote rlp_decode reads, on both sides of the lengths 55 *)
(* and 255 where the prefix changes, for strings and for nested lists; and *)
(* whatever follows the item is noticed.                                   *)
ItemRoundTrip == Answered("rlp_decode") => result = expected

(* The walk reads back the path of a leaf that _leaf_node packed and of an *)
(* extension, of odd and even length, with the right kind; and a child     *)
(* that _next_ref encoded again is the node that was inlined, even if the  *)
(* bytes it was read from are not those an encoder writes.                 *)
NodeRoundTrip == Answered("_walk") => result = expected

(* An account comes back field by field, for numbers of any byte length.   *)
AccountRoundTrip == Answered("decode_account") => result = expected

(* A storage value comes back, and its bytes are the only ones without a   *)
(* leading zero: a read has one canonical value.                           *)
StorageRoundTrip ==
  Answered("verify_storage_inclusion") =>
    /\ result = expected
    /\ LET b == Top.out[1].bytes IN b # <<>> => b[1] # 0

(* While it runs, no byte of an encoded item is lost or read twice: the    *)
(* items read so far, encoded again, and the bytes left in every open list *)
(* make up the input.                                                      *)
NothingLost ==
  LET Unread[k \in 1 .. Len(stack)] ==
        LET inner == IF k = Len(stack) THEN <<>>
                     ELSE rlp_encode_length(Len(Unread[k + 1]), 192) \o Unread[k + 1]
            read  == FlattenSeq([j \in DOMAIN stack[k].out |-> rlp_encode(stack[k].out[j])])
        IN  read \o inner \o stack[k].rest
  IN  expected # NONE => Unread[1] = data

(* Every decoding ends, whatever lengths the bytes claim.                  *)
Ends == result = NONE ~> result # NONE
=============================================================================
