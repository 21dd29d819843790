----------------------------- MODULE Merkleize -----------------------------
(***************************************************************************)
(* merkleize of src/reference/are_ssz.py, the hash under every root that   *)
(* the reference implementation computes: a level-by-level reduction that  *)
(* stands for a tree padded with zero chunks without building it.  A call  *)
(* merkleizes a list of chunks, or the bytes of a ByteList, whose length   *)
(* is then mixed in.  SHA-256 is the free constructor hash_concat.         *)
(***************************************************************************)
EXTENDS Powers, Sequences

CONSTANTS
  BYTES_PER_CHUNK,    \* 32 in the code
  MAX_DEPTH,          \* ZERO_HASHES are precomputed up to it (63)
  ChunkLists,         \* lists of chunks callers pass to merkleize
  Datas,              \* byte strings callers pass to bytelist_root
  Limits,             \* limits callers pass, in chunks or in bytes
  NONE,               \* Python's None: no limit
  VALUE_ERROR         \* result of a call that raises

Byte == 0 .. 255

ASSUME SizesAssumption == BYTES_PER_CHUNK \in Nat \ {0} /\ MAX_DEPTH \in Nat
ASSUME InputsAssumption ==
  /\ Datas \subseteq Seq(Byte)
  /\ NONE \notin Nat /\ Limits \subseteq Nat
  /\ \A list \in ChunkLists : list \in Seq({list[k] : k \in DOMAIN list})

(* No caller asks for a tree higher than the precomputed zero subtrees. *)
ASSUME DepthAssumption ==
  /\ \A n \in Limits : n <= pow2[MAX_DEPTH]
  /\ \A list \in ChunkLists : Len(list) <= pow2[MAX_DEPTH]

hash_concat(a, b) == [left |-> a, right |-> b]

Chunk(bytes) == [bytes |-> bytes]
ZeroChunk == Chunk([k \in 1 .. BYTES_PER_CHUNK |-> 0])

ZERO_HASHES[depth \in 0 .. MAX_DEPTH] ==
  IF depth = 0 THEN ZeroChunk ELSE hash_concat(ZERO_HASHES[depth - 1], ZERO_HASHES[depth - 1])

(* log2 of next_pow2(n), the smallest power of two from n up. *)
levels(n) == CHOOSE k \in 0 .. MAX_DEPTH : n <= pow2[k] /\ (k > 0 => pow2[k - 1] < n)

(* Mutant of mix_in_length: the length is not mixed in.                    *)
mix_in_nothing(root, length) == root

mix_in_length(root, length) == hash_concat(root, [length |-> length])

(* An element of a list that goes on with zeros. *)
At(list, k, zero) == IF k <= Len(list) THEN list[k] ELSE zero

(* The chunks of a byte string, the last one filled with zero bytes. *)
CeilDiv(a, b) == (a + b - 1) \div b
pack(data) ==
  [c \in 1 .. CeilDiv(Len(data), BYTES_PER_CHUNK) |->
     Chunk([k \in 1 .. BYTES_PER_CHUNK |-> At(data, (c - 1) * BYTES_PER_CHUNK + k, 0)])]

AtLeastOne(n) == IF n > 1 THEN n ELSE 1

(* The tree that merkleize stands for: the chunks followed by zero chunks, *)
(* hashed pairwise; node k of level h, level 0 being the leaves.  A node   *)
(* past the chunks is the zero subtree of its height.                      *)
PaddedTree(list) ==
  LET level[h \in Nat] ==
        [k \in Nat \ {0} |->
           IF (k - 1) * pow2[h] >= Len(list) THEN ZERO_HASHES[h]
           ELSE IF h = 0 THEN list[k]
           ELSE hash_concat(level[h - 1][2 * k - 1], level[h - 1][2 * k])]
  IN  level

(* The root of the tree as wide as the height says. *)
PaddedRoot(list, height) == PaddedTree(list)[height][1]

VARIABLES
  pc,              \* "call", "loop" or "done"
  data,            \* the argument of bytelist_root, or NONE
  chunks, limit,   \* the arguments of merkleize
  cur, depth,      \* its locals
  result           \* the root, or VALUE_ERROR

call == <<data, chunks, limit>>
vars == <<pc, data, chunks, limit, cur, depth, result>>

Init ==
  /\ pc = "call"
  /\ \/ data = NONE /\ chunks \in ChunkLists /\ limit \in Limits \union {NONE}
     \/ /\ data \in Datas /\ chunks = pack(data)
        /\ \E limit_bytes \in Limits :
             limit = AtLeastOne(CeilDiv(limit_bytes, BYTES_PER_CHUNK))
  /\ cur = <<>> /\ depth = 0
  /\ result = NONE

target_levels ==
  IF limit = NONE THEN levels(AtLeastOne(Len(chunks))) ELSE levels(AtLeastOne(limit))

Return(root) ==
  /\ pc' = "done"
  /\ result' = IF data = NONE THEN root ELSE mix_in_length(root, Len(data))
  /\ UNCHANGED <<call, cur, depth>>

TooManyChunks ==
  /\ pc = "call" /\ Len(chunks) > pow2[target_levels]
  /\ pc' = "done" /\ result' = VALUE_ERROR
  /\ UNCHANGED <<call, cur, depth>>

NoChunks == pc = "call" /\ chunks = <<>> /\ Return(ZERO_HASHES[target_levels])

(* Mutant of Enter: a list that fills the width is not handled.            *)
EnterBelow ==
  /\ pc = "call" /\ chunks # <<>> /\ Len(chunks) < pow2[target_levels]
  /\ pc' = "loop" /\ cur' = chunks
  /\ UNCHANGED <<call, depth, result>>

Enter ==
  /\ pc = "call" /\ chunks # <<>> /\ Len(chunks) <= pow2[target_levels]
  /\ pc' = "loop" /\ cur' = chunks
  /\ UNCHANGED <<call, depth, result>>

(* Mutants of Combined: a zero chunk at every depth; sides swapped.        *)
CombinedZeroChunk ==
  [k \in 1 .. CeilDiv(Len(cur), 2) |->
     hash_concat(cur[2 * k - 1],
                 IF 2 * k <= Len(cur) THEN cur[2 * k] ELSE ZERO_HASHES[0])]

CombinedSwapped ==
  [k \in 1 .. CeilDiv(Len(cur), 2) |->
     hash_concat(IF 2 * k <= Len(cur) THEN cur[2 * k] ELSE ZERO_HASHES[depth],
                 cur[2 * k - 1])]

(* An odd level is completed with the zero subtree of its own depth. *)
Combined ==
  [k \in 1 .. CeilDiv(Len(cur), 2) |->
     hash_concat(cur[2 * k - 1],
                 IF 2 * k <= Len(cur) THEN cur[2 * k] ELSE ZERO_HASHES[depth])]

(* Mutant of Unfinished: one level too many.                               *)
UnfinishedAtTop == Len(cur) > 1 \/ depth <= target_levels

Unfinished == Len(cur) > 1 \/ depth < target_levels

CombineLevel ==
  /\ pc = "loop" /\ Unfinished
  /\ cur' = Combined /\ depth' = depth + 1
  /\ UNCHANGED <<pc, call, result>>

Finish == pc = "loop" /\ ~Unfinished /\ Return(cur[1])

Next == TooManyChunks \/ NoChunks \/ Enter \/ CombineLevel \/ Finish
Spec == Init /\ [][Next]_vars /\ WF_vars(Next)

---------------------------------------------------------------------------
(* Properties *)

(* The loop never climbs past the top of the padded tree, and a level is   *)
(* never longer than the list it started from.                             *)
TypeOK ==
  /\ pc \in {"call", "loop", "done"}
  /\ data \in Datas \union {NONE}
  /\ depth \in 0 .. target_levels
  /\ Len(cur) <= Len(chunks)

(* The reduction computes the root of the padded tree, for every number of *)
(* chunks and every limit, wherever the padding starts.                    *)
RootExact ==
  pc = "done" /\ result # VALUE_ERROR =>
    result = LET root == PaddedRoot(chunks, target_levels)
             IN  IF data = NONE THEN root ELSE mix_in_length(root, Len(data))

(* While it runs, the level holds the nodes of the padded tree at that     *)
(* height, as far as the chunks reach.                                     *)
LevelExact ==
  pc = "loop" =>
    \A k \in DOMAIN cur :
      LET last == IF k * pow2[depth] < Len(chunks) THEN k * pow2[depth] ELSE Len(chunks)
      IN  cur[k] = PaddedRoot(SubSeq(chunks, (k - 1) * pow2[depth] + 1, last), depth)

(* Byte strings that differ have different roots: a string and the same    *)
(* string followed by zero bytes fill the same chunks, but mix in          *)
(* different lengths.                                                      *)
BytesBound ==
  pc = "done" /\ data # NONE /\ result # VALUE_ERROR =>
    \A other \in Datas :
      mix_in_length(PaddedRoot(pack(other), target_levels), Len(other)) = result
        => other = data

(* Every call returns. *)
Terminates == <>(pc = "done")
============================================================================
