--------------------------- MODULE BeaconHistory ---------------------------
(***************************************************************************)
(* The history that step 7 of the verifier relies on: the two accumulators *)
(* of past block roots in the reduced BeaconState that are_constants.py    *)
(* describes, as the chain grows and slots are skipped, and the            *)
(* generalized index under which the verifier looks a block root up.  The  *)
(* state transition is that of the consensus layer, outside the            *)
(* repository; the historical summaries start at slot 0, as the code       *)
(* assumes.  The root of a block is named by the slot of the block.        *)
(***************************************************************************)
EXTENDS AREConstants

CONSTANTS MAX_SLOT,   \* bound of the model on the chain's length
          NONE        \* no block root

(* The List of summaries has room: HISTORICAL_ROOTS_LIMIT of 2**24.        *)
ASSUME MaxSlotAssumption ==
  /\ MAX_SLOT \in Nat
  /\ MAX_SLOT <= pow2[BLOCK_ROOTS_VECTOR_DEPTH + HISTORICAL_SUMMARIES_LIST_DEPTH]

VARIABLES
  slot,                  \* slot of the state
  blocks,                \* slots of the blocks of the chain so far
  block_roots,           \* Vector[Bytes32, SLOTS_PER_HISTORICAL_ROOT], a ring
  historical_summaries   \* List[HistoricalSummary, 2**depth]: block_summary_root

vars == <<slot, blocks, block_roots, historical_summaries>>

Indices == 0 .. SLOTS_PER_HISTORICAL_ROOT - 1

Init ==
  /\ slot = 0 /\ blocks = {0}
  /\ block_roots = [j \in Indices |-> NONE]
  /\ historical_summaries = <<>>

(* process_slot stores the newest block root in the ring; a full ring is   *)
(* summarised.                                                             *)
ProcessSlot ==
  LET roots == [block_roots EXCEPT ![slot % SLOTS_PER_HISTORICAL_ROOT] = Max(blocks)]
  IN  /\ slot < MAX_SLOT
      /\ slot' = slot + 1
      /\ block_roots' = roots
      /\ historical_summaries' =
           IF (slot + 1) % SLOTS_PER_HISTORICAL_ROOT = 0
             THEN Append(historical_summaries, roots) ELSE historical_summaries

(* Mutant of NextBlock: the block is recorded a slot ahead of the state.   *)
NextBlockEarly == ProcessSlot /\ blocks' = blocks \union {slot + 2}

NextBlock   == ProcessSlot /\ blocks' = blocks \union {slot + 1}
SkippedSlot == ProcessSlot /\ UNCHANGED blocks

Next == NextBlock \/ SkippedSlot
Spec == Init /\ [][Next]_vars

---------------------------------------------------------------------------
(* The Merkle tree of the state, node by node: four fields {slot,          *)
(* block_roots, historical_summaries, extra}; the root of a List has its   *)
(* elements on the left and its length on the right; a HistoricalSummary   *)
(* has block_summary_root on the left.                                     *)

(* The branchings first .. last of the way from the root down to g, 0 to   *)
(* the left and 1 to the right, read as a number.                          *)
Turns(g, first, last) == (g \div pow2[Depth(g) - last]) % pow2[last - first + 1]

(* g lies in a vector of block roots that is entered after n branchings.   *)
RootsVectorAt(roots, g, n) ==
  IF Depth(g) = n + BLOCK_ROOTS_VECTOR_DEPTH THEN roots[Turns(g, n + 1, Depth(g))] ELSE NONE

SummariesAt(g) ==
  LET element == 3 + HISTORICAL_SUMMARIES_LIST_DEPTH
      i       == Turns(g, 4, element)
  IN  IF /\ Depth(g) > element
         /\ Turns(g, 3, 3) = 0
         /\ Turns(g, element + 1, element + 1) = 0
         /\ i < Len(historical_summaries)
        THEN RootsVectorAt(historical_summaries[i + 1], g, element + 1)
        ELSE NONE

BlockRootAt(g) ==
  IF Depth(g) < 2 THEN NONE
  ELSE CASE Turns(g, 1, 2) = 1 -> RootsVectorAt(block_roots, g, 2)
         [] Turns(g, 1, 2) = 2 -> SummariesAt(g)
         [] OTHER -> NONE

---------------------------------------------------------------------------
(* Properties *)

TypeOK ==
  /\ slot \in 0 .. MAX_SLOT /\ blocks \subseteq 0 .. slot
  /\ block_roots \in [Indices -> (0 .. MAX_SLOT) \union {NONE}]
  /\ historical_summaries \in Seq([Indices -> 0 .. MAX_SLOT])

IsAncestor(m) == m < slot /\ m \in blocks

(* Every strict ancestor of a finalized block can be proven: the gindex    *)
(* that step 7 computes holds the ancestor's root, at every distance, the  *)
(* boundary of the ring and skipped slots included.                        *)
AncestorsReachable ==
  \A m \in 0 .. MAX_SLOT : IsAncestor(m) => BlockRootAt(ancestor_gindex(m, slot)) = m
============================================================================
