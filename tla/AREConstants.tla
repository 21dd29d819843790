--------------------------- MODULE AREConstants ---------------------------
(***************************************************************************)
(* The constants module of the reference implementation                    *)
(* (src/reference/are_constants.py): presets, slot / epoch / period        *)
(* arithmetic, the fork schedule and the generalized indices of the Merkle *)
(* branches.  The sizes that the code fixes (32 slots per epoch, 8192      *)
(* block roots, 2**24 historical summaries, ...) are CONSTANTS here, so    *)
(* that TLC can check small powers of two.                                 *)
(***************************************************************************)
EXTENDS Powers, Sequences, FiniteSetsExt

CONSTANTS
  SLOTS_PER_EPOCH,                    \* 32 in the code
  EPOCHS_PER_SYNC_COMMITTEE_PERIOD,   \* 256
  FORK_SCHEDULE,                      \* sequence of [epoch, name]; the fork
                                      \* version is named by its fork
  MINIMAL_COMMITTEE_SIZE,             \* 32
  MAINNET_COMMITTEE_SIZE,             \* 512
  BLOCK_ROOTS_VECTOR_DEPTH,           \* 13 (BLOCK_SUMMARY_VECTOR_DEPTH too)
  HISTORICAL_SUMMARIES_LIST_DEPTH     \* 24

ASSUME SlotArithmeticAssumption ==
  /\ SLOTS_PER_EPOCH \in Nat \ {0}
  /\ EPOCHS_PER_SYNC_COMMITTEE_PERIOD \in Nat \ {0}

ASSUME TreeDepthAssumption ==
  /\ BLOCK_ROOTS_VECTOR_DEPTH \in Nat
  /\ HISTORICAL_SUMMARIES_LIST_DEPTH \in Nat

ASSUME CommitteeSizeAssumption ==
  /\ MINIMAL_COMMITTEE_SIZE \in Nat
  /\ MAINNET_COMMITTEE_SIZE \in Nat

---------------------------------------------------------------------------
(* Presets.  select_preset rewrites three module globals together; PRESET  *)
(* determines the other two.                                               *)

Presets == {"MINIMAL", "MAINNET"}

SYNC_COMMITTEE_SIZE(preset) ==
  IF preset = "MINIMAL" THEN MINIMAL_COMMITTEE_SIZE ELSE MAINNET_COMMITTEE_SIZE

(* Algorithms of a provider signature; 1 is secp256k1.                     *)
SIG_ALG_NONE    == 0
SIG_ALG_ED25519 == 2

---------------------------------------------------------------------------
(* Slots, epochs, sync-committee periods *)

compute_epoch_at_slot(slot) == slot \div SLOTS_PER_EPOCH

compute_sync_committee_period_at_slot(slot) ==
  compute_epoch_at_slot(slot) \div EPOCHS_PER_SYNC_COMMITTEE_PERIOD

(* The loop keeps the last schedule entry whose activation epoch has come; *)
(* "phase0" is both the initial name and the name of version 0x00000000.   *)
fork_name_at_epoch(epoch) ==
  LET active == {i \in DOMAIN FORK_SCHEDULE : epoch >= FORK_SCHEDULE[i].epoch}
  IN  IF active = {} THEN "phase0" ELSE FORK_SCHEDULE[Max(active)].name

fork_version_at_epoch(preset, epoch) ==
  IF preset = "MINIMAL" THEN "deneb" ELSE fork_name_at_epoch(epoch)

---------------------------------------------------------------------------
(* Generalized indices *)

EXECUTION_PAYLOAD_GINDEX          == 25
FINALIZED_ROOT_GINDEX_PRE_ELECTRA == 105
FINALIZED_ROOT_GINDEX_ELECTRA     == 169
BLOCK_ROOTS_FIELD_GINDEX          == 5
HISTORICAL_SUMMARIES_FIELD_GINDEX == 6

SLOTS_PER_HISTORICAL_ROOT == pow2[BLOCK_ROOTS_VECTOR_DEPTH]

(* The gindex depends on the mainnet schedule in both presets.             *)
finalized_root_gindex_for_attested_slot(slot) ==
  IF fork_name_at_epoch(compute_epoch_at_slot(slot)) \in {"electra", "fulu"}
    THEN FINALIZED_ROOT_GINDEX_ELECTRA
    ELSE FINALIZED_ROOT_GINDEX_PRE_ELECTRA

(* Python's a | b on naturals below 2^BitWidth.                            *)
BitWidth == 24
BitOr(a, b) ==
  MapThenSumSet(LAMBDA k : pow2[k],
                {k \in 0 .. BitWidth : (a \div pow2[k]) % 2 = 1 \/ (b \div pow2[k]) % 2 = 1})

(* (g << depth) | index: an index of more than depth bits runs into g.     *)
ShiftOr(g, depth, index) ==
  (IF index < pow2[depth] THEN g ELSE BitOr(g, index \div pow2[depth])) * pow2[depth]
    + (index % pow2[depth])

block_roots_leaf_gindex(slot_index) ==
  ShiftOr(BLOCK_ROOTS_FIELD_GINDEX, BLOCK_ROOTS_VECTOR_DEPTH, slot_index)

(* field -> elements subtree (left of mix_in_length) -> element ->         *)
(* block_summary_root (left) -> leaf of the block-root vector.             *)
historical_summaries_leaf_gindex(summary_index, slot_index) ==
  LET elements == ShiftOr(HISTORICAL_SUMMARIES_FIELD_GINDEX, 1, 0)
      summary  == ShiftOr(elements, HISTORICAL_SUMMARIES_LIST_DEPTH, summary_index)
      roots    == ShiftOr(summary, 1, 0)
  IN  ShiftOr(roots, BLOCK_ROOTS_VECTOR_DEPTH, slot_index)

(* Mutant of ancestor_gindex: the ring is used one slot too long.          *)
ancestor_gindex_late(read_slot, finalized_slot) ==
  LET slot_index == read_slot % SLOTS_PER_HISTORICAL_ROOT
  IN  IF finalized_slot - read_slot <= SLOTS_PER_HISTORICAL_ROOT + 1
        THEN block_roots_leaf_gindex(slot_index)
        ELSE historical_summaries_leaf_gindex(read_slot \div SLOTS_PER_HISTORICAL_ROOT,
                                              slot_index)

(* Step 7 of the verifier: where the state of the finalized block keeps    *)
(* the root of an older block.                                             *)
ancestor_gindex(read_slot, finalized_slot) ==
  LET slot_index == read_slot % SLOTS_PER_HISTORICAL_ROOT
  IN  IF finalized_slot - read_slot <= SLOTS_PER_HISTORICAL_ROOT
        THEN block_roots_leaf_gindex(slot_index)
        ELSE historical_summaries_leaf_gindex(read_slot \div SLOTS_PER_HISTORICAL_ROOT,
                                              slot_index)
===========================================================================
