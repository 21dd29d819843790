----------------------------- MODULE ReadOracle -----------------------------
(***************************************************************************)
(* What src/reference/are_verify.py promises to its client, with no word   *)
(* of anchors, branches, tries or signatures: an oracle is asked whether   *)
(* an envelope may be believed.  It answers yes only when the envelope is  *)
(* true of a block of the chain, and only from a block that it has just     *)
(* observed, no older than any it observed before and no staler than the   *)
(* client's head allows.  AREVerify implements it.                         *)
(***************************************************************************)
EXTENDS Integers

CONSTANTS
  Questions,           \* envelopes
  Heads,               \* values of the client's head slot
  MaxStalenessSlots,
  Chain,               \* headers of valid blocks
  TrueAt(_, _),        \* what an envelope says holds at a block
  FinalizedAsOf(_),    \* the checkpoint of the state of a block
  Optimistic(_), Final(_)   \* which of its two claims an envelope makes

VARIABLES
  phase,               \* "idle", "asked" or "observed"
  question,
  head,                \* the client's head slot
  floor,               \* slot of the newest block ever observed
  believed             \* the last question was answered yes

vars == <<phase, question, head, floor, believed>>

Init ==
  /\ phase = "idle" /\ question \in Questions
  /\ head \in Heads /\ floor = 0 /\ believed = FALSE

Ask ==
  /\ phase = "idle" /\ phase' = "asked"
  /\ question' \in Questions
  /\ believed' = FALSE
  /\ UNCHANGED <<head, floor>>

AdvanceHead ==
  /\ phase = "idle"
  /\ head' \in Heads /\ head' > head
  /\ UNCHANGED <<phase, question, floor, believed>>

(* A block is observed: fresh, and not older than the last one.            *)
Observe ==
  /\ phase = "asked" /\ phase' = "observed"
  /\ \E block \in Chain :
       /\ block.slot >= floor /\ block.slot >= head - MaxStalenessSlots
       /\ floor' = block.slot
  /\ UNCHANGED <<question, head, believed>>

(* Yes: a head question is about the observed block itself, a finality     *)
(* question about a block no newer than its checkpoint.                    *)
Believe ==
  /\ phase = "observed" /\ phase' = "idle"
  /\ believed' = TRUE
  /\ \E observed, block \in Chain :
       /\ observed.slot = floor
       /\ Optimistic(question) => block = observed
       /\ Final(question) => block.slot <= FinalizedAsOf(observed).slot
       /\ Optimistic(question) \/ Final(question) => TrueAt(question, block)
  /\ UNCHANGED <<question, head, floor>>

(* No, or an exception. *)
Refuse ==
  /\ phase \in {"asked", "observed"} /\ phase' = "idle"
  /\ UNCHANGED <<question, head, floor, believed>>

Next == Ask \/ AdvanceHead \/ Observe \/ Believe \/ Refuse

Spec     == Init /\ [][Next]_vars
FairSpec == Spec /\ WF_vars(Believe \/ Refuse \/ Observe)
=============================================================================
