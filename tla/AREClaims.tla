----------------------------- MODULE AREClaims -----------------------------
(***************************************************************************)
(* What the specification specs/ARE/README.md and the comments of the      *)
(* reference verifier say of an accepted envelope, taken at their word.    *)
(* Each is checked by a run of its own, in which the code does not keep    *)
(* it; the README says how.                                                *)
(***************************************************************************)
EXTENDS AREVerify

(* README.md:484-487: "If all steps pass, the verifier has established:    *)
(* each value in reads is the true Ethereum state at block_number, whose   *)
(* header was signed by ... the period's sync committee".  The code relates *)
(* the read block to the signed header for finality_status 0 and 1 only.   *)
AcceptedIsTrue == Accepted => TrueAt(envelope, anchor.read_block_header)

(* README.md:508: "Enforce the >= 2/3 participation quorum (step 3)".  The *)
(* code asks for more than half.                                           *)
TwoThirdsQuorum ==
  Accepted => 3 * popcount(anchor.sync_committee_bits) >= 2 * SYNC_COMMITTEE_SIZE(PRESET)

(* are_verify.py:3: "Returns ACCEPT or REJECT@stepN".  Several inputs end  *)
(* the call with an exception instead.                                     *)
VerdictReturned == result.verdict # "raise"
============================================================================
