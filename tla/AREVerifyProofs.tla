-------------------------- MODULE AREVerifyProofs --------------------------
(***************************************************************************)
(* Proofs about AREVerify, for every committee, chain, trie, input and     *)
(* staleness bound: type correctness, the soundness of acceptance, the     *)
(* refinement of ReadOracle, and the completeness of the verifier for the  *)
(* packages of HonestPackages.                                             *)
(*                                                                         *)
(* AcceptSound speaks of the moment verify returns; to prove it, IInv      *)
(* carries along what every step that has been passed has established      *)
(* about the arguments of the call, which no step changes.                 *)
(***************************************************************************)
EXTENDS HonestPackages, FiniteSetTheorems, TLAPS

---------------------------------------------------------------------------
(* The steps from a given one on. *)
From10 == {"step10"}
From9  == {"step9"} \union From10
From8  == {"step8"} \union From9
From7  == {"step7"} \union From8
From6  == {"step6"} \union From7
From5  == {"step5"} \union From6
From4  == {"step4"} \union From5

Passed(steps) == pc \in steps \/ Accepted

SignedBySync == CommitteeKnown /\ SeatsExist /\ SignatureOk

ReadsOk(n) == \A j \in 1 .. n : ReadOk(envelope.reads[j], bound_state_root)

Running == pc # "idle" => result = NoResult

Stages ==
  /\ Passed(From4) => Quorum
  /\ Passed(From5) => SignedBySync
  /\ Passed(From6) => ExecutionBound
  /\ Passed(From8) => FinalityEntailed
  /\ pc \notin From8 => read_index = 0
  /\ pc = "step8" => ReadsOk(read_index)
  /\ Passed(From9) => ReadsOk(Len(envelope.reads))

IInv == TypeOK /\ Running /\ Stages /\ FloorOnChain

---------------------------------------------------------------------------
(* The larger of two naturals is one of them. *)
LEMMA MaxOfTwo ==
  ASSUME NEW a \in Nat, NEW b \in Nat
  PROVE  Max({a, b}) \in {a, b} /\ Max({a, b}) \in Nat
<1>1. PICK x \in {a, b} : \A y \in {a, b} : x >= y
  <2>1. CASE a >= b
    BY <2>1
  <2>2. CASE ~(a >= b)
    BY <2>2
  <2> QED BY <2>1, <2>2
<1>2. Max({a, b}) = CHOOSE m \in {a, b} : \A y \in {a, b} : m >= y
  BY DEF Max
<1>3. Max({a, b}) \in {a, b}
  BY <1>1, <1>2
<1> QED BY <1>3

(* The arguments of a call are one of the inputs. *)
LEMMA ArgumentTypes ==
  ASSUME TypeOK
  PROVE  /\ Len(envelope.reads) \in Nat
         /\ DOMAIN envelope.reads = 1 .. Len(envelope.reads)
         /\ anchor.attested_header.slot \in Nat
         /\ anchor.finalized_header.slot \in Nat
         /\ anchor.read_block_header.slot \in Nat
         /\ anchor.read_block_header # NONE
         /\ anchor.read_block_header.slot \in Slots
<1>1. /\ <<envelope, anchor>> \in Inputs
      /\ <<envelope, anchor>>[1] = envelope /\ <<envelope, anchor>>[2] = anchor
  BY DEF TypeOK
<1>2. anchor.read_block_header.slot \in Slots
  BY <1>1 DEF Slots
<1> QED BY <1>1, <1>2, InputsAssumption

---------------------------------------------------------------------------
(* Type correctness *)

LEMMA InitTyped == Init => TypeOK
<1> SUFFICES ASSUME Init PROVE TypeOK
  OBVIOUS
<1>1. PICK input \in Inputs : envelope = input[1] /\ anchor = input[2]
  BY DEF Init
<1>2. <<envelope, anchor>> \in Inputs /\ Len(envelope.reads) \in Nat
  BY <1>1, InputsAssumption
<1>3. result.verdict = "none" /\ result.provider_sig_ok = "None"
  BY DEF Init, NoResult
<1> QED
  BY <1>2, <1>3 DEF Init, TypeOK

(* Moving on to another step keeps the types. *)
LEMMA GotoTyped ==
  ASSUME TypeOK, NEW step \in {"idle"} \union Steps, Goto(step)
  PROVE  TypeOK'
BY DEF TypeOK, Goto, call, cfg

(* So does returning a verdict. *)
LEMMA FinishTyped ==
  ASSUME TypeOK, NEW verdict \in {"none", "ACCEPT", "raise"} \union Rejects,
         NEW sig_ok \in {"None", "True", "False"}, Finish(verdict, sig_ok)
  PROVE  TypeOK'
<1>1. result'.verdict = verdict /\ result'.provider_sig_ok = sig_ok
  BY DEF Finish
<1>2. 0 \in 0 .. Len(envelope.reads)
  BY ArgumentTypes
<1> QED BY <1>1, <1>2 DEF TypeOK, Finish, call, cfg

LEMMA NextTyped == TypeOK /\ [Next]_vars => TypeOK'
<1> SUFFICES ASSUME TypeOK, [Next]_vars PROVE TypeOK'
  OBVIOUS
<1>s. \A n \in Steps : n \in {"idle"} \union Steps
  OBVIOUS
<1>r. \A v \in Rejects : v \in {"none", "ACCEPT", "raise"} \union Rejects
  OBVIOUS
<1>raise. Raise => TypeOK'
  BY FinishTyped DEF Raise
<1>reject. \A v \in Rejects : Reject(v) => TypeOK'
  BY FinishTyped, <1>r DEF Reject
<1>check. ASSUME NEW step, NEW condition, NEW next \in Steps, NEW verdict \in Rejects,
                 Check(step, condition, next, verdict)
          PROVE  TypeOK'
  BY <1>check, <1>reject, GotoTyped DEF Check
<1>1. CASE Call
  <2>1. PICK input \in Inputs : envelope' = input[1] /\ anchor' = input[2]
    BY <1>1 DEF Call
  <2>2. <<envelope', anchor'>> \in Inputs /\ Len(envelope'.reads) \in Nat
    BY <2>1, InputsAssumption
  <2>3. result'.verdict = "none" /\ result'.provider_sig_ok = "None"
    BY <1>1 DEF Call, NoResult
  <2> QED
    BY <1>1, <2>2, <2>3 DEF Call, TypeOK, Steps, cfg
<1>2. CASE AdvanceHead
  BY <1>2 DEF AdvanceHead, TypeOK, call
<1>3. CASE Step1
  BY <1>3, <1>check DEF Step1, Steps, Rejects
<1>4. CASE Step2
  BY <1>4, <1>check, <1>raise DEF Step2, Steps, Rejects
<1>5. CASE Step3
  BY <1>5, <1>check DEF Step3, Steps, Rejects
<1>6. CASE Step4
  BY <1>6, <1>check, <1>reject, <1>raise DEF Step4, Steps, Rejects
<1>7. CASE Step5
  BY <1>7, <1>check DEF Step5, Steps, Rejects
<1>8. CASE Step6
  <2>1. CASE pc = "step6" /\ ~Fresh /\ Reject("REJECT@step6")
    BY <2>1, <1>reject DEF Rejects
  <2>2. CASE /\ monotonic_max_seen_slot' = Max({monotonic_max_seen_slot, anchor.attested_header.slot})
             /\ pc' = "step7"
             /\ UNCHANGED <<call, read_index, head_slot, result>>
    <3>1. monotonic_max_seen_slot' \in Nat
      BY <2>2, MaxOfTwo, ArgumentTypes DEF TypeOK
    <3> QED BY <2>2, <3>1 DEF TypeOK, Steps, call
  <2> QED BY <1>8, <2>1, <2>2 DEF Step6
<1>9. CASE Step7
  BY <1>9, <1>check DEF Step7, Steps, Rejects
<1>10. CASE Step8
  <2>1. CASE Step8Read
    <3>1. read_index' \in 0 .. Len(envelope.reads)
      BY <2>1, ArgumentTypes DEF Step8Read, TypeOK
    <3> QED BY <2>1, <3>1 DEF Step8Read, TypeOK, call, cfg
  <2>2. CASE Raise
    BY <2>2, <1>raise
  <2>3. CASE Reject("REJECT@step8")
    BY <2>3, <1>reject DEF Rejects
  <2>4. CASE Goto("step9")
    BY <2>4, GotoTyped DEF Steps
  <2> QED BY <1>10, <2>1, <2>2, <2>3, <2>4 DEF Step8
<1>11. CASE Step9
  BY <1>11, <1>check DEF Step9, Steps, Rejects
<1>12. CASE Step10
  <2>1. \A sig_ok \in {"None", "True", "False"} : Finish("ACCEPT", sig_ok) => TypeOK'
    BY FinishTyped
  <2> QED
    BY <1>12, <2>1, <1>raise, <1>reject DEF Step10, Rejects
<1>13. CASE UNCHANGED vars
  BY <1>13 DEF vars, call, TypeOK
<1> QED
  BY <1>1, <1>2, <1>3, <1>4, <1>5, <1>6, <1>7, <1>8, <1>9, <1>10, <1>11, <1>12, <1>13
  DEF Next, VerifyStep

(* The state of the verifier keeps its types: the arguments of a call are  *)
(* never touched, the loop of step 8 stays within the batch, the floor is  *)
(* a slot and every verdict is one that verify can return.                 *)
THEOREM TypeCorrect == Spec => []TypeOK
<1>1. Init => TypeOK
  BY InitTyped
<1>2. TypeOK /\ [Next]_vars => TypeOK'
  BY NextTyped
<1> QED BY <1>1, <1>2, PTL DEF Spec

---------------------------------------------------------------------------
(* What the checks establish about the chain *)

(* Steps 3 and 4 pass only for the header of a block of the chain.         *)
LEMMA SignedOnChain ==
  ASSUME Quorum, SignedBySync
  PROVE  anchor.attested_header \in Chain
<1> DEFINE bits == anchor.sync_committee_bits
           seats == Committees[SigPeriod]
<1>1. SigPeriod \in DOMAIN Committees /\ bits \in SUBSET DOMAIN seats
  BY DEF SignedBySync, CommitteeKnown, SeatsExist
<1>2. /\ bits # {}
      /\ \A k \in bits : <<seats[k], SigningRoot>> \in Signed
  BY DEF SignedBySync, SignatureOk, fast_aggregate_verify, participating
<1>3. SigningRoot.header = anchor.attested_header
  BY DEF SigningRoot, compute_signing_root
<1>4. PICK k \in bits : <<seats[k], SigningRoot>> \in Signed
  BY <1>2
<1>5. ASSUME SigningRoot.header \notin Chain PROVE FALSE
  <2>1. ~ (2 * popcount(bits) > SYNC_COMMITTEE_SIZE(PRESET))
    BY <1>1, <1>2, <1>4, <1>5, HonestMajority
  <2> QED BY <2>1 DEF Quorum
<1> QED BY <1>3, <1>5

(* Step 7 passes only for a checkpoint that the signed state finalized,    *)
(* and for a read block that is that checkpoint or an ancestor of it.      *)
LEMMA FinalizedOnChain ==
  ASSUME TypeOK, anchor.attested_header \in Chain, FinalizedByAttested, AncestorOfFinalized
  PROVE  /\ anchor.finalized_header = FinalizedAsOf(anchor.attested_header)
         /\ anchor.finalized_header \in Chain
         /\ anchor.finalized_header.slot <= anchor.attested_header.slot
         /\ anchor.read_block_header \in Chain
         /\ anchor.read_block_header.slot <= anchor.finalized_header.slot
<1> DEFINE fin == anchor.finalized_header
           blk == anchor.read_block_header
<1>1. fin = FinalizedAsOf(anchor.attested_header)
  BY DEF FinalizedByAttested, verify_merkle_branch, FinalizedAsOf
<1>2. fin \in Chain /\ fin.slot <= anchor.attested_header.slot
  BY <1>1, ChainAssumption
<1>3. CASE blk = fin
  BY <1>1, <1>2, <1>3, ArgumentTypes
<1>4. CASE blk # fin
  <2> DEFINE g == ancestor_gindex(blk.slot, fin.slot)
  <2>1. LeafAt(fin.state_root, g) = blk
    BY <1>4 DEF AncestorOfFinalized, verify_merkle_branch
  <2>2. InHistoryOf(fin, g)
    BY <1>2, ArgumentTypes, ChainAssumption DEF ancestor_gindex
  <2>3. blk # NONE
    BY ArgumentTypes
  <2>4. blk \in Chain /\ blk.slot < fin.slot
    BY <2>1, <2>2, <2>3 DEF InHistoryOf
  <2> QED BY <1>1, <1>2, <2>4, ArgumentTypes
<1> QED BY <1>3, <1>4

(* A read that step 8 lets pass claims what the tries hold: a lookup whose *)
(* nodes are missing proves neither presence nor absence.                  *)
LEMMA ReadSound ==
  ASSUME NEW r, NEW root, ReadOk(r, root)
  PROVE  Claim(r, root)
<1>1. ABSENT # TRUNCATED
  BY InputsAssumption
<1>2. \A key, proof, rt : /\ Found(walk(key, proof, rt)) =>
                               /\ walk(key, proof, rt) = TrieContent(rt, key)
                               /\ TrieContent(rt, key) # ABSENT
                          /\ walk(key, proof, rt) = ABSENT => TrieContent(rt, key) = ABSENT
  BY <1>1 DEF walk, Found
<1> DEFINE account == TrieContent(root, r.address)
           stored  == TrieContent(account.storageRoot, r.slot)
<1>3. Found(account_of(r, root)) => account_of(r, root) = account /\ account # ABSENT
  BY <1>2 DEF account_of
<1>4. account_of(r, root) = ABSENT => account = ABSENT
  BY <1>2 DEF account_of
<1>5. /\ Found(storage_of(r, account)) => storage_of(r, account) = stored /\ stored # ABSENT
      /\ storage_of(r, account) = ABSENT => stored = ABSENT
  BY <1>2 DEF storage_of
<1>6. CASE r.presence = 0
  <2>1. Found(account_of(r, root)) /\ ValueMatches(r, account_of(r, root))
    BY <1>6 DEF ReadOk, InclusionOk
  <2>2. ValueMatches(r, account) /\ account # ABSENT
    BY <2>1, <1>3
  <2> QED BY <1>6, <2>2, <1>5 DEF Claim, ValueMatches, be_to_int
<1>7. CASE r.presence # 0
  <2>1. ExclusionOk(r, root)
    BY <1>7 DEF ReadOk
  <2>2. CASE r.read_kind = STORAGE
    <3>1. Found(account_of(r, root)) /\ storage_of(r, account_of(r, root)) = ABSENT
      BY <2>1, <2>2 DEF ExclusionOk
    <3> QED BY <1>7, <2>1, <2>2, <3>1, <1>3, <1>5 DEF Claim, ExclusionOk
  <2>3. CASE r.read_kind # STORAGE
    BY <1>7, <2>1, <2>3, <1>4 DEF Claim, ExclusionOk
  <2> QED BY <2>2, <2>3
<1> QED BY <1>6, <1>7

(* All the checks together make the envelope true of the read block.       *)
LEMMA ChecksSuffice ==
  ASSUME TypeOK, Quorum, SignedBySync, ExecutionBound, FinalityEntailed,
         ReadsOk(Len(envelope.reads)),
         envelope.finality_status \in {OPTIMISTIC_HEAD, FINALIZED}
  PROVE  TrueAt(envelope, anchor.read_block_header)
<1> DEFINE blk == anchor.read_block_header
<1>1. anchor.attested_header \in Chain
  BY SignedOnChain
<1>2. blk \in Chain
  <2>1. CASE envelope.finality_status = OPTIMISTIC_HEAD
    BY <1>1, <2>1 DEF ExecutionBound
  <2>2. CASE envelope.finality_status = FINALIZED
    BY <1>1, <2>2, FinalizedOnChain DEF FinalityEntailed
  <2> QED BY <2>1, <2>2
<1>3. Payload(blk) = anchor.execution_header
  BY DEF ExecutionBound, verify_merkle_branch, Payload
<1>4. \A j \in DOMAIN envelope.reads : Claim(envelope.reads[j], envelope.state_root)
  BY ReadSound, ArgumentTypes DEF ReadsOk, ExecutionBound, bound_state_root
<1> QED BY <1>2, <1>3, <1>4 DEF TrueAt, ExecutionBound

---------------------------------------------------------------------------
(* The stages of a call *)

(* What a step has established stays established: the arguments of the     *)
(* call do not change under it.                                            *)
LEMMA Established ==
  ASSUME UNCHANGED call
  PROVE  /\ Quorum' <=> Quorum
         /\ SignedBySync' <=> SignedBySync
         /\ ExecutionBound' <=> ExecutionBound
         /\ FinalityEntailed' <=> FinalityEntailed
         /\ \A n \in Nat : ReadsOk(n)' <=> ReadsOk(n)
<1>1. envelope' = envelope /\ anchor' = anchor
  BY DEF call
<1>2. Quorum' <=> Quorum
  BY <1>1 DEF Quorum
<1>3. SignedBySync' <=> SignedBySync
  BY <1>1 DEF SignedBySync, CommitteeKnown, SeatsExist, SignatureOk, SigPeriod, participating,
              SigningRoot, fork_version_slot
<1>4. ExecutionBound' <=> ExecutionBound
  BY <1>1 DEF ExecutionBound
<1>5. FinalityEntailed' <=> FinalityEntailed
  BY <1>1 DEF FinalityEntailed, FinalizedByAttested, AncestorOfFinalized
<1>6. \A n \in Nat : ReadsOk(n)' <=> ReadsOk(n)
  BY <1>1 DEF ReadsOk, bound_state_root
<1> QED BY <1>2, <1>3, <1>4, <1>5, <1>6

Rest == Running /\ Stages /\ FloorOnChain

(* A call that ends in anything but ACCEPT leaves nothing to establish.    *)
LEMMA RejectKeeps ==
  ASSUME IInv, NEW verdict, verdict # "ACCEPT", NEW sig_ok, Finish(verdict, sig_ok)
  PROVE  Rest'
<1>1. pc' = "idle" /\ result'.verdict = verdict /\ read_index' = 0
  BY DEF Finish
<1>2. ~Accepted'
  BY <1>1 DEF Accepted
<1>3. FloorOnChain'
  BY DEF IInv, Finish, cfg, FloorOnChain
<1>4. Stages'
  BY <1>1, <1>2 DEF Stages, Passed, From4, From5, From6, From7, From8, From9, From10
<1> QED BY <1>1, <1>3, <1>4 DEF Rest, Running

(* A call moves on once it has established what the next step presumes.    *)
LEMMA GotoKeeps ==
  ASSUME IInv, pc # "idle", NEW step, Goto(step),
         step \in From4 => Quorum,
         step \in From5 => SignedBySync,
         step \in From6 => ExecutionBound,
         step \in From8 => FinalityEntailed,
         step \notin From8 => read_index = 0,
         step = "step8" => ReadsOk(read_index),
         step \in From9 => ReadsOk(Len(envelope.reads))
  PROVE  Rest'
<1>1. UNCHANGED call /\ UNCHANGED cfg /\ read_index' = read_index /\ pc' = step /\ result' = result
  BY DEF Goto
<1>2. result = NoResult
  BY DEF IInv, Running
<1>3. ~Accepted'
  BY <1>1, <1>2 DEF Accepted, NoResult
<1>4. Len(envelope.reads) \in Nat /\ read_index \in Nat /\ envelope' = envelope
  BY <1>1, ArgumentTypes DEF IInv, TypeOK, call
<1>5. ReadsOk(read_index)' <=> ReadsOk(read_index)
  BY <1>1, <1>4 DEF ReadsOk, bound_state_root, call
<1>6. ReadsOk(Len(envelope.reads))' <=> ReadsOk(Len(envelope.reads))
  BY <1>1, <1>4 DEF ReadsOk, bound_state_root, call
<1>7. Stages'
  BY <1>1, <1>3, <1>5, <1>6, Established DEF Stages, Passed
<1>8. FloorOnChain'
  BY <1>1 DEF IInv, FloorOnChain, cfg
<1> QED BY <1>1, <1>2, <1>7, <1>8 DEF Rest, Running

LEMMA NextKeeps == IInv /\ [Next]_vars => Rest'
<1> SUFFICES ASSUME IInv, [Next]_vars PROVE Rest'
  OBVIOUS
<1> USE DEF From4, From5, From6, From7, From8, From9, From10
<1>raise. Raise => Rest'
  BY RejectKeeps DEF Raise
<1>reject. \A v : v # "ACCEPT" /\ Reject(v) => Rest'
  BY RejectKeeps DEF Reject
<1>s. Stages /\ Running /\ FloorOnChain /\ TypeOK
  BY DEF IInv
<1>1. CASE Call
  <2>1. pc' = "step1" /\ result' = NoResult /\ read_index' = 0 /\ UNCHANGED cfg
    BY <1>1 DEF Call
  <2>2. ~Accepted'
    BY <2>1 DEF Accepted, NoResult
  <2>3. Stages'
    BY <2>1, <2>2 DEF Stages, Passed
  <2> QED BY <1>s, <2>1, <2>3 DEF Rest, Running, FloorOnChain, cfg
<1>2. CASE AdvanceHead
  <2>1. /\ pc' = pc /\ pc = "idle" /\ UNCHANGED call /\ result' = result
        /\ read_index' = read_index
        /\ monotonic_max_seen_slot' = monotonic_max_seen_slot
    BY <1>2 DEF AdvanceHead
  <2>2. envelope' = envelope /\ Len(envelope.reads) \in Nat
    BY <1>s, <2>1, ArgumentTypes DEF call
  <2>3. ReadsOk(Len(envelope.reads))' <=> ReadsOk(Len(envelope.reads))
    BY <2>1, <2>2 DEF ReadsOk, bound_state_root, call
  <2>4. Accepted' <=> Accepted
    BY <2>1 DEF Accepted
  <2>5. Stages'
    BY <1>s, <2>1, <2>3, <2>4, Established DEF Stages, Passed
  <2> QED BY <1>s, <2>1, <2>5 DEF Rest, Running, FloorOnChain
<1>i. pc \notin From8 => read_index = 0
  BY <1>s DEF Stages
<1>3. CASE Step1
  BY <1>3, <1>i, <1>reject, GotoKeeps DEF Step1, Check
<1>4. CASE Step2
  BY <1>4, <1>i, <1>reject, <1>raise, GotoKeeps DEF Step2, Check
<1>5. CASE Step3
  BY <1>5, <1>i, <1>reject, GotoKeeps DEF Step3, Check
<1>6. CASE Step4
  <2>1. CASE pc = "step4" /\ CommitteeKnown /\ SeatsExist /\ SignatureOk /\ Goto("step5")
    <3>1. Quorum /\ SignedBySync
      BY <1>s, <2>1 DEF Stages, Passed, SignedBySync
    <3> QED BY <2>1, <3>1, <1>i, GotoKeeps
  <2> QED BY <1>6, <2>1, <1>reject, <1>raise DEF Step4, Check
<1>7. CASE Step5
  <2>1. CASE pc = "step5" /\ ExecutionBound /\ Goto("step6")
    <3>1. Quorum /\ SignedBySync
      BY <1>s, <2>1 DEF Stages, Passed
    <3> QED BY <2>1, <3>1, <1>i, GotoKeeps
  <2> QED BY <1>7, <2>1, <1>reject DEF Step5, Check
<1>8. CASE Step6
  <2>1. CASE /\ pc = "step6"
             /\ monotonic_max_seen_slot' = Max({monotonic_max_seen_slot, anchor.attested_header.slot})
             /\ pc' = "step7"
             /\ UNCHANGED <<call, read_index, head_slot, result>>
    <3>1. Quorum /\ SignedBySync /\ ExecutionBound /\ read_index = 0
      BY <1>s, <1>i, <2>1 DEF Stages, Passed
    <3>2. anchor.attested_header \in Chain
      BY <3>1, SignedOnChain
    <3>3. monotonic_max_seen_slot' \in {monotonic_max_seen_slot, anchor.attested_header.slot}
      BY <1>s, <2>1, MaxOfTwo, ArgumentTypes DEF TypeOK
    <3>4. FloorOnChain'
      BY <1>s, <3>2, <3>3 DEF FloorOnChain
    <3>5. ~Accepted' /\ Running'
      BY <1>s, <2>1 DEF Running, Accepted, NoResult
    <3>6. Stages'
      BY <2>1, <3>1, <3>5, Established DEF Stages, Passed
    <3> QED BY <3>4, <3>5, <3>6 DEF Rest
  <2> QED BY <1>8, <2>1, <1>reject DEF Step6
<1>9. CASE Step7
  <2>1. CASE pc = "step7" /\ FinalityEntailed /\ Goto("step8")
    <3>1. Quorum /\ SignedBySync /\ ExecutionBound /\ read_index = 0
      BY <1>s, <1>i, <2>1 DEF Stages, Passed
    <3>2. ReadsOk(read_index)
      BY <3>1 DEF ReadsOk
    <3> QED BY <2>1, <3>1, <3>2, GotoKeeps
  <2> QED BY <1>9, <2>1, <1>reject DEF Step7, Check
<1>10. CASE Step8
  <2>a. CASE pc = "step8"
    <3>1. Quorum /\ SignedBySync /\ ExecutionBound /\ FinalityEntailed /\ ReadsOk(read_index)
      BY <1>s, <2>a DEF Stages, Passed
    <3>2. Len(envelope.reads) \in Nat /\ read_index \in 0 .. Len(envelope.reads)
      BY <1>s, ArgumentTypes DEF TypeOK
    <3>3. CASE Step8Read
      <4>1. /\ pc' = pc /\ UNCHANGED call /\ UNCHANGED cfg /\ result' = result
            /\ read_index' = read_index + 1 /\ ReadOk(envelope.reads[read_index + 1], bound_state_root)
        BY <3>3 DEF Step8Read, CurrentRead
      <4>2. ReadsOk(read_index + 1)
        BY <3>1, <3>2, <4>1 DEF ReadsOk
      <4>3. ReadsOk(read_index)'
        BY <4>1, <4>2 DEF ReadsOk, bound_state_root, call
      <4>4. ~Accepted' /\ Running'
        BY <1>s, <2>a, <4>1 DEF Running, Accepted, NoResult
      <4>5. Stages'
        BY <2>a, <3>1, <4>1, <4>3, <4>4, Established DEF Stages, Passed
      <4>6. FloorOnChain'
        BY <1>s, <4>1 DEF FloorOnChain, cfg
      <4> QED BY <4>4, <4>5, <4>6 DEF Rest
    <3>4. CASE Raise \/ Reject("REJECT@step8")
      BY <3>4, <1>raise, <1>reject
    <3>5. CASE read_index >= Len(envelope.reads) /\ Goto("step9")
      <4>1. ReadsOk(Len(envelope.reads))
        BY <3>1, <3>2, <3>5 DEF ReadsOk
      <4> QED BY <2>a, <3>1, <3>5, <4>1, GotoKeeps
    <3> QED BY <1>10, <3>3, <3>4, <3>5 DEF Step8
  <2> QED BY <1>10, <2>a DEF Step8, Step8Read
<1>11. CASE Step9
  <2>1. CASE pc = "step9" /\ Goto("step10")
    <3>1. /\ Quorum /\ SignedBySync /\ ExecutionBound /\ FinalityEntailed
          /\ ReadsOk(Len(envelope.reads))
      BY <1>s, <2>1 DEF Stages, Passed
    <3> QED BY <2>1, <3>1, GotoKeeps
  <2> QED BY <1>11, <2>1, <1>reject DEF Step9, Check
<1>12. CASE Step10
  <2>1. ASSUME NEW sig_ok, Finish("ACCEPT", sig_ok), pc = "step10" PROVE Rest'
    <3>1. /\ Quorum /\ SignedBySync /\ ExecutionBound /\ FinalityEntailed
          /\ ReadsOk(Len(envelope.reads))
      BY <1>s, <2>1 DEF Stages, Passed
    <3>2. pc' = "idle" /\ read_index' = 0 /\ UNCHANGED call /\ UNCHANGED cfg
      BY <2>1 DEF Finish
    <3>3. ReadsOk(Len(envelope.reads))'
      BY <3>1, <3>2 DEF ReadsOk, bound_state_root, call
    <3>4. Stages'
      BY <3>1, <3>2, <3>3, Established DEF Stages
    <3> QED BY <1>s, <3>2, <3>4 DEF Rest, Running, FloorOnChain, cfg
  <2> QED BY <1>12, <2>1, <1>raise, <1>reject DEF Step10
<1>13. CASE UNCHANGED vars
  <2>1. /\ pc' = pc /\ UNCHANGED call /\ result' = result /\ read_index' = read_index
        /\ monotonic_max_seen_slot' = monotonic_max_seen_slot
    BY <1>13 DEF vars, call
  <2>2. ReadsOk(Len(envelope.reads))' <=> ReadsOk(Len(envelope.reads))
    BY <2>1 DEF ReadsOk, bound_state_root, call
  <2>3. ReadsOk(read_index)' <=> ReadsOk(read_index)
    BY <2>1 DEF ReadsOk, bound_state_root, call
  <2>4. Accepted' <=> Accepted
    BY <2>1 DEF Accepted
  <2>5. Stages'
    BY <1>s, <2>1, <2>2, <2>3, <2>4, Established DEF Stages, Passed
  <2> QED BY <1>s, <2>1, <2>5 DEF Rest, Running, FloorOnChain
<1> QED
  BY <1>1, <1>2, <1>3, <1>4, <1>5, <1>6, <1>7, <1>8, <1>9, <1>10, <1>11, <1>12, <1>13
  DEF Next, VerifyStep

LEMMA Inductive == Spec => []IInv
<1>1. Init => IInv
  <2> SUFFICES ASSUME Init PROVE IInv
    OBVIOUS
  <2>1. pc = "idle" /\ read_index = 0 /\ ~Accepted /\ monotonic_max_seen_slot = 0
    BY DEF Init, Accepted, NoResult
  <2>2. Stages
    BY <2>1 DEF Stages, Passed, From4, From5, From6, From7, From8, From9, From10
  <2> QED BY <2>1, <2>2, InitTyped DEF IInv, Running, FloorOnChain
<1>2. IInv /\ [Next]_vars => IInv'
  BY NextTyped, NextKeeps DEF IInv, Rest
<1> QED BY <1>1, <1>2, PTL DEF Spec

(* Whatever anchor, proofs and signatures are submitted, an envelope that  *)
(* verify accepts with a defined finality_status tells the truth about a   *)
(* valid block of the beacon chain.                                        *)
THEOREM AcceptanceSound == Spec => []AcceptSound
<1>1. IInv => AcceptSound
  <2> SUFFICES ASSUME IInv, Accepted, envelope.finality_status \in {OPTIMISTIC_HEAD, FINALIZED}
               PROVE  TrueAt(envelope, anchor.read_block_header)
    BY DEF AcceptSound
  <2>1. /\ TypeOK /\ Quorum /\ SignedBySync /\ ExecutionBound /\ FinalityEntailed
        /\ ReadsOk(Len(envelope.reads))
    BY DEF IInv, Stages, Passed
  <2> QED BY <2>1, ChecksSuffice
<1> QED BY <1>1, Inductive, PTL

(* An accepted FINALIZED envelope answers from a block that the header the *)
(* committee signed finalizes.                                             *)
THEOREM FinalitySound == Spec => []FinalizedSound
<1>1. IInv => FinalizedSound
  <2> SUFFICES ASSUME IInv, Accepted, envelope.finality_status = FINALIZED
               PROVE  LET checkpoint == FinalizedAsOf(anchor.attested_header)
                      IN  checkpoint \in Chain /\ anchor.read_block_header.slot <= checkpoint.slot
    BY DEF FinalizedSound
  <2>1. TypeOK /\ Quorum /\ SignedBySync /\ FinalizedByAttested /\ AncestorOfFinalized
    BY DEF IInv, Stages, Passed, FinalityEntailed
  <2> QED BY <2>1, SignedOnChain, FinalizedOnChain
<1> QED BY <1>1, Inductive, PTL

(* The floor is the slot of a block of the chain, whoever raised it.       *)
THEOREM FloorSound == Spec => []FloorOnChain
<1>1. IInv => FloorOnChain
  BY DEF IInv
<1> QED BY <1>1, Inductive, PTL

---------------------------------------------------------------------------
(* Dispute mode *)

(* The signed message is the envelope, but for the signature itself and    *)
(* the declared_state_root of each read.                                   *)
LEMMA SignedMessage ==
  ASSUME NEW e, {"reads", "provider_sig"} \subseteq DOMAIN e,
         NEW msg, msg = envelope_signing_root(e)
  PROVE  /\ \A f \in DOMAIN e \ {"reads", "provider_sig"} : msg[f] = e[f]
         /\ DOMAIN msg.reads = DOMAIN e.reads
         /\ \A j \in DOMAIN e.reads : \A f \in DOMAIN e.reads[j] \ {"declared_state_root"} :
              msg.reads[j][f] = e.reads[j][f]
<1> DEFINE bare(r) == [r EXCEPT !.declared_state_root = NONE]
           inner == [e EXCEPT !.provider_sig = NoSignature]
           signed == [j \in DOMAIN e.reads |-> bare(e.reads[j])]
<1>1. /\ DOMAIN inner = DOMAIN e
      /\ \A f \in DOMAIN e \ {"provider_sig"} : inner[f] = e[f]
  OBVIOUS
<1>2. inner.reads = e.reads
  BY <1>1
<1>3. msg = [inner EXCEPT !.reads = [j \in DOMAIN inner.reads |-> bare(inner.reads[j])]]
  BY DEF envelope_signing_root
<1>4. msg = [inner EXCEPT !.reads = signed]
  BY <1>2, <1>3
<1>5. msg.reads = signed
  BY <1>1, <1>4
<1>6. \A f \in DOMAIN e \ {"reads", "provider_sig"} : msg[f] = e[f]
  BY <1>1, <1>4
<1>7. \A j \in DOMAIN e.reads : \A f \in DOMAIN e.reads[j] \ {"declared_state_root"} :
        bare(e.reads[j])[f] = e.reads[j][f]
  OBVIOUS
<1>8. DOMAIN msg.reads = DOMAIN e.reads /\ \A j \in DOMAIN e.reads : msg.reads[j] = bare(e.reads[j])
  BY <1>5
<1> QED BY <1>6, <1>7, <1>8

(* Only step 10 accepts; in dispute mode it has then verified a signature. *)
LEMMA AcceptedSigned ==
  ASSUME TypeOK, Step10, Accepted', DisputeMode, envelope.sig_alg # SIG_ALG_NONE
  PROVE  DisputeSigned'
<1>1. ProviderSigOk /\ UNCHANGED call
  BY DEF Step10, Finish, Reject, Raise, Accepted
<1>2. /\ <<envelope.provider_key_hint, envelope.sig_alg>> \in DOMAIN ProviderKeys
      /\ ProviderKey = ProviderKeys[<<envelope.provider_key_hint, envelope.sig_alg>>]
  BY <1>1 DEF ProviderSigOk, ProviderKey, resolve_provider_key
<1>3. envelope.provider_sig = [key |-> ProviderKey, msg |-> envelope_signing_root(envelope)]
  BY <1>1 DEF ProviderSigOk, verify_provider_sig
<1>4. /\ envelope.provider_sig.key = ProviderKey
      /\ envelope.provider_sig.msg = envelope_signing_root(envelope)
  BY <1>3
<1>5. {"reads", "provider_sig"} \subseteq DOMAIN envelope
  <2>1. <<envelope, anchor>> \in Inputs
    BY DEF TypeOK
  <2> QED BY <2>1, InputsAssumption
<1>6. envelope' = envelope
  BY <1>1 DEF call
<1> QED BY <1>2, <1>4, <1>5, <1>6, SignedMessage DEF DisputeSigned

(* In dispute mode an accepted envelope that names a signature algorithm   *)
(* was signed, as it stands, by the key its hint resolves to.              *)
THEOREM DisputeSignatures == Spec => []DisputeSigned
<1>1. Init => DisputeSigned
  BY DEF Init, NoResult, DisputeSigned, Accepted
<1>2. IInv /\ DisputeSigned /\ [Next]_vars => DisputeSigned'
  <2> SUFFICES ASSUME IInv, DisputeSigned, [Next]_vars, Accepted', DisputeMode,
                      envelope'.sig_alg # SIG_ALG_NONE
               PROVE  DisputeSigned'
    BY DEF DisputeSigned
  <2>t. TypeOK /\ Running
    BY DEF IInv
  <2>same. ASSUME UNCHANGED <<call, result>> PROVE DisputeSigned'
    BY <2>same DEF call, DisputeSigned, Accepted
  <2>go. ASSUME NEW step, Goto(step) PROVE DisputeSigned'
    BY <2>go, <2>same DEF Goto
  <2>end. ASSUME NEW verdict, verdict # "ACCEPT", NEW sig_ok, Finish(verdict, sig_ok)
          PROVE  FALSE
    BY <2>end DEF Finish, Accepted
  <2>reject. \A verdict \in Rejects : ~Reject(verdict)
    BY <2>end DEF Reject, Rejects
  <2>raise. ~Raise
    BY <2>end DEF Raise
  <2>check. ASSUME NEW step, NEW condition, NEW next, NEW verdict \in Rejects,
                   Check(step, condition, next, verdict)
            PROVE  DisputeSigned'
    BY <2>check, <2>reject, <2>go DEF Check
  <2>1. CASE Call
    BY <2>1 DEF Call, Accepted, NoResult
  <2>2. CASE AdvanceHead
    BY <2>2, <2>same DEF AdvanceHead
  <2>3. CASE Step1
    BY <2>3, <2>check DEF Step1, Rejects
  <2>4. CASE Step2
    BY <2>4, <2>check, <2>raise DEF Step2, Rejects
  <2>5. CASE Step3
    BY <2>5, <2>check DEF Step3, Rejects
  <2>6. CASE Step4
    BY <2>6, <2>check, <2>reject, <2>raise DEF Step4, Rejects
  <2>7. CASE Step5
    BY <2>7, <2>check DEF Step5, Rejects
  <2>8. CASE Step6
    BY <2>8, <2>same, <2>reject DEF Step6, Rejects
  <2>9. CASE Step7
    BY <2>9, <2>check DEF Step7, Rejects
  <2>10. CASE Step8
    BY <2>10, <2>same, <2>go, <2>reject, <2>raise DEF Step8, Step8Read, Rejects
  <2>11. CASE Step9
    BY <2>11, <2>check DEF Step9, Rejects
  <2>12. CASE Step10
    <3>1. UNCHANGED call
      BY <2>12 DEF Step10, Finish, Reject, Raise
    <3>2. envelope.sig_alg # SIG_ALG_NONE
      BY <3>1 DEF call
    <3> QED BY <2>12, <2>t, <3>2, AcceptedSigned
  <2>13. CASE UNCHANGED vars
    BY <2>13, <2>same DEF vars, call
  <2> QED
    BY <2>1, <2>2, <2>3, <2>4, <2>5, <2>6, <2>7, <2>8, <2>9, <2>10, <2>11, <2>12, <2>13
    DEF Next, VerifyStep
<1> QED BY <1>1, <1>2, Inductive, PTL DEF Spec

---------------------------------------------------------------------------
(* AREVerify implements ReadOracle: each step of verify is a step of the   *)
(* oracle under the mapping of AREVerify!Oracle, or leaves the oracle's    *)
(* state as it is.                                                         *)
(*                                                                         *)
(* Step 6 observes a block, step 10 believes; between them the oracle      *)
(* remembers the block by its floor alone.  Observed ties the two: from    *)
(* step 7 on the floor is the slot of the header whose signature step 4    *)
(* verified.                                                               *)

Observed == pc \in From7 => monotonic_max_seen_slot = anchor.attested_header.slot

RefInv == IInv /\ Observed

---------------------------------------------------------------------------
(* The mapping, step by step *)

(* The state of the oracle, as the verifier's variables give it. *)
OracleState == <<CallPhase, envelope, head_slot, monotonic_max_seen_slot, Accepted>>

OracleStep == Oracle!Next \/ UNCHANGED OracleState

(* Accepted is a truth value, and FALSE as long as a call runs. *)
LEMMA AcceptedFalse ==
  ASSUME Running, pc # "idle"
  PROVE  Accepted = FALSE
BY DEF Running, Accepted, NoResult

LEMMA OracleInit == Init => Oracle!Init
<1> SUFFICES ASSUME Init PROVE Oracle!Init
  OBVIOUS
<1>1. PICK input \in Inputs : envelope = input[1]
  BY DEF Init
<1>2. envelope \in Envelopes
  BY <1>1 DEF Envelopes
<1>3. Accepted = FALSE
  BY DEF Init, NoResult, Accepted
<1> QED BY <1>2, <1>3 DEF Init, Oracle!Init, CallPhase

(* The client's call asks the oracle. *)
LEMMA OracleAsk == Call => Oracle!Ask
<1> SUFFICES ASSUME Call PROVE Oracle!Ask
  OBVIOUS
<1>1. PICK input \in Inputs : envelope' = input[1]
  BY DEF Call
<1>2. envelope' \in Envelopes
  BY <1>1 DEF Envelopes
<1>3. Accepted' = FALSE
  BY DEF Call, NoResult, Accepted
<1> QED BY <1>2, <1>3 DEF Call, Oracle!Ask, CallPhase, cfg

LEMMA OracleAdvance == AdvanceHead => Oracle!AdvanceHead
<1> SUFFICES ASSUME AdvanceHead PROVE Oracle!AdvanceHead
  OBVIOUS
<1>1. Accepted' = Accepted /\ CallPhase' = CallPhase /\ CallPhase = "idle"
  BY DEF AdvanceHead, Accepted, CallPhase
<1>2. head_slot' \in Heads /\ head_slot' > head_slot
  BY DEF AdvanceHead
<1> QED BY <1>1, <1>2 DEF AdvanceHead, Oracle!AdvanceHead, call

(* A call that ends without ACCEPT is a refusal. *)
LEMMA OracleRefuse ==
  ASSUME Running, pc \in Steps, NEW verdict, verdict # "ACCEPT", NEW sig_ok,
         Finish(verdict, sig_ok)
  PROVE  Oracle!Refuse
<1>1. CallPhase \in {"asked", "observed"} /\ CallPhase' = "idle"
  BY DEF CallPhase, Finish, Steps
<1>2. Accepted = FALSE /\ Accepted' = FALSE
  BY AcceptedFalse DEF Accepted, Finish, Steps
<1> QED BY <1>1, <1>2 DEF Oracle!Refuse, Finish, call, cfg

(* Moving on within a phase is a stuttering step of the oracle. *)
LEMMA OracleStutter ==
  ASSUME NEW step, Goto(step), pc # "idle", step # "idle", pc \in From7 <=> step \in From7
  PROVE  UNCHANGED OracleState
<1>1. CallPhase' = CallPhase
  BY DEF CallPhase, Goto, From7, From8, From9, From10
<1>2. Accepted' = Accepted
  BY DEF Accepted, Goto
<1> QED BY <1>1, <1>2 DEF OracleState, Goto, call, cfg

(* Step 6 passes for a header that is fresh and no older than the floor,   *)
(* and the floor becomes its slot.                                         *)
LEMMA FloorIsAttested ==
  ASSUME TypeOK, Fresh
  PROVE  Max({monotonic_max_seen_slot, anchor.attested_header.slot})
           = anchor.attested_header.slot
<1> DEFINE a == monotonic_max_seen_slot
           b == anchor.attested_header.slot
<1>1. a \in Nat /\ b \in Nat /\ b >= a
  BY ArgumentTypes DEF TypeOK, Fresh
<1>2. Max({a, b}) = CHOOSE m \in {a, b} : \A y \in {a, b} : m >= y
  BY DEF Max
<1>3. \A m \in {a, b} : (\A y \in {a, b} : m >= y) => m = b
  BY <1>1
<1>4. \A y \in {a, b} : b >= y
  BY <1>1
<1> QED BY <1>2, <1>3, <1>4

LEMMA OracleObserve ==
  ASSUME IInv, pc = "step6", Fresh,
         monotonic_max_seen_slot' = Max({monotonic_max_seen_slot, anchor.attested_header.slot}),
         pc' = "step7", UNCHANGED <<call, read_index, head_slot, result>>
  PROVE  Oracle!Observe
<1> DEFINE signed == anchor.attested_header
<1>1. Quorum /\ SignedBySync /\ TypeOK
  BY DEF IInv, Stages, Passed, From4, From5, From6, From7
<1>2. signed \in Chain
  BY <1>1, SignedOnChain
<1>3. monotonic_max_seen_slot' = signed.slot
  BY <1>1, FloorIsAttested
<1>4. signed.slot >= monotonic_max_seen_slot /\ signed.slot >= head_slot - MaxStalenessSlots
  BY DEF Fresh
<1>5. CallPhase = "asked" /\ CallPhase' = "observed" /\ Accepted' = Accepted
  BY DEF CallPhase, Accepted
<1> QED BY <1>2, <1>3, <1>4, <1>5 DEF Oracle!Observe, call

(* Step 10 accepts only what the oracle may believe. *)
LEMMA OracleBelieve ==
  ASSUME RefInv, pc = "step10", NEW sig_ok, Finish("ACCEPT", sig_ok)
  PROVE  Oracle!Believe
<1> DEFINE signed == anchor.attested_header
           blk == anchor.read_block_header
<1> USE DEF From4, From5, From6, From7, From8, From9, From10
<1>1. /\ TypeOK /\ Quorum /\ SignedBySync /\ ExecutionBound /\ FinalityEntailed
      /\ ReadsOk(Len(envelope.reads))
  BY DEF RefInv, IInv, Stages, Passed
<1>2. signed \in Chain /\ signed.slot = monotonic_max_seen_slot
  BY <1>1, SignedOnChain DEF RefInv, Observed
<1>3. AsksForHead(envelope) \/ AsksForFinalized(envelope) => TrueAt(envelope, blk)
  BY <1>1, ChecksSuffice DEF AsksForHead, AsksForFinalized
<1>4. AsksForHead(envelope) => blk = signed
  BY <1>1 DEF AsksForHead, ExecutionBound
<1>5. AsksForFinalized(envelope) => blk.slot <= FinalizedAsOf(signed).slot
  BY <1>1, <1>2, FinalizedOnChain DEF AsksForFinalized, FinalityEntailed
<1>6. CallPhase = "observed" /\ CallPhase' = "idle" /\ Accepted' = TRUE
  BY DEF CallPhase, Finish, Accepted
<1>7. envelope' = envelope /\ head_slot' = head_slot
      /\ monotonic_max_seen_slot' = monotonic_max_seen_slot
  BY DEF Finish, call, cfg
<1>8. PICK block \in Chain :
        /\ AsksForHead(envelope) => block = signed
        /\ AsksForFinalized(envelope) => block.slot <= FinalizedAsOf(signed).slot
        /\ AsksForHead(envelope) \/ AsksForFinalized(envelope) => TrueAt(envelope, block)
  <2>1. CASE AsksForHead(envelope) \/ AsksForFinalized(envelope)
    <3>1. blk \in Chain
      BY <1>3, <2>1 DEF TrueAt
    <3> QED BY <1>3, <1>4, <1>5, <3>1
  <2>2. CASE ~(AsksForHead(envelope) \/ AsksForFinalized(envelope))
    BY <1>2, <2>2
  <2> QED BY <2>1, <2>2
<1> QED BY <1>2, <1>6, <1>7, <1>8 DEF Oracle!Believe

---------------------------------------------------------------------------
(* The floor is the attested slot from step 7 to the end of the call. *)

LEMMA ObservedKept == RefInv /\ [Next]_vars => Observed'
<1> SUFFICES ASSUME RefInv, [Next]_vars PROVE Observed'
  OBVIOUS
<1> USE DEF From7, From8, From9, From10
<1>t. TypeOK /\ Observed
  BY DEF RefInv, IInv
<1>idle. pc' = "idle" => Observed'
  BY DEF Observed
<1>end. \A verdict, sig_ok : Finish(verdict, sig_ok) => Observed'
  BY <1>idle DEF Finish
<1>reject. \A verdict : Reject(verdict) => Observed'
  BY <1>end DEF Reject
<1>raise. Raise => Observed'
  BY <1>end DEF Raise
<1>go. ASSUME NEW step, Goto(step), step \in From7 => pc \in From7 PROVE Observed'
  BY <1>go, <1>t DEF Goto, Observed, call, cfg
<1>check. ASSUME NEW step, NEW condition, NEW next, NEW verdict,
                 Check(step, condition, next, verdict), next \in From7 => step \in From7
          PROVE  Observed'
  BY <1>check, <1>reject, <1>go DEF Check
<1>1. CASE Call
  BY <1>1 DEF Call, Observed
<1>2. CASE AdvanceHead
  BY <1>2 DEF AdvanceHead, Observed
<1>3. CASE Step1 \/ Step3 \/ Step5 \/ Step7 \/ Step9
  BY <1>3, <1>check DEF Step1, Step3, Step5, Step7, Step9
<1>4. CASE Step2 \/ Step4
  BY <1>4, <1>check, <1>reject, <1>raise DEF Step2, Step4
<1>5. CASE Step6
  <2>1. CASE /\ Fresh /\ pc' = "step7" /\ anchor' = anchor
             /\ monotonic_max_seen_slot'
                  = Max({monotonic_max_seen_slot, anchor.attested_header.slot})
    BY <1>t, <2>1, FloorIsAttested DEF Observed
  <2> QED BY <1>5, <2>1, <1>reject DEF Step6, call
<1>6. CASE Step8
  <2>1. CASE Step8Read
    BY <1>t, <2>1 DEF Step8Read, Observed, call, cfg
  <2>2. CASE pc = "step8" /\ Goto("step9")
    BY <2>2, <1>go
  <2> QED BY <1>6, <2>1, <2>2, <1>reject, <1>raise DEF Step8
<1>7. CASE Step10
  BY <1>7, <1>end, <1>reject, <1>raise DEF Step10
<1>8. CASE UNCHANGED vars
  BY <1>t, <1>8 DEF vars, call, Observed
<1> QED BY <1>1, <1>2, <1>3, <1>4, <1>5, <1>6, <1>7, <1>8 DEF Next, VerifyStep

LEMMA RefInductive == Spec => []RefInv
<1>1. Init => Observed
  BY DEF Init, Observed, From7, From8, From9, From10
<1>2. RefInv /\ [Next]_vars => Observed'
  BY ObservedKept
<1> QED BY <1>1, <1>2, Inductive, PTL DEF Spec, RefInv

---------------------------------------------------------------------------
(* Every step of verify is a step of the oracle or none of its business. *)
LEMMA StepImplements == RefInv /\ [Next]_vars => OracleStep
<1> SUFFICES ASSUME RefInv, [Next]_vars PROVE OracleStep
  OBVIOUS
<1>t. TypeOK /\ Running
  BY DEF RefInv, IInv
<1>s. pc \in Steps => pc # "idle"
  BY DEF Steps
<1>end. ASSUME pc \in Steps, NEW verdict, verdict # "ACCEPT", NEW sig_ok,
               Finish(verdict, sig_ok)
        PROVE  OracleStep
  BY <1>end, <1>t, OracleRefuse DEF OracleStep, Oracle!Next
<1>reject. \A verdict : pc \in Steps /\ verdict # "ACCEPT" /\ Reject(verdict) => OracleStep
  BY <1>end DEF Reject
<1>raise. pc \in Steps /\ Raise => OracleStep
  BY <1>end DEF Raise
<1>go. ASSUME NEW step \in Steps, pc \in Steps, Goto(step), pc \in From7 <=> step \in From7
       PROVE  OracleStep
  BY <1>go, OracleStutter DEF OracleStep, Steps
<1>check. ASSUME NEW step \in Steps, NEW condition, NEW next \in Steps,
                 NEW verdict, verdict # "ACCEPT", Check(step, condition, next, verdict),
                 step \in From7 <=> next \in From7
          PROVE  OracleStep
  BY <1>check, <1>reject, <1>go DEF Check
<1>1. CASE Call
  BY <1>1, OracleAsk DEF OracleStep, Oracle!Next
<1>2. CASE AdvanceHead
  BY <1>2, OracleAdvance DEF OracleStep, Oracle!Next
<1>3. CASE Step1 \/ Step3 \/ Step5 \/ Step7 \/ Step9
  BY <1>3, <1>check
  DEF Step1, Step3, Step5, Step7, Step9, Steps, From7, From8, From9, From10
<1>4. CASE Step2 \/ Step4
  BY <1>4, <1>check, <1>reject, <1>raise DEF Step2, Step4, Steps, From7, From8, From9, From10
<1>5. CASE Step6
  <2>1. CASE /\ pc = "step6" /\ Fresh
             /\ monotonic_max_seen_slot'
                  = Max({monotonic_max_seen_slot, anchor.attested_header.slot})
             /\ pc' = "step7" /\ UNCHANGED <<call, read_index, head_slot, result>>
    BY <2>1, OracleObserve DEF OracleStep, Oracle!Next, RefInv
  <2> QED BY <1>5, <2>1, <1>reject DEF Step6, Steps
<1>6. CASE Step8
  <2>1. CASE Step8Read
    <3>1. pc' = pc /\ result' = result /\ UNCHANGED call /\ UNCHANGED cfg
      BY <2>1 DEF Step8Read
    <3>2. CallPhase' = CallPhase /\ Accepted' = Accepted
      BY <3>1 DEF CallPhase, Accepted
    <3> QED BY <3>1, <3>2 DEF OracleStep, OracleState, call, cfg
  <2>2. CASE pc = "step8" /\ Goto("step9")
    BY <2>2, <1>go DEF Steps, From7, From8, From9, From10
  <2> QED BY <1>6, <2>1, <2>2, <1>reject, <1>raise DEF Step8, Step8Read, Steps
<1>7. CASE Step10
  <2>1. ASSUME NEW sig_ok, pc = "step10", Finish("ACCEPT", sig_ok) PROVE OracleStep
    BY <2>1, OracleBelieve DEF OracleStep, Oracle!Next
  <2> QED BY <1>7, <2>1, <1>reject, <1>raise DEF Step10, Steps
<1>8. CASE UNCHANGED vars
  <2>1. CallPhase' = CallPhase /\ Accepted' = Accepted
    BY <1>8 DEF vars, CallPhase, Accepted
  <2> QED BY <1>8, <2>1 DEF vars, call, OracleStep, OracleState
<1> QED
  BY <1>1, <1>2, <1>3, <1>4, <1>5, <1>6, <1>7, <1>8 DEF Next, VerifyStep

(* The verifier implements the oracle: with arbitrary inputs and whatever  *)
(* the order of its calls, a client of verify sees nothing that a client   *)
(* of ReadOracle could not see.                                            *)
THEOREM Implementation == Spec => ImplementsOracle
<1>1. Init => Oracle!Init
  BY OracleInit
<1>2. RefInv /\ [Next]_vars => [Oracle!Next]_(Oracle!vars)
  BY StepImplements DEF OracleStep, OracleState, Oracle!vars
<1> QED BY <1>1, <1>2, RefInductive, PTL DEF Spec, ImplementsOracle, Oracle!Spec

---------------------------------------------------------------------------
(* Completeness: verify turns no honest package away.  HonestChecks shows  *)
(* that the packager and the verifier agree on the signing domain, on the  *)
(* generalized index of every branch, on the anchor reference and on the   *)
(* signed message.  The invariant then follows call by call: the arguments *)
(* of a call do not change while it runs, and a package that step 6 found  *)
(* stale stays stale.                                                      *)

(* The checks of all steps but step 6. *)
ReadsPass ==
  \A j \in DOMAIN envelope.reads :
    /\ ~ReadRaises(envelope.reads[j], bound_state_root)
    /\ ReadOk(envelope.reads[j], bound_state_root)

SignaturePass ==
  envelope.sig_alg # SIG_ALG_NONE => ~envelope_root_raises(envelope) /\ ProviderSigOk

ChecksPass ==
  /\ SelfDescribed
  /\ ~anchor_root_raises(anchor) /\ AnchorBound
  /\ Quorum
  /\ SignedBySync
  /\ ExecutionBound
  /\ FinalityEntailed
  /\ ReadsPass
  /\ SameRoot
  /\ SignaturePass

---------------------------------------------------------------------------
(* An honest read passes: the lookup of the verifier ends where the trie   *)
(* does, and the value it decodes is the value claimed.                    *)
LEMMA HonestReadPasses ==
  ASSUME NEW r, NEW root, HonestRead(r, root)
  PROVE  ~ReadRaises(r, root) /\ ReadOk(r, root)
<1> DEFINE account == TrieContent(root, r.address)
           stored  == TrieContent(account.storageRoot, r.slot)
<1>1. account_of(r, root) = account
  BY DEF HonestRead, Covers, account_of, walk, TrieContent
<1>2. r.read_kind = STORAGE => storage_of(r, account) = stored
  BY DEF HonestRead, Covers, storage_of, walk, TrieContent
<1>3. /\ account # TRUNCATED /\ account \notin Undecodable
      /\ r.read_kind = STORAGE => stored # TRUNCATED /\ stored \notin Undecodable
  BY DEF HonestRead, Readable
<1>4. ~ReadRaises(r, root)
  BY <1>1, <1>2, <1>3 DEF ReadRaises
<1>5. Claim(r, root)
  BY DEF HonestRead
<1>6. CASE r.presence = 0
  <2>1. Found(account)
    BY <1>3, <1>5, <1>6 DEF Claim, Found
  <2>2. ValueMatches(r, account)
    BY <1>2, <1>3, <1>5, <1>6 DEF Claim, ValueMatches, Found, be_to_int
  <2> QED BY <1>1, <1>4, <1>6, <2>1, <2>2 DEF ReadOk, InclusionOk
<1>7. CASE r.presence # 0
  <2>1. ExclusionOk(r, root)
    BY <1>1, <1>2, <1>3, <1>5, <1>7 DEF Claim, ExclusionOk, Found
  <2> QED BY <1>4, <1>7, <2>1 DEF ReadOk
<1> QED BY <1>6, <1>7

(* The anchors of an honest packager pass steps 3, 4 and 7, and bind the   *)
(* payload of the read block.                                              *)
LEMMA SignedAnchor ==
  ASSUME SignedByCommittee(anchor.attested_header, anchor.signature_slot,
                           anchor.sync_committee_bits),
         anchor.sync_committee_signature =
           sync_aggregate(anchor.attested_header, anchor.signature_slot,
                          anchor.sync_committee_bits)
  PROVE  Quorum /\ SignedBySync
<1> DEFINE bits == anchor.sync_committee_bits
           committee == Committees[SigPeriod]
<1>1. committee_of(anchor.signature_slot) = committee
  BY DEF committee_of, SigPeriod
<1>2. SigningRoot = build_signing_root(anchor.attested_header, anchor.signature_slot)
  BY DEF SigningRoot, build_signing_root, fork_version_slot
<1>3. Quorum /\ CommitteeKnown /\ SeatsExist
  BY <1>1 DEF SignedByCommittee, Quorum, CommitteeKnown, SeatsExist, SigPeriod
<1>4. bits # {}
  <2>1. SYNC_COMMITTEE_SIZE(PRESET) \in Nat
    BY CommitteeSizeAssumption DEF SYNC_COMMITTEE_SIZE
  <2>2. Cardinality({}) = 0
    BY FS_EmptySet
  <2> QED BY <1>3, <2>1, <2>2 DEF Quorum, popcount
<1>5. participating = [i \in bits |-> committee[i]]
  BY DEF participating
<1>6. anchor.sync_committee_signature = [by |-> participating, root |-> SigningRoot]
  BY <1>1, <1>2, <1>5 DEF sync_aggregate, sign_committee
<1>7. \A i \in bits : <<participating[i], SigningRoot>> \in Signed
  BY <1>1, <1>2, <1>5 DEF SignedByCommittee
<1>8. SignatureOk
  BY <1>4, <1>5, <1>6, <1>7 DEF SignatureOk, fast_aggregate_verify
<1> QED BY <1>3, <1>8 DEF SignedBySync

(* The fields of a branch that the code builds: it has no extra elements. *)
LEMMA BranchFields ==
  ASSUME NEW g, NEW r
  PROVE  /\ build_merkle_branch(g, r).root = r
         /\ build_merkle_branch(g, r).gindex = g
         /\ build_merkle_branch(g, r).extra # "oversized"
BY DEF build_merkle_branch

(* What an honest anchor is made of, field by field. *)
HonestFields ==
  /\ Quorum /\ SignedBySync
  /\ anchor.execution_header = Payload(anchor.read_block_header)
  /\ anchor.execution_branch = make_exec_branch(anchor.read_block_header)

LEMMA HeadFields ==
  ASSUME HonestHead(anchor)
  PROVE  /\ HonestFields
         /\ anchor.has_finality = FALSE
         /\ anchor.read_block_header = anchor.attested_header
<1>1. /\ anchor.read_block_header = anchor.attested_header
      /\ anchor.execution_header = Payload(anchor.attested_header)
      /\ anchor.execution_branch = make_exec_branch(anchor.attested_header)
      /\ anchor.has_finality = FALSE
      /\ anchor.sync_committee_signature =
           sync_aggregate(anchor.attested_header, anchor.signature_slot,
                          anchor.sync_committee_bits)
  BY DEF HonestHead, base_optimistic_anchor
<1>2. Quorum /\ SignedBySync
  BY <1>1, SignedAnchor DEF HonestHead
<1> QED BY <1>1, <1>2 DEF HonestFields

LEMMA FinalizedFields ==
  ASSUME HonestFinalized(anchor)
  PROVE  /\ HonestFields
         /\ anchor.has_finality = TRUE
         /\ FinalizedByAttested /\ AncestorOfFinalized
         /\ anchor.finality_branch.extra # "oversized" /\ anchor.ancestor_proof.extra # "oversized"
<1> DEFINE head  == anchor.attested_header
           blk   == anchor.read_block_header
           fin   == FinalizedAsOf(head)
           slot  == anchor.signature_slot
           bits  == anchor.sync_committee_bits
           g     == finalized_root_gindex_for_attested_slot(head.slot)
           proof == anchor.ancestor_proof
<1>1. /\ anchor.execution_header = Payload(blk)
      /\ anchor.execution_branch = make_exec_branch(blk)
      /\ anchor.finalized_header = fin
      /\ anchor.finality_branch = build_merkle_branch(g, head.state_root)
      /\ anchor.sync_committee_signature = sync_aggregate(head, slot, bits)
  <2>1. \A p : anchor = finalized_anchor(head, fin, blk, Payload(blk), slot, bits, g, p) =>
          /\ anchor.execution_header = Payload(blk)
          /\ anchor.execution_branch = make_exec_branch(blk)
          /\ anchor.finalized_header = fin
          /\ anchor.finality_branch = build_merkle_branch(g, head.state_root)
          /\ anchor.sync_committee_signature = sync_aggregate(head, slot, bits)
    BY DEF finalized_anchor, base_optimistic_anchor
  <2> QED BY <2>1 DEF HonestFinalized, build_finalized, build_deep_ancestor
<1>2. Quorum /\ SignedBySync
  BY <1>1, SignedAnchor DEF HonestFinalized
<1>3. FinalizedByAttested
  <2>1. LeafAt(head.state_root, g) = fin
    BY DEF FinalizedAsOf
  <2>2. /\ anchor.finality_branch.root = head.state_root
        /\ anchor.finality_branch.gindex = g
    BY <1>1, BranchFields
  <2>3. anchor.finalized_header = fin
    BY <1>1
  <2> QED BY <2>1, <2>2, <2>3 DEF FinalizedByAttested, verify_merkle_branch
<1>4. \/ blk = fin /\ proof = EmptyBranch
      \/ /\ blk # fin /\ InWindow(fin, blk) /\ proof = near_ancestor(fin, blk)
         /\ LeafAt(proof.root, proof.gindex) = blk
      \/ /\ blk # fin /\ ~InWindow(fin, blk) /\ proof = deep_ancestor(fin, blk)
         /\ LeafAt(proof.root, proof.gindex) = blk
  <2>1. \A p : anchor = finalized_anchor(head, fin, blk, Payload(blk), slot, bits, g, p) =>
          proof = p
    BY DEF finalized_anchor, base_optimistic_anchor
  <2> QED BY <2>1 DEF HonestFinalized, build_finalized, build_deep_ancestor
<1>5. AncestorOfFinalized /\ proof.extra # "oversized"
  <2>1. CASE blk = fin /\ proof = EmptyBranch
    <3>1. EmptyBranch.extra # "oversized"
      BY DEF EmptyBranch
    <3> QED BY <1>1, <2>1, <3>1 DEF AncestorOfFinalized
  <2>2. CASE /\ blk # fin /\ InWindow(fin, blk) /\ proof = near_ancestor(fin, blk)
             /\ LeafAt(proof.root, proof.gindex) = blk
    <3>1. /\ proof.root = fin.state_root /\ proof.extra # "oversized"
          /\ proof.gindex = block_roots_leaf_gindex(blk.slot % SLOTS_PER_HISTORICAL_ROOT)
      BY <2>2, BranchFields DEF near_ancestor
    <3>2. proof.gindex = ancestor_gindex(blk.slot, fin.slot)
      BY <2>2, <3>1 DEF ancestor_gindex, InWindow
    <3> QED BY <1>1, <2>2, <3>1, <3>2 DEF AncestorOfFinalized, verify_merkle_branch
  <2>3. CASE /\ blk # fin /\ ~InWindow(fin, blk) /\ proof = deep_ancestor(fin, blk)
             /\ LeafAt(proof.root, proof.gindex) = blk
    <3>1. /\ proof.root = fin.state_root /\ proof.extra # "oversized"
          /\ proof.gindex = historical_summaries_leaf_gindex(blk.slot \div SLOTS_PER_HISTORICAL_ROOT,
                                                        blk.slot % SLOTS_PER_HISTORICAL_ROOT)
      BY <2>3, BranchFields DEF deep_ancestor
    <3>2. proof.gindex = ancestor_gindex(blk.slot, fin.slot)
      BY <2>3, <3>1 DEF ancestor_gindex, InWindow
    <3> QED BY <1>1, <2>3, <3>1, <3>2 DEF AncestorOfFinalized, verify_merkle_branch
  <2> QED BY <1>4, <2>1, <2>2, <2>3
<1>0. anchor.has_finality = TRUE
  BY DEF HonestFinalized, finalized_anchor, base_optimistic_anchor, build_finalized,
         build_deep_ancestor
<1>6. anchor.finality_branch.extra # "oversized"
  BY <1>1, BranchFields
<1> QED BY <1>0, <1>1, <1>2, <1>3, <1>5, <1>6 DEF HonestFields

(* The envelope takes its position from the anchor and refers to it. *)
LEMMA EnvelopeFields ==
  ASSUME NEW e, NEW a, NEW status, HonestEnvelope(e, a, status)
  PROVE  /\ e.version = 1 /\ e.chain_id = ChainId /\ e.anchor_type = 0
         /\ e.proof_format = <<0, 0, 0>>
         /\ e.anchor_ref = anchor_hash_tree_root(a)
         /\ e.state_root = a.execution_header.state_root
         /\ e.block_number = a.execution_header.block_number
         /\ e.timestamp = a.execution_header.timestamp
         /\ e.beacon_slot = a.read_block_header.slot
         /\ e.finality_status = status
<1> DEFINE Fields(x) ==
             /\ x.version = 1 /\ x.chain_id = ChainId /\ x.anchor_type = 0
             /\ x.proof_format = <<0, 0, 0>>
             /\ x.anchor_ref = anchor_hash_tree_root(a)
             /\ x.state_root = a.execution_header.state_root
             /\ x.block_number = a.execution_header.block_number
             /\ x.timestamp = a.execution_header.timestamp
             /\ x.beacon_slot = a.read_block_header.slot
             /\ x.finality_status = status
           plain == make_envelope(a, e.reads, status, e.provider_key_hint)
           unsigned(alg) == [plain EXCEPT !.sig_alg = alg]
           signed(key, alg) ==
             [unsigned(alg) EXCEPT
                !.provider_sig = [key |-> key, msg |-> envelope_signing_root(unsigned(alg))]]
<1>1. Fields(plain)
  BY DEF make_envelope
<1>2. \A key, alg : Fields(signed(key, alg))
  BY DEF make_envelope
<1>3. e = plain \/ \E key, alg : e = signed(key, alg)
  <2> HIDE DEF plain
  <2>1. plain = make_envelope(a, e.reads, status, e.provider_key_hint)
    BY DEF plain
  <2> QED BY <2>1, Zenon DEF HonestEnvelope, provider_sign
<1> HIDE DEF Fields, plain, signed
<1>4. Fields(e)
  BY <1>1, <1>2, <1>3
<1> QED BY <1>4 DEF Fields

(* The signature of an envelope does not cover itself: the message that    *)
(* was signed is the message that step 10 computes.                        *)
LEMMA SignatureNotCovered ==
  ASSUME NEW e, "provider_sig" \in DOMAIN e, NEW sig
  PROVE  envelope_signing_root([e EXCEPT !.provider_sig = sig]) = envelope_signing_root(e)
<1> DEFINE f == [e EXCEPT !.provider_sig = sig]
           bare(x) == [x EXCEPT !.provider_sig = NoSignature]
<1>1. bare(f) = bare(e)
  OBVIOUS
<1>2. \A x : envelope_signing_root(x) =
        [bare(x) EXCEPT !.reads = [j \in DOMAIN @ |-> [@[j] EXCEPT !.declared_state_root = NONE]]]
  BY DEF envelope_signing_root
<1> QED BY <1>1, <1>2

(* Nor does it change whether the envelope can be hashed: what the packager *)
(* was able to sign, step 10 is able to check.                             *)
LEMMA LimitsNotSigned ==
  ASSUME NEW e, NEW sig
  PROVE  envelope_root_raises([e EXCEPT !.provider_sig = sig]) <=> envelope_root_raises(e)
<1>1. PICK f : f = [e EXCEPT !.provider_sig = sig]
  OBVIOUS
<1>2. f.reads = e.reads /\ f.provider_key_hint = e.provider_key_hint
  BY <1>1
<1> QED BY <1>1, <1>2 DEF envelope_root_raises

LEMMA EnvelopeSignature ==
  ASSUME NEW status, HonestEnvelope(envelope, anchor, status)
  PROVE  SignaturePass
<1> DEFINE plain == make_envelope(anchor, envelope.reads, status, envelope.provider_key_hint)
           known == <<envelope.provider_key_hint, SIG_ALG_ED25519>>
           unsigned == [plain EXCEPT !.sig_alg = SIG_ALG_ED25519]
           sig == [key |-> ProviderKeys[known], msg |-> envelope_signing_root(unsigned)]
<1>1. CASE envelope = plain
  <2>1. plain.sig_alg = SIG_ALG_NONE
    BY DEF make_envelope
  <2>2. envelope.sig_alg = SIG_ALG_NONE
    BY <1>1, <2>1
  <2> QED BY <2>2 DEF SignaturePass
<1>2. CASE /\ known \in DOMAIN ProviderKeys /\ ProviderKeys[known] # NONE
           /\ ~envelope_root_raises(unsigned)
           /\ envelope = provider_sign(plain, ProviderKeys[known], SIG_ALG_ED25519)
  <2>1. envelope = [unsigned EXCEPT !.provider_sig = sig]
    BY <1>2 DEF provider_sign
  <2>2. "provider_sig" \in DOMAIN unsigned /\ unsigned.sig_alg = SIG_ALG_ED25519
    BY DEF make_envelope
  <2>3. envelope.provider_sig = sig /\ envelope.sig_alg = SIG_ALG_ED25519
    <3> HIDE DEF unsigned, sig
    <3> QED BY <2>1, <2>2
  <2>4. envelope_signing_root(envelope) = envelope_signing_root(unsigned)
    BY <2>1, <2>2, SignatureNotCovered
  <2>5. ProviderKey = ProviderKeys[known]
    BY <1>2, <2>3 DEF ProviderKey, resolve_provider_key
  <2>6. ProviderSigOk
    BY <1>2, <2>3, <2>4, <2>5 DEF ProviderSigOk, verify_provider_sig
  <2>7. ~envelope_root_raises(envelope)
    BY <1>2, <2>1, LimitsNotSigned
  <2> QED BY <2>6, <2>7 DEF SignaturePass
<1> QED BY <1>1, <1>2 DEF HonestEnvelope

(* Packager and verifier agree: an honest package passes every check but,  *)
(* perhaps, the one for freshness.                                         *)
LEMMA HonestChecks ==
  ASSUME TypeOK, <<envelope, anchor>> \in HonestInputs
  PROVE  ChecksPass
<1>1. HonestPackage(envelope, anchor)
  <2>1. <<envelope, anchor>>[1] = envelope /\ <<envelope, anchor>>[2] = anchor
    OBVIOUS
  <2> QED BY <2>1, HonestPackager
<1>2. PICK status \in {OPTIMISTIC_HEAD, FINALIZED} :
        /\ HonestEnvelope(envelope, anchor, status)
        /\ status = OPTIMISTIC_HEAD => HonestHead(anchor)
        /\ status = FINALIZED => HonestFinalized(anchor)
  BY <1>1 DEF HonestPackage, OPTIMISTIC_HEAD, FINALIZED
<1>3. /\ envelope.version = 1 /\ envelope.chain_id = ChainId /\ envelope.anchor_type = 0
      /\ envelope.proof_format = <<0, 0, 0>>
      /\ envelope.anchor_ref = anchor_hash_tree_root(anchor)
      /\ envelope.state_root = anchor.execution_header.state_root
      /\ envelope.block_number = anchor.execution_header.block_number
      /\ envelope.timestamp = anchor.execution_header.timestamp
      /\ envelope.beacon_slot = anchor.read_block_header.slot
      /\ envelope.finality_status = status
  BY <1>2, EnvelopeFields
<1>4. /\ HonestFields
      /\ status = OPTIMISTIC_HEAD =>
           anchor.has_finality = FALSE /\ anchor.read_block_header = anchor.attested_header
      /\ status = FINALIZED =>
           /\ anchor.has_finality = TRUE /\ FinalizedByAttested /\ AncestorOfFinalized
           /\ anchor.finality_branch.extra # "oversized"
           /\ anchor.ancestor_proof.extra # "oversized"
  BY <1>2, HeadFields, FinalizedFields
<1>5. SelfDescribed /\ AnchorBound
  BY <1>3 DEF SelfDescribed, AnchorBound
<1>6. ~anchor_root_raises(anchor)
  <2>1. anchor.execution_branch.extra # "oversized"
    BY <1>4, BranchFields DEF HonestFields, make_exec_branch
  <2>2. ~anchor.has_finality \/ ~("oversized" \in {anchor.finality_branch.extra,
                                                   anchor.ancestor_proof.extra})
    BY <1>4
  <2> QED BY <1>1, <2>1, <2>2 DEF anchor_root_raises, HonestPackage
<1>7. ExecutionBound
  <2> DEFINE blk == anchor.read_block_header
  <2>1. /\ anchor.execution_branch.root = blk.body_root
        /\ anchor.execution_branch.gindex = EXECUTION_PAYLOAD_GINDEX
    BY <1>4, BranchFields DEF HonestFields, make_exec_branch
  <2>2. LeafAt(blk.body_root, EXECUTION_PAYLOAD_GINDEX) = anchor.execution_header
    BY <1>4 DEF HonestFields, Payload
  <2>3. envelope.finality_status = OPTIMISTIC_HEAD => blk = anchor.attested_header
    BY <1>3, <1>4
  <2> QED BY <1>3, <2>1, <2>2, <2>3 DEF ExecutionBound, verify_merkle_branch
<1>8. FinalityEntailed
  BY <1>2, <1>3, <1>4 DEF FinalityEntailed, OPTIMISTIC_HEAD, FINALIZED
<1>9. \A j \in DOMAIN envelope.reads : HonestRead(envelope.reads[j], bound_state_root)
  BY <1>1 DEF HonestPackage, bound_state_root
<1>10. ReadsPass
  BY <1>9, HonestReadPasses DEF ReadsPass
<1>11. SameRoot
  BY <1>9 DEF SameRoot, HonestRead
<1>12. SignaturePass
  BY <1>2, EnvelopeSignature
<1> QED
  BY <1>4, <1>5, <1>6, <1>7, <1>8, <1>10, <1>11, <1>12 DEF ChecksPass, HonestFields

---------------------------------------------------------------------------
(* The calls *)

(* A stale package stays stale: between calls the head only advances and   *)
(* the floor stays.                                                        *)
LEMMA StaleKept ==
  ASSUME TypeOK, ~Fresh, AdvanceHead
  PROVE  ~Fresh'
<1>1. /\ head_slot \in Nat /\ head_slot' \in Nat /\ head_slot' > head_slot
      /\ anchor' = anchor /\ monotonic_max_seen_slot' = monotonic_max_seen_slot
  BY ConfigAssumption DEF TypeOK, AdvanceHead, call
<1>2. /\ anchor.attested_header.slot \in Nat /\ monotonic_max_seen_slot \in Nat
      /\ MaxStalenessSlots \in Nat
  BY ArgumentTypes, ConfigAssumption DEF TypeOK
<1> QED BY <1>1, <1>2 DEF Fresh

(* A verdict on an honest package is ACCEPT, or REJECT@step6 on a stale    *)
(* one.                                                                    *)
Served ==
  \/ result.verdict \in {"none", "ACCEPT"}
  \/ result.verdict = "REJECT@step6" /\ ~Fresh

LEMMA HonestKept ==
  ASSUME TypeOK, Running, HonestServed, [Next]_vars
  PROVE  HonestServed'
<1> SUFFICES ASSUME pc' = "idle", <<envelope', anchor'>> \in HonestInputs PROVE Served'
  BY DEF HonestServed, Served
<1>1. CASE Call
  BY <1>1 DEF Call
<1>2. CASE AdvanceHead
  <2>1. <<envelope, anchor>> \in HonestInputs /\ pc = "idle" /\ result' = result
    BY <1>2 DEF AdvanceHead, call
  <2>2. Served
    BY <2>1 DEF HonestServed, Served
  <2> QED BY <1>2, <2>1, <2>2, StaleKept DEF Served
<1>3. CASE UNCHANGED vars
  BY <1>3 DEF vars, HonestServed, Served, Fresh
<1>4. CASE VerifyStep
  <2>1. UNCHANGED call /\ pc # "idle"
    BY <1>4 DEF VerifyStep, Step1, Step2, Step3, Step4, Step5, Step6, Step7, Step8, Step8Read,
                Step9, Step10, Check, Goto, Reject, Raise, Finish
  <2>2. ChecksPass
    BY <2>1, HonestChecks DEF call
  <2>4. CASE Step1 \/ Step3 \/ Step5 \/ Step7 \/ Step9
    BY <2>2, <2>4 DEF Step1, Step3, Step5, Step7, Step9, Check, Goto, ChecksPass
  <2>5. CASE Step2
    BY <2>2, <2>5 DEF Step2, Check, Goto, ChecksPass
  <2>6. CASE Step4
    BY <2>2, <2>6 DEF Step4, Check, Goto, ChecksPass, SignedBySync
  <2>7. CASE Step6
    <3>1. ~Fresh /\ Finish("REJECT@step6", "None")
      BY <2>7 DEF Step6, Reject
    <3>2. ~Fresh'
      BY <3>1 DEF Finish, Fresh, call, cfg
    <3>3. result'.verdict = "REJECT@step6"
      BY <3>1 DEF Finish
    <3> QED BY <3>2, <3>3 DEF Served
  <2>8. CASE Step8
    <3>1. Len(envelope.reads) \in Nat /\ DOMAIN envelope.reads = 1 .. Len(envelope.reads)
          /\ read_index \in 0 .. Len(envelope.reads)
      BY ArgumentTypes DEF TypeOK
    <3>2. read_index < Len(envelope.reads) =>
            ~ReadRaises(CurrentRead, bound_state_root) /\ ReadOk(CurrentRead, bound_state_root)
      BY <2>2, <3>1 DEF ChecksPass, ReadsPass, CurrentRead
    <3> QED BY <2>8, <3>2 DEF Step8, Step8Read, Goto
  <2>9. CASE Step10
    <3>1. \E sig_ok : Finish("ACCEPT", sig_ok)
      BY <2>2, <2>9, ArgumentTypes, ConfigAssumption DEF Step10, ChecksPass, SignaturePass, Raise, Reject
    <3> QED BY <3>1 DEF Finish, Served
  <2> QED BY <1>4, <2>4, <2>5, <2>6, <2>7, <2>8, <2>9 DEF VerifyStep
<1> QED BY <1>1, <1>2, <1>3, <1>4 DEF Next

(* No honest package is turned away, unless it has become stale: the       *)
(* checks of the verifier ask for nothing that the packagers do not give.  *)
THEOREM HonestPackagesServed == Spec => []HonestServed
<1>1. Init => HonestServed
  BY DEF Init, NoResult, HonestServed
<1>2. IInv /\ HonestServed /\ [Next]_vars => HonestServed'
  BY HonestKept DEF IInv
<1> QED BY <1>1, <1>2, Inductive, PTL DEF Spec
============================================================================
