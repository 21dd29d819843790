---------------------------- MODULE VectorSuite ----------------------------
(***************************************************************************)
(* The conformance suite: the three generators, the runner and the         *)
(* directory of vector files between them.  A command is a process of its  *)
(* own, with the module globals of are_constants.py as it starts; it calls *)
(* the verifier once per vector and can be killed at any step, also while  *)
(* a file is being written.  What a generator writes depends on nothing    *)
(* but the program, so a file is absent, torn or complete.                 *)
(***************************************************************************)
EXTENDS VectorFixtures

CONSTANT MAX_KILLS   \* bound on killed commands

VARIABLES
  vectors,     \* the directory: file -> "absent", "torn" or "complete"
  program,     \* the command that runs, or "shell"
  preset,      \* are_constants.PRESET of that process
  todo,        \* its remaining files
  stage,       \* "next", "verify" or "write"
  passed, total,   \* the runner's counters
  exit,        \* exit status of the last command
  finished,    \* generators whose last run has ended well
  kills

verifier == <<pc, envelope, anchor, read_index, head_slot, monotonic_max_seen_slot, result>>
suite    == <<vectors, program, preset, todo, stage, passed, total, exit, finished, kills>>
vars     == <<verifier, suite>>

---------------------------------------------------------------------------
(* The programs *)

Generators == {"are_generate.py", "are_extra_vectors.py", "are_real_vectors.py"}
Runner     == "run_vectors.py"
Commands   == Generators \union {Runner}

Outputs ==
  [g \in Generators |->
     CASE g = "are_generate.py" ->
         <<"accept_balance.json", "accept_balance_finalized.json", "reject_quorum_too_low.json",
           "reject_bad_bls.json", "reject_unproven_absence.json", "reject_mixed_root_batch.json">>
       [] g = "are_extra_vectors.py" ->
         <<"accept_deep_ancestor.json", "accept_provider_sig.json", "reject_bad_provider_sig.json">>
       [] g = "are_real_vectors.py" -> <<"accept_mainnet_real.json">>]

SortedFiles ==
  <<"accept_balance.json", "accept_balance_finalized.json", "accept_deep_ancestor.json",
    "accept_mainnet_real.json", "accept_provider_sig.json", "reject_bad_bls.json",
    "reject_bad_provider_sig.json", "reject_mixed_root_batch.json",
    "reject_quorum_too_low.json", "reject_unproven_absence.json">>

(* sorted(glob(...)): the files that are there, in order. *)
sorted_glob(directory) ==
  LET found[n \in 0 .. Len(SortedFiles)] ==
        IF n = 0 THEN <<>>
        ELSE IF directory[SortedFiles[n]] = "absent" THEN found[n - 1]
        ELSE Append(found[n - 1], SortedFiles[n])
  IN  found[Len(SortedFiles)]

Current == Head(todo)

(* A generator verifies what it has in memory, the runner what it loads.   *)
Stored == [f \in Files |-> write_vector(Fixture[f])]
Loaded ==
  [f \in Files |-> [envelope |-> envelope_from_json(Stored[f].envelope),
                    anchor   |-> anchor_from_json(Stored[f].anchor)]]
RunnerConfigs    == [f \in Files |-> RunnerConfig(Stored[f], Loaded[f].anchor)]
GeneratorConfigs == [f \in Files |-> GeneratorConfig(f)]

Config(command, f) == IF command = Runner THEN RunnerConfigs[f] ELSE GeneratorConfigs[f]

---------------------------------------------------------------------------
(* Processes *)

ModuleDefault == "MINIMAL"

Init ==
  /\ pc = "idle" /\ envelope = NONE /\ anchor = NONE /\ read_index = 0
  /\ head_slot = 0 /\ monotonic_max_seen_slot = 0 /\ result = NONE
  /\ vectors = [f \in Files |-> "absent"]
  /\ program = "shell" /\ preset = ModuleDefault
  /\ todo = <<>> /\ stage = "next" /\ passed = 0 /\ total = 0
  /\ exit = "none" /\ finished = {} /\ kills = 0

(* A process ends: what it had in memory is gone. *)
End(status) ==
  /\ pc' = "idle" /\ envelope' = NONE /\ anchor' = NONE /\ read_index' = 0
  /\ head_slot' = 0 /\ monotonic_max_seen_slot' = 0 /\ result' = NONE
  /\ program' = "shell" /\ preset' = ModuleDefault
  /\ todo' = <<>> /\ stage' = "next" /\ passed' = 0 /\ total' = 0
  /\ exit' = status

Start(command, files) ==
  /\ program = "shell" /\ program' = command
  /\ todo' = files
  /\ exit' = "none"
  /\ UNCHANGED <<verifier, vectors, stage, passed, kills>>

(* select_preset is the first statement of a generator's main. *)
StartGenerator ==
  /\ \E g \in Generators :
       /\ Start(g, Outputs[g])
       /\ preset' = IF g = "are_real_vectors.py" THEN "MAINNET" ELSE "MINIMAL"
       /\ finished' = finished \ {g}
  /\ UNCHANGED total

StartRunner ==
  LET files == sorted_glob(vectors)
  IN  /\ Start(Runner, files)
      /\ total' = Len(files)
      /\ UNCHANGED <<preset, finished>>

(* VerifierConfig(...) and the call of verify. *)
CallVerify(e, a, f) ==
  /\ pc' = "step1" /\ envelope' = e /\ anchor' = a /\ read_index' = 0
  /\ head_slot' = Config(program, f).head_slot /\ monotonic_max_seen_slot' = 0
  /\ result' = [verdict |-> "none", provider_sig_ok |-> "None"]
  /\ stage' = "verify"

VerifyStep ==
  /\ stage = "verify"
  /\ \E p \in Presets, command \in Commands, f \in Files :
       /\ p = preset /\ command = program /\ f = Current
       /\ V(p, Config(command, f), Signatures)!VerifyStep
  /\ UNCHANGED suite

---------------------------------------------------------------------------
(* The generators *)

GenerateVector ==
  /\ program \in Generators /\ stage = "next" /\ todo # <<>>
  /\ CallVerify(Fixture[Current].envelope, Fixture[Current].anchor, Current)
  /\ UNCHANGED <<vectors, program, preset, todo, passed, total, exit, finished, kills>>

(* What the generator asserts before it writes a vector. *)
Asserted(f) ==
  /\ result.verdict = Fixture[f].expected
  /\ f = "accept_provider_sig.json" => result.provider_sig_ok = "True"

(* Mutant of OpenVector: a file that exists is not written again.          *)
OpenVectorOnce ==
  /\ program \in Generators /\ stage = "verify" /\ pc = "idle"
  /\ IF vectors[Current] = "absent"
       THEN vectors' = [vectors EXCEPT ![Current] = "torn"] /\ stage' = "write" /\ UNCHANGED todo
       ELSE stage' = "next" /\ todo' = Tail(todo) /\ UNCHANGED vectors
  /\ UNCHANGED <<verifier, program, preset, passed, total, exit, finished, kills>>

(* An assertion that fails ends the generator; open(path, "w") truncates.  *)
OpenVector ==
  /\ program \in Generators /\ stage = "verify" /\ pc = "idle"
  /\ IF Asserted(Current)
       THEN /\ vectors' = [vectors EXCEPT ![Current] = "torn"]
            /\ stage' = "write"
            /\ UNCHANGED <<verifier, program, preset, todo, passed, total, exit>>
       ELSE End("1") /\ UNCHANGED vectors
  /\ UNCHANGED <<finished, kills>>

CloseVector ==
  /\ stage = "write"
  /\ vectors' = [vectors EXCEPT ![Current] = "complete"]
  /\ stage' = "next" /\ todo' = Tail(todo)
  /\ UNCHANGED <<verifier, program, preset, passed, total, exit, finished, kills>>

GeneratorEnds ==
  /\ program \in Generators /\ stage = "next" /\ todo = <<>>
  /\ End("0")
  /\ finished' = finished \union {program}
  /\ UNCHANGED <<vectors, kills>>

---------------------------------------------------------------------------
(* The runner *)

(* Mutant of RunOne: the preset stays what the last vector made it.        *)
RunOneSamePreset ==
  /\ program = Runner /\ stage = "next" /\ todo # <<>> /\ vectors[Current] = "complete"
  /\ preset' = IF preset = "MAINNET" THEN preset ELSE Stored[Current].preset.name
  /\ CallVerify(Loaded[Current].envelope, Loaded[Current].anchor, Current)
  /\ UNCHANGED <<vectors, program, todo, passed, total, exit, finished, kills>>

RunOne ==
  /\ program = Runner /\ stage = "next" /\ todo # <<>> /\ vectors[Current] = "complete"
  /\ preset' = Stored[Current].preset.name
  /\ CallVerify(Loaded[Current].envelope, Loaded[Current].anchor, Current)
  /\ UNCHANGED <<vectors, program, todo, passed, total, exit, finished, kills>>

(* Mutant of LoadFails: a file that does not parse is passed over.         *)
LoadFailsSkip ==
  /\ program = Runner /\ stage = "next" /\ todo # <<>> /\ vectors[Current] = "torn"
  /\ todo' = Tail(todo) /\ total' = total - 1
  /\ UNCHANGED <<verifier, vectors, program, preset, stage, passed, exit, finished, kills>>

(* json.load of a torn file raises and nobody catches it. *)
LoadFails ==
  /\ program = Runner /\ stage = "next" /\ todo # <<>> /\ vectors[Current] = "torn"
  /\ End("1")
  /\ UNCHANGED <<vectors, finished, kills>>

(* An exception of verify ends the runner. *)
Judge ==
  /\ program = Runner /\ stage = "verify" /\ pc = "idle"
  /\ IF result.verdict = "raise"
       THEN End("1")
       ELSE /\ passed' = IF result.verdict = Stored[Current].expected THEN passed + 1 ELSE passed
            /\ todo' = Tail(todo) /\ stage' = "next"
            /\ UNCHANGED <<verifier, program, preset, total, exit>>
  /\ UNCHANGED <<vectors, finished, kills>>

RunnerEnds ==
  /\ program = Runner /\ stage = "next" /\ todo = <<>>
  /\ End(IF passed = total THEN "0" ELSE "1")
  /\ UNCHANGED <<vectors, finished, kills>>

---------------------------------------------------------------------------
(* A command is interrupted; a file that it was writing stays torn. *)
Kill ==
  /\ program # "shell" /\ kills < MAX_KILLS
  /\ kills' = kills + 1
  /\ End("killed")
  /\ UNCHANGED <<vectors, finished>>

ProcessStep ==
  \/ VerifyStep
  \/ GenerateVector \/ OpenVector \/ CloseVector \/ GeneratorEnds
  \/ RunOne \/ LoadFails \/ Judge \/ RunnerEnds

Next == StartGenerator \/ StartRunner \/ ProcessStep \/ Kill

Spec == Init /\ [][Next]_vars

---------------------------------------------------------------------------
(* Properties *)

(* A generator never trips over its own assertions: under its literal head *)
(* slot, its hard-coded finality gindex and the fork schedule, each vector *)
(* that it builds gets the verdict it is built for.                        *)
GeneratorsAgree ==
  program \in Generators /\ stage = "verify" /\ pc = "idle" => Asserted(Current)

(* The runner reaches the expected verdict of every vector that was        *)
(* written, from the file alone: with a committee, a head, a preset and a  *)
(* key resolver of its own, after the objects went through JSON, and       *)
(* whichever vectors ran in the same process before.                       *)
RunnerAgrees ==
  program = Runner /\ stage = "verify" /\ pc = "idle" =>
    result.verdict = Stored[Current].expected

(* After a kill it is enough to run a generator again: once it ends well,  *)
(* all of its files are whole, whatever an interrupted run has left.       *)
RerunRestores ==
  \A g \in finished : \A i \in DOMAIN Outputs[g] : vectors[Outputs[g][i]] = "complete"

(* The runner's exit status tells a whole directory from a damaged one:    *)
(* it exits with 0 exactly when no file is torn.                           *)
ExitStatus ==
  [][program = Runner /\ program' = "shell" /\ exit' # "killed" =>
       (exit' = "0" <=> \A f \in Files : vectors[f] # "torn")]_vars
=============================================================================
