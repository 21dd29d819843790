------------------------- MODULE VectorSuiteProofs -------------------------
(***************************************************************************)
(* Proofs about the suite: what a rerun repairs after any number of kills, *)
(* and what the runner's exit status tells, for any number of kills and    *)
(* any sizes, slots and fork schedule.                                     *)
(***************************************************************************)
EXTENDS VectorSuite, PowersProofs

FilesOf(g) == {Outputs[g][i] : i \in DOMAIN Outputs[g]}

(* The program still has f to do. *)
Left(f) == \E k \in 1 .. Len(todo) : todo[k] = f

Shape ==
  /\ vectors \in [Files -> {"absent", "torn", "complete"}]
  /\ program \in Commands \union {"shell"}
  /\ todo \in Seq(Files)
  /\ finished \subseteq Generators
  /\ stage \in {"next", "verify", "write"}
  /\ stage # "next" => program # "shell" /\ todo # <<>>
  /\ stage = "write" => program \in Generators

(* A generator that runs has finished the files that it no longer has to   *)
(* do, and has only files of its own to do.                                *)
Generating ==
  program \in Generators =>
    /\ program \notin finished
    /\ \A k \in 1 .. Len(todo) : todo[k] \in FilesOf(program)
    /\ \A f \in FilesOf(program) : vectors[f] = "complete" \/ Left(f)

Restored == \A g \in finished : \A f \in FilesOf(g) : vectors[f] = "complete"

RestoreInv == Shape /\ Generating /\ Restored

(* A runner that runs has counted a pass for every file that it no longer  *)
(* has to do, as long as the verdicts agree, and has every torn file still *)
(* before it.                                                              *)
Counters ==
  /\ passed \in Nat /\ total \in Nat
  /\ program # Runner => passed = 0 /\ total = 0

Running ==
  program = Runner =>
    /\ passed + Len(todo) = total
    /\ \A f \in Files : vectors[f] = "torn" => Left(f)
    /\ stage = "verify" => vectors[Current] = "complete"

RunnerInv == Shape /\ Counters /\ Running

---------------------------------------------------------------------------
(* The programs' files, spelled out. *)
LEMMA OutputFiles ==
  /\ FilesOf("are_generate.py") =
       {"accept_balance.json", "accept_balance_finalized.json", "reject_quorum_too_low.json",
        "reject_bad_bls.json", "reject_unproven_absence.json", "reject_mixed_root_batch.json"}
  /\ FilesOf("are_extra_vectors.py") =
       {"accept_deep_ancestor.json", "accept_provider_sig.json", "reject_bad_provider_sig.json"}
  /\ FilesOf("are_real_vectors.py") = {"accept_mainnet_real.json"}
<1>1. Outputs["are_generate.py"] =
         <<"accept_balance.json", "accept_balance_finalized.json", "reject_quorum_too_low.json",
           "reject_bad_bls.json", "reject_unproven_absence.json", "reject_mixed_root_batch.json">>
  BY DEF Outputs, Generators
<1>2. Outputs["are_extra_vectors.py"] =
         <<"accept_deep_ancestor.json", "accept_provider_sig.json", "reject_bad_provider_sig.json">>
  BY DEF Outputs, Generators
<1>3. Outputs["are_real_vectors.py"] = <<"accept_mainnet_real.json">>
  BY DEF Outputs, Generators
<1>4. FilesOf("are_generate.py") =
       {"accept_balance.json", "accept_balance_finalized.json", "reject_quorum_too_low.json",
        "reject_bad_bls.json", "reject_unproven_absence.json", "reject_mixed_root_batch.json"}
  BY <1>1 DEF FilesOf
<1>5. FilesOf("are_extra_vectors.py") =
       {"accept_deep_ancestor.json", "accept_provider_sig.json", "reject_bad_provider_sig.json"}
  BY <1>2 DEF FilesOf
<1>6. FilesOf("are_real_vectors.py") = {"accept_mainnet_real.json"}
  BY <1>3 DEF FilesOf
<1>. QED BY <1>4, <1>5, <1>6

(* No file is written by two generators. *)
LEMMA FilesApart ==
  /\ \A g \in Generators : FilesOf(g) \subseteq Files
  /\ \A g, h \in Generators : g # h => FilesOf(g) \cap FilesOf(h) = {}
BY OutputFiles DEF Generators, Files

(* The work of a generator is the sequence of its files. *)
LEMMA OutputsAreSequences ==
  ASSUME NEW g \in Generators
  PROVE  /\ Outputs[g] \in Seq(Files)
         /\ \A k \in 1 .. Len(Outputs[g]) : Outputs[g][k] \in FilesOf(g)
         /\ \A f \in FilesOf(g) : \E k \in 1 .. Len(Outputs[g]) : Outputs[g][k] = f
<1>1. CASE g = "are_generate.py"
  <2>1. Outputs[g] =
         <<"accept_balance.json", "accept_balance_finalized.json", "reject_quorum_too_low.json",
           "reject_bad_bls.json", "reject_unproven_absence.json", "reject_mixed_root_batch.json">>
    BY <1>1 DEF Outputs
  <2>2. Len(Outputs[g]) = 6 /\ DOMAIN Outputs[g] = 1 .. 6
    BY <2>1
  <2>3. \A k \in 1 .. 6 : Outputs[g][k] \in Files
    BY <2>1 DEF Files
  <2>4. Outputs[g] \in Seq(Files)
    BY <2>1, <2>2, <2>3
  <2>. QED BY <2>2, <2>4 DEF FilesOf
<1>2. CASE g = "are_extra_vectors.py"
  <2>1. Outputs[g] =
         <<"accept_deep_ancestor.json", "accept_provider_sig.json", "reject_bad_provider_sig.json">>
    BY <1>2 DEF Outputs
  <2>2. Outputs[g] \in Seq(Files) /\ Len(Outputs[g]) = 3 /\ DOMAIN Outputs[g] = 1 .. 3
    BY <2>1 DEF Files
  <2>. QED BY <2>2 DEF FilesOf
<1>3. CASE g = "are_real_vectors.py"
  <2>1. Outputs[g] = <<"accept_mainnet_real.json">>
    BY <1>3 DEF Outputs
  <2>2. Outputs[g] \in Seq(Files) /\ Len(Outputs[g]) = 1 /\ DOMAIN Outputs[g] = 1 .. 1
    BY <2>1 DEF Files
  <2>. QED BY <2>2 DEF FilesOf
<1>. QED BY <1>1, <1>2, <1>3 DEF Generators

---------------------------------------------------------------------------
(* Collecting the elements that are not in A, one after another, misses    *)
(* none of them.                                                           *)
Collects(found, source, N, A) ==
  /\ found[0] = <<>>
  /\ \A n \in 1 .. N : found[n] = IF source[n] \in A THEN found[n - 1]
                                  ELSE Append(found[n - 1], source[n])

Covers(s, source, N, A) ==
  \A j \in 1 .. N : source[j] \notin A => \E k \in 1 .. Len(s) : s[k] = source[j]

LEMMA CollectsAll ==
  ASSUME NEW N \in Nat, NEW T, NEW A, NEW source \in [1 .. N -> T],
         NEW found, Collects(found, source, N, A)
  PROVE  found[N] \in Seq(T) /\ Covers(found[N], source, N, A)
<1> DEFINE All(n) == /\ found[n] \in Seq(T)
                     /\ \A j \in 1 .. n : source[j] \notin A =>
                          \E k \in 1 .. Len(found[n]) : found[n][k] = source[j]
           S == {n \in Nat : n <= N => All(n)}
<1>1. 0 \in S
  <2>1. <<>> \in Seq(T)
    OBVIOUS
  <2>2. found[0] \in Seq(T)
    BY <2>1 DEF Collects
  <2>3. All(0)
    BY <2>2
  <2> HIDE DEF All
  <2>. QED BY <2>3
<1>2. ASSUME NEW n \in Nat, n + 1 <= N, All(n) PROVE All(n + 1)
  <2> DEFINE t == found[n]
             x == source[n + 1]
  <2>1. n + 1 \in 1 .. N /\ (n + 1) - 1 = n
    BY <1>2
  <2>2. found[n + 1] = IF x \in A THEN t ELSE Append(t, x)
    BY <2>1 DEF Collects
  <2>3. t \in Seq(T) /\ x \in T /\ Len(t) \in Nat
    BY <1>2, <2>1
  <2>4. ASSUME NEW j \in 1 .. n, source[j] \notin A PROVE \E k \in 1 .. Len(t) : t[k] = source[j]
    BY <1>2, <2>4
  <2> HIDE DEF t
  <2>5. CASE x \in A
    <3>1. found[n + 1] = t
      BY <2>2, <2>5
    <3>2. ASSUME NEW j \in 1 .. n + 1, source[j] \notin A PROVE j \in 1 .. n
      BY <2>5, <3>2
    <3>. QED BY <2>3, <2>4, <3>1, <3>2
  <2>6. CASE x \notin A
    <3> HIDE DEF x
    <3>1. /\ found[n + 1] \in Seq(T) /\ Len(found[n + 1]) = Len(t) + 1
          /\ found[n + 1][Len(t) + 1] = x /\ \A k \in 1 .. Len(t) : found[n + 1][k] = t[k]
      BY <2>2, <2>3, <2>6
    <3>2. ASSUME NEW j \in 1 .. n + 1, source[j] \notin A
          PROVE  \E k \in 1 .. Len(found[n + 1]) : found[n + 1][k] = source[j]
      <4>1. CASE j = n + 1
        <5>1. Len(t) + 1 \in 1 .. Len(found[n + 1]) /\ found[n + 1][Len(t) + 1] = source[j]
          BY <2>3, <3>1, <4>1 DEF x
        <5>. QED BY <5>1, Zenon
      <4>2. CASE j # n + 1
        <5>1. j \in 1 .. n
          BY <4>2
        <5>2. PICK k \in 1 .. Len(t) : t[k] = source[j]
          BY <2>4, <3>2, <5>1, Zenon
        <5>3. k \in 1 .. Len(found[n + 1]) /\ found[n + 1][k] = source[j]
          BY <2>3, <3>1, <5>2
        <5>. QED BY <5>3, Zenon
      <4>. QED BY <4>1, <4>2
    <3>. QED BY <3>1, <3>2
  <2>. QED BY <2>5, <2>6
<1>3. ASSUME NEW n \in Nat, n \in S PROVE n + 1 \in S
  <2> SUFFICES ASSUME n + 1 <= N PROVE All(n + 1)
    OBVIOUS
  <2>1. n <= N
    OBVIOUS
  <2> HIDE DEF All
  <2>2. n <= N => All(n)
    BY <1>3, Zenon
  <2>. QED BY <1>2, <2>1, <2>2, Zenon
<1>4. \A n \in Nat : n \in S
  <2> HIDE DEF S
  <2>. QED BY <1>1, <1>3, SetInduction
<1>5. N \in S /\ N <= N
  BY <1>4
<1>6. All(N)
  <2> HIDE DEF All
  <2>. QED BY <1>5, Zenon
<1>. QED BY <1>6 DEF Covers

(* The function of sorted_glob is the one its recursion defines.           *)
LEMMA GlobFunction ==
  ASSUME NEW d
  PROVE  \E found :
           /\ sorted_glob(d) = found[Len(SortedFiles)]
           /\ \A n \in 0 .. Len(SortedFiles) :
                found[n] = IF n = 0 THEN <<>>
                           ELSE IF d[SortedFiles[n]] = "absent" THEN found[n - 1]
                           ELSE Append(found[n - 1], SortedFiles[n])
<1> DEFINE N == Len(SortedFiles)
           Body(h) == [n \in 0 .. N |-> IF n = 0 THEN <<>>
                        ELSE IF d[SortedFiles[n]] = "absent" THEN h[n - 1]
                        ELSE Append(h[n - 1], SortedFiles[n])]
           found == CHOOSE h : h = Body(h)
           step == [n \in Nat |-> [s \in Seq(Files) |->
                     IF n < N /\ d[SortedFiles[n + 1]] # "absent"
                       THEN Append(s, SortedFiles[n + 1]) ELSE s]]
<1>1. N \in Nat /\ \A n \in 1 .. N : SortedFiles[n] \in Files
  <2>1. N = 10
    BY DEF SortedFiles
  <2>2. \A n \in 1 .. 10 : SortedFiles[n] \in Files
    BY DEF SortedFiles, Files
  <2>. QED BY <2>1, <2>2
<1>2. sorted_glob(d) = found[N]
  BY Zenon DEF sorted_glob
<1> HIDE DEF N
<1>3. \E f \in [Nat -> Seq(Files)] : Iterates(f, <<>>, step)
  <2>1. ASSUME NEW n \in Nat, NEW s \in Seq(Files)
        PROVE  (IF n < N /\ d[SortedFiles[n + 1]] # "absent"
                  THEN Append(s, SortedFiles[n + 1]) ELSE s) \in Seq(Files)
    BY <1>1
  <2>2. step \in [Nat -> [Seq(Files) -> Seq(Files)]] /\ <<>> \in Seq(Files)
    BY <2>1
  <2> HIDE DEF step
  <2>. QED BY <2>2, Recursion, Zenon
<1>4. PICK f \in [Nat -> Seq(Files)] : f[0] = <<>> /\ \A n \in Nat : f[n + 1] = step[n][f[n]]
  BY <1>3 DEF Iterates
<1> DEFINE h == [n \in 0 .. N |-> f[n]]
<1>5. ASSUME NEW n \in 0 .. N
      PROVE  h[n] = IF n = 0 THEN <<>>
                    ELSE IF d[SortedFiles[n]] = "absent" THEN h[n - 1]
                    ELSE Append(h[n - 1], SortedFiles[n])
  <2>1. CASE n = 0
    BY <1>1, <1>4, <2>1
  <2>2. CASE n # 0
    <3>1. n - 1 \in Nat /\ n = (n - 1) + 1 /\ n - 1 < N /\ n - 1 \in 0 .. N
      BY <1>1, <2>2
    <3>2. f[n] = step[n - 1][f[n - 1]] /\ f[n - 1] \in Seq(Files)
      BY <1>4, <3>1
    <3>. QED BY <2>2, <3>1, <3>2
  <2>. QED BY <2>1, <2>2
<1>6. h = Body(h)
  BY <1>5
<1>7. found = Body(found)
  <2> HIDE DEF Body, h
  <2>. QED BY <1>6, Zenon
<1> HIDE DEF found
<1>8. \A n \in 0 .. N : found[n] = IF n = 0 THEN <<>>
                        ELSE IF d[SortedFiles[n]] = "absent" THEN found[n - 1]
                        ELSE Append(found[n - 1], SortedFiles[n])
  BY <1>7, Zenon
<1>. QED BY <1>2, <1>8, Zenon DEF N

(* sorted(glob(...)) misses no file that is there.                         *)
LEMMA GlobFindsAll ==
  ASSUME NEW d \in [Files -> {"absent", "torn", "complete"}]
  PROVE  /\ sorted_glob(d) \in Seq(Files)
         /\ \A f \in Files : d[f] # "absent" =>
              \E k \in 1 .. Len(sorted_glob(d)) : sorted_glob(d)[k] = f
<1> DEFINE N == Len(SortedFiles)
           A == {f \in Files : d[f] = "absent"}
<1>1. N = 10 /\ DOMAIN SortedFiles = 1 .. N
  BY DEF SortedFiles
<1>2. \A n \in 1 .. 10 : SortedFiles[n] \in Files
  BY DEF SortedFiles, Files
<1>3. \A f \in Files : \E n \in 1 .. 10 : SortedFiles[n] = f
  BY DEF SortedFiles, Files
<1>4. SortedFiles \in [1 .. N -> Files]
  <2>1. SortedFiles = [n \in DOMAIN SortedFiles |-> SortedFiles[n]]
    BY DEF SortedFiles
  <2>. QED BY <1>1, <1>2, <2>1
<1>5. PICK found :
        /\ sorted_glob(d) = found[N]
        /\ \A n \in 0 .. N :
             found[n] = IF n = 0 THEN <<>>
                        ELSE IF d[SortedFiles[n]] = "absent" THEN found[n - 1]
                        ELSE Append(found[n - 1], SortedFiles[n])
  BY GlobFunction, Zenon
<1> HIDE DEF N
<1>6. found[0] = <<>>
  BY <1>1, <1>5
<1>7. \A n \in 1 .. N : found[n] = IF SortedFiles[n] \in A THEN found[n - 1]
                                   ELSE Append(found[n - 1], SortedFiles[n])
  BY <1>1, <1>2, <1>5
<1>c. Collects(found, SortedFiles, N, A)
  BY <1>6, <1>7 DEF Collects
<1>8. found[N] \in Seq(Files) /\ Covers(found[N], SortedFiles, N, A)
  <2> HIDE DEF A
  <2>1. N \in Nat
    BY <1>1
  <2>. QED BY <2>1, <1>4, <1>c, CollectsAll, Zenon
<1>9. ASSUME NEW f \in Files, d[f] # "absent"
      PROVE  \E k \in 1 .. Len(found[N]) : found[N][k] = f
  <2>1. PICK j \in 1 .. N : SortedFiles[j] = f
    BY <1>1, <1>3
  <2>2. SortedFiles[j] \notin A
    BY <1>9, <2>1
  <2> HIDE DEF A
  <2>. QED BY <1>8, <2>1, <2>2, Zenon DEF Covers
<1>. QED BY <1>5, <1>8, <1>9, Zenon
---------------------------------------------------------------------------
(* Taking the head off the work.                                           *)
LEMMA WorkShrinks ==
  ASSUME NEW s \in Seq(Files), s # <<>>
  PROVE  /\ Len(s) \in Nat /\ Len(s) >= 1
         /\ Head(s) = s[1] /\ Head(s) \in Files
         /\ Tail(s) \in Seq(Files) /\ Len(Tail(s)) = Len(s) - 1
         /\ \A k \in 1 .. Len(Tail(s)) : Tail(s)[k] = s[k + 1] /\ k + 1 \in 1 .. Len(s)
         /\ \A f : (\E k \in 1 .. Len(s) : s[k] = f) <=>
                    f = Head(s) \/ \E k \in 1 .. Len(Tail(s)) : Tail(s)[k] = f
<1>1. /\ Len(s) \in Nat /\ Len(s) >= 1
      /\ Head(s) = s[1] /\ Head(s) \in Files
      /\ Tail(s) \in Seq(Files) /\ Len(Tail(s)) = Len(s) - 1
      /\ \A k \in 1 .. Len(Tail(s)) : Tail(s)[k] = s[k + 1] /\ k + 1 \in 1 .. Len(s)
  OBVIOUS
<1> DEFINE h == Head(s)
           t == Tail(s)
<1> HIDE DEF h, t
<1>2. ASSUME NEW k \in 1 .. Len(s), k # 1
      PROVE  k - 1 \in 1 .. Len(Tail(s)) /\ Tail(s)[k - 1] = s[k]
  BY <1>1, <1>2
<1>3. \A f : (\E k \in 1 .. Len(s) : s[k] = f) => f = Head(s) \/ \E k \in 1 .. Len(Tail(s)) : Tail(s)[k] = f
  BY <1>1, <1>2
<1>4. \A f : f = Head(s) => \E k \in 1 .. Len(s) : s[k] = f
  <2>1. 1 \in 1 .. Len(s)
    BY <1>1
  <2>. QED BY <1>1, <2>1, Zenon
<1>5. \A f : (\E k \in 1 .. Len(Tail(s)) : Tail(s)[k] = f) => \E k \in 1 .. Len(s) : s[k] = f
  BY <1>1, Zenon
<1>. QED BY <1>1, <1>3, <1>4, <1>5, Zenon

(* The parts of a step that most actions share.                            *)
LEMMA EndFacts ==
  ASSUME NEW status, End(status)
  PROVE  /\ program' = "shell" /\ todo' = <<>> /\ stage' = "next"
         /\ passed' = 0 /\ total' = 0 /\ exit' = status
BY DEF End

LEMMA Programs ==
  /\ "shell" \notin Commands /\ Runner \notin Generators
  /\ Generators \subseteq Commands /\ Runner \in Commands
BY DEF Commands, Generators, Runner

(* The files on disk, and who may be working on them, in every reachable   *)
(* state.                                                                  *)
LEMMA ShapeInductive ==
  /\ Init => Shape
  /\ Shape /\ [Next]_vars => Shape'
<1>1. Init => Shape
  BY DEF Init, Shape
<1>2. ASSUME Shape, [Next]_vars PROVE Shape'
  <2>a. ASSUME stage # "next" PROVE Current \in Files /\ Tail(todo) \in Seq(Files)
    BY <1>2, <2>a, WorkShrinks DEF Shape, Current
  <2>e. <<>> \in Seq(Files)
    OBVIOUS
  <2>s. ASSUME NEW status, End(status), vectors' \in [Files -> {"absent", "torn", "complete"}],
               finished' \subseteq Generators
        PROVE  Shape'
    BY <2>s, <2>e, EndFacts DEF Shape
  <2>1. CASE StartGenerator
    <3>1. PICK g \in Generators : Start(g, Outputs[g]) /\ finished' = finished \ {g}
      BY <2>1 DEF StartGenerator
    <3>2. /\ program = "shell" /\ program' = g /\ todo' = Outputs[g]
          /\ UNCHANGED <<vectors, stage>>
      BY <3>1 DEF Start
    <3>. QED BY <1>2, <3>1, <3>2, OutputsAreSequences, Programs DEF Shape
  <2>2. CASE StartRunner
    <3>1. /\ program = "shell" /\ program' = Runner /\ todo' = sorted_glob(vectors)
          /\ UNCHANGED <<vectors, stage, finished>>
      BY <2>2 DEF StartRunner, Start
    <3>2. sorted_glob(vectors) \in Seq(Files)
      BY <1>2, GlobFindsAll DEF Shape
    <3>. QED BY <1>2, <3>1, <3>2, Programs DEF Shape
  <2>3. CASE VerifyStep
    <3>1. UNCHANGED <<vectors, program, todo, stage, finished>>
      BY <2>3 DEF VerifyStep, suite
    <3>. QED BY <1>2, <3>1 DEF Shape
  <2>4. CASE GenerateVector
    <3>1. program \in Generators /\ stage' = "verify" /\ todo # <<>> /\ UNCHANGED <<vectors, program, todo, finished>>
      BY <2>4 DEF GenerateVector, CallVerify
    <3>. QED BY <1>2, <3>1, Programs DEF Shape
  <2>5. CASE OpenVector
    <3>1. CASE Asserted(Current)
      <4>1. /\ program \in Generators /\ stage = "verify" /\ stage' = "write"
            /\ vectors' = [vectors EXCEPT ![Current] = "torn"] /\ UNCHANGED <<program, todo, finished>>
        BY <2>5, <3>1 DEF OpenVector
      <4>. QED BY <1>2, <2>a, <4>1 DEF Shape
    <3>2. CASE ~ Asserted(Current)
      <4>1. End("1") /\ UNCHANGED <<vectors, finished>>
        BY <2>5, <3>2 DEF OpenVector
      <4>. QED BY <1>2, <2>s, <4>1 DEF Shape
    <3>. QED BY <3>1, <3>2
  <2>6. CASE CloseVector
    <3>1. /\ stage = "write" /\ stage' = "next" /\ todo' = Tail(todo)
          /\ vectors' = [vectors EXCEPT ![Current] = "complete"] /\ UNCHANGED <<program, finished>>
      BY <2>6 DEF CloseVector
    <3>. QED BY <1>2, <2>a, <3>1 DEF Shape
  <2>7. CASE GeneratorEnds
    <3>1. End("0") /\ program \in Generators /\ finished' = finished \union {program} /\ UNCHANGED vectors
      BY <2>7 DEF GeneratorEnds
    <3>. QED BY <1>2, <2>s, <3>1 DEF Shape
  <2>8. CASE RunOne
    <3>1. program = Runner /\ stage' = "verify" /\ todo # <<>> /\ UNCHANGED <<vectors, program, todo, finished>>
      BY <2>8 DEF RunOne, CallVerify
    <3>. QED BY <1>2, <3>1, Programs DEF Shape
  <2>9. CASE LoadFails
    <3>1. End("1") /\ UNCHANGED <<vectors, finished>>
      BY <2>9 DEF LoadFails
    <3>. QED BY <1>2, <2>s, <3>1 DEF Shape
  <2>10. CASE Judge
    <3>1. CASE result.verdict = "raise"
      <4>1. End("1") /\ UNCHANGED <<vectors, finished>>
        BY <2>10, <3>1 DEF Judge
      <4>. QED BY <1>2, <2>s, <4>1 DEF Shape
    <3>2. CASE result.verdict # "raise"
      <4>1. stage = "verify" /\ stage' = "next" /\ todo' = Tail(todo) /\ UNCHANGED <<vectors, program, finished>>
        BY <2>10, <3>2 DEF Judge
      <4>. QED BY <1>2, <2>a, <4>1 DEF Shape
    <3>. QED BY <3>1, <3>2
  <2>11. CASE RunnerEnds
    <3>1. UNCHANGED <<vectors, finished>> /\ End(IF passed = total THEN "0" ELSE "1")
      BY <2>11 DEF RunnerEnds
    <3>. QED BY <1>2, <2>s, <3>1 DEF Shape
  <2>12. CASE Kill
    <3>1. End("killed") /\ UNCHANGED <<vectors, finished>>
      BY <2>12 DEF Kill
    <3>. QED BY <1>2, <2>s, <3>1 DEF Shape
  <2>13. CASE UNCHANGED vars
    BY <1>2, <2>13 DEF vars, suite, Shape
  <2>. QED BY <1>2, <2>1, <2>2, <2>3, <2>4, <2>5, <2>6, <2>7, <2>8, <2>9, <2>10, <2>11, <2>12, <2>13
           DEF Next, ProcessStep
<1>. QED BY <1>1, <1>2

---------------------------------------------------------------------------
(* A file that is written again is done again: from Shape and Generating,  *)
(* every step keeps what a finished generator has left whole.              *)
LEMMA RestoreInductive ==
  /\ Init => RestoreInv
  /\ RestoreInv /\ Shape' /\ [Next]_vars => RestoreInv'
<1>1. ASSUME Init PROVE RestoreInv
  BY <1>1, ShapeInductive, Programs DEF Init, RestoreInv, Generating, Restored
<1>2. ASSUME RestoreInv, Shape', [Next]_vars PROVE RestoreInv'
  <2>0. Shape /\ Generating /\ Restored
    BY <1>2 DEF RestoreInv
  <2> SUFFICES Generating' /\ Restored'
    BY <1>2 DEF RestoreInv
  <2>k. \A g \in finished : g \in Generators
    BY <2>0 DEF Shape
  <2>s. ASSUME NEW status, End(status), UNCHANGED vectors,
               \A g \in finished' : g \in finished \/ \A f \in FilesOf(g) : vectors[f] = "complete"
        PROVE  Generating' /\ Restored'
    BY <2>0, <2>s, EndFacts, Programs DEF Generating, Restored
  <2>u. ASSUME UNCHANGED <<vectors, program, todo, finished>>
        PROVE  Generating' /\ Restored'
    BY <2>0, <2>u DEF Generating, Restored, Left
  <2>t. ASSUME program \in Generators, stage # "next"
        PROVE  /\ Current \in FilesOf(program) /\ Current \in Files
               /\ \A g \in finished : Current \notin FilesOf(g)
    <3>1. todo \in Seq(Files) /\ todo # <<>>
      BY <2>0, <2>t DEF Shape
    <3>2. Current = todo[1] /\ 1 \in 1 .. Len(todo) /\ Current \in Files
      BY <3>1, WorkShrinks DEF Current
    <3>3. Current \in FilesOf(program)
      BY <2>0, <2>t, <3>2 DEF Generating
    <3>4. \A g \in finished : g # program
      BY <2>0, <2>t DEF Generating
    <3>. QED BY <2>k, <2>t, <3>2, <3>3, <3>4, FilesApart
  <2>1. CASE StartGenerator
    <3>1. PICK g \in Generators : Start(g, Outputs[g]) /\ finished' = finished \ {g}
      BY <2>1 DEF StartGenerator
    <3>2. program' = g /\ todo' = Outputs[g] /\ UNCHANGED vectors
      BY <3>1 DEF Start
    <3>3. \A f \in FilesOf(g) : Left(f)'
      BY <3>2, OutputsAreSequences DEF Left
    <3>. QED BY <2>0, <3>1, <3>2, <3>3, OutputsAreSequences DEF Generating, Restored
  <2>2. CASE StartRunner
    <3>1. program' = Runner /\ UNCHANGED <<vectors, finished>>
      BY <2>2 DEF StartRunner, Start
    <3>. QED BY <2>0, <3>1, Programs DEF Generating, Restored
  <2>3. CASE VerifyStep
    <3>1. UNCHANGED <<vectors, program, todo, finished>>
      BY <2>3 DEF VerifyStep, suite
    <3>. QED BY <2>u, <3>1
  <2>4. CASE GenerateVector
    BY <2>4, <2>u DEF GenerateVector
  <2>5. CASE OpenVector
    <3>1. CASE Asserted(Current)
      <4>1. /\ program \in Generators /\ stage = "verify"
            /\ vectors' = [vectors EXCEPT ![Current] = "torn"] /\ UNCHANGED <<program, todo, finished>>
        BY <2>5, <3>1 DEF OpenVector
      <4>2. \A f \in Files : f # Current => vectors'[f] = vectors[f]
        BY <2>0, <4>1 DEF Shape
      <4>3. Left(Current)
        <5>1. todo \in Seq(Files) /\ todo # <<>>
          BY <2>0, <4>1 DEF Shape
        <5>. QED BY <5>1, WorkShrinks DEF Left, Current
      <4>4. Restored'
        <5> SUFFICES ASSUME NEW g \in finished, NEW f \in FilesOf(g) PROVE vectors'[f] = "complete"
          BY <4>1 DEF Restored
        <5>. QED BY <2>0, <2>k, <2>t, <4>1, <4>2, FilesApart DEF Restored
      <4>5. ASSUME NEW f \in FilesOf(program) PROVE vectors'[f] = "complete" \/ Left(f)
        BY <2>0, <4>1, <4>2, <4>3, FilesApart DEF Generating
      <4>6. Generating'
        BY <2>0, <4>1, <4>5 DEF Generating, Left
      <4>. QED BY <4>4, <4>6
    <3>2. CASE ~ Asserted(Current)
      <4>1. End("1") /\ UNCHANGED <<vectors, finished>>
        BY <2>5, <3>2 DEF OpenVector
      <4>. QED BY <2>s, <4>1
    <3>. QED BY <3>1, <3>2
  <2>6. CASE CloseVector
    <3>1. /\ stage = "write" /\ todo' = Tail(todo)
          /\ vectors' = [vectors EXCEPT ![Current] = "complete"] /\ UNCHANGED <<program, finished>>
      BY <2>6 DEF CloseVector
    <3>2. program \in Generators /\ todo \in Seq(Files) /\ todo # <<>>
      BY <2>0, <3>1 DEF Shape
    <3>3. \A f \in Files : vectors'[f] = IF f = Current THEN "complete" ELSE vectors[f]
      BY <2>0, <3>1 DEF Shape
    <3>4. Restored'
      BY <2>0, <2>k, <3>1, <3>3, FilesApart DEF Restored
    <3>5. ASSUME NEW f \in FilesOf(program) PROVE vectors'[f] = "complete" \/ Left(f)'
      <4>1. f \in Files
        BY <3>2, <3>5, FilesApart
      <4>2. vectors[f] = "complete" \/ Left(f)
        BY <2>0, <3>2, <3>5 DEF Generating
      <4>3. Left(f) => f = Current \/ Left(f)'
        BY <3>1, <3>2, WorkShrinks DEF Left, Current
      <4>. QED BY <3>3, <4>1, <4>2, <4>3
    <3>6. \A k \in 1 .. Len(todo') : todo'[k] \in FilesOf(program)
      BY <2>0, <3>1, <3>2, WorkShrinks DEF Generating
    <3>7. Generating'
      BY <2>0, <3>1, <3>2, <3>5, <3>6 DEF Generating
    <3>. QED BY <3>4, <3>7
  <2>7. CASE GeneratorEnds
    <3>1. /\ program \in Generators /\ todo = <<>> /\ End("0")
          /\ finished' = finished \union {program} /\ UNCHANGED vectors
      BY <2>7 DEF GeneratorEnds
    <3>2. \A f \in FilesOf(program) : vectors[f] = "complete"
      BY <2>0, <3>1 DEF Generating, Left
    <3>. QED BY <2>s, <3>1, <3>2
  <2>8. CASE RunOne
    BY <2>8, <2>u DEF RunOne
  <2>9. CASE LoadFails
    <3>1. End("1") /\ UNCHANGED <<vectors, finished>>
      BY <2>9 DEF LoadFails
    <3>. QED BY <2>s, <3>1
  <2>10. CASE Judge
    <3>1. CASE result.verdict = "raise"
      <4>1. End("1") /\ UNCHANGED <<vectors, finished>>
        BY <2>10, <3>1 DEF Judge
      <4>. QED BY <2>s, <4>1
    <3>2. CASE result.verdict # "raise"
      <4>1. program = Runner /\ UNCHANGED <<vectors, program, finished>>
        BY <2>10, <3>2 DEF Judge
      <4>. QED BY <2>0, <4>1, Programs DEF Generating, Restored
    <3>. QED BY <3>1, <3>2
  <2>11. CASE RunnerEnds
    <3>1. UNCHANGED <<vectors, finished>> /\ End(IF passed = total THEN "0" ELSE "1")
      BY <2>11 DEF RunnerEnds
    <3>. QED BY <2>s, <3>1
  <2>12. CASE Kill
    <3>1. End("killed") /\ UNCHANGED <<vectors, finished>>
      BY <2>12 DEF Kill
    <3>. QED BY <2>s, <3>1
  <2>13. CASE UNCHANGED vars
    BY <2>13, <2>u DEF vars, suite
  <2>. QED BY <1>2, <2>1, <2>2, <2>3, <2>4, <2>5, <2>6, <2>7, <2>8, <2>9, <2>10, <2>11, <2>12, <2>13
           DEF Next, ProcessStep
<1>. QED BY <1>1, <1>2

(* After any number of kills, a generator that has ended well since it was *)
(* last started has left all of its files whole: what an interrupted run   *)
(* of it tore is written again, and no other generator tears it.           *)
THEOREM RerunRestoresFiles == Spec => []RerunRestores
<1>1. RestoreInv => RerunRestores
  BY DEF RestoreInv, Restored, RerunRestores, FilesOf
<1>. QED BY <1>1, ShapeInductive, RestoreInductive, PTL DEF Spec

---------------------------------------------------------------------------
(* No vector is built to make the verifier raise.                          *)
LEMMA ExpectedVerdicts ==
  ASSUME NEW f \in Files
  PROVE  Stored[f].expected \in {"ACCEPT", "REJECT@step3", "REJECT@step4", "REJECT@step8",
                                 "REJECT@step9", "REJECT@step10"}
<1> DEFINE Verdicts == {"ACCEPT", "REJECT@step3", "REJECT@step4", "REJECT@step8",
                        "REJECT@step9", "REJECT@step10"}
<1>1. \E p, e, a : \E x \in Verdicts : Fixture[f] = Generated(p, e, a, x)
  <2>1. ASSUME NEW a, NEW r, NEW s, NEW x \in Verdicts, Fixture[f] = generated_minimal(a, r, s, x)
        PROVE  \E p, e, b : \E y \in Verdicts : Fixture[f] = Generated(p, e, b, y)
    BY <2>1, Zenon DEF generated_minimal
  <2>. QED BY <2>1 DEF Fixture, Files
<1>2. PICK p, e, a : \E x \in Verdicts : Fixture[f] = Generated(p, e, a, x)
  BY <1>1, Zenon
<1>a. PICK x \in Verdicts : Fixture[f] = Generated(p, e, a, x)
  BY <1>2, Zenon
<1>3. Fixture[f] = [preset |-> p, envelope |-> e, anchor |-> a, expected |-> x]
  BY <1>a DEF Generated
<1>4. Stored[f] = write_vector(Fixture[f])
  BY DEF Stored
<1>5. write_vector(Fixture[f]).expected = x
  BY <1>3 DEF write_vector
<1>. QED BY <1>4, <1>5

(* The runner's bookkeeping, while the verdicts agree: its counters, the   *)
(* torn files still before it, and what its steps make of the exit status. *)
LEMMA RunnerInductive ==
  /\ Init => RunnerInv
  /\ RunnerInv /\ Shape' /\ RunnerAgrees /\ [Next]_vars =>
       /\ RunnerInv'
       /\ [program = Runner /\ program' = "shell" /\ exit' # "killed" =>
             (exit' = "0" <=> \A f \in Files : vectors[f] # "torn")]_vars
<1>1. ASSUME Init PROVE RunnerInv
  BY <1>1, ShapeInductive, Programs DEF Init, RunnerInv, Counters, Running, Commands
<1>2. ASSUME RunnerInv, Shape', RunnerAgrees, [Next]_vars
      PROVE  /\ RunnerInv'
             /\ [program = Runner /\ program' = "shell" /\ exit' # "killed" =>
                   (exit' = "0" <=> \A f \in Files : vectors[f] # "torn")]_vars
  <2>0. Shape /\ Counters /\ Running /\ "shell" # Runner
    BY <1>2, Programs DEF RunnerInv
  <2> DEFINE Told == program = Runner /\ program' = "shell" /\ exit' # "killed" =>
                       (exit' = "0" <=> \A f \in Files : vectors[f] # "torn")
  <2> SUFFICES Counters' /\ Running' /\ (Told \/ UNCHANGED vars)
    BY <1>2 DEF RunnerInv
  <2>s. ASSUME NEW status, End(status) PROVE Counters' /\ Running'
    BY <2>0, <2>s, EndFacts DEF Counters, Running
  <2>g. ASSUME program # Runner, program' = program, UNCHANGED <<passed, total>>
        PROVE  Counters' /\ Running' /\ Told
    BY <2>0, <2>g DEF Counters, Running
  <2>1. CASE StartGenerator
    <3>1. PICK g \in Generators : program = "shell" /\ program' = g /\ UNCHANGED <<passed, total>>
      BY <2>1 DEF StartGenerator, Start
    <3>. QED BY <2>0, <3>1, Programs DEF Counters, Running
  <2>2. CASE StartRunner
    <3> DEFINE files == sorted_glob(vectors)
    <3>1. /\ program = "shell" /\ program' = Runner /\ todo' = files /\ total' = Len(files)
          /\ UNCHANGED <<vectors, stage, passed>>
      BY <2>2 DEF StartRunner, Start
    <3>2. /\ files \in Seq(Files)
          /\ \A f \in Files : vectors[f] # "absent" => \E k \in 1 .. Len(files) : files[k] = f
      BY <2>0, GlobFindsAll DEF Shape
    <3> HIDE DEF files
    <3>3. Len(files) \in Nat /\ passed = 0 /\ stage = "next"
      BY <2>0, <3>1, <3>2 DEF Counters, Shape
    <3>4. Running'
      BY <3>1, <3>2, <3>3 DEF Running, Left
    <3>. QED BY <2>0, <3>1, <3>3, <3>4 DEF Counters
  <2>3. CASE VerifyStep
    <3>1. UNCHANGED <<vectors, program, todo, stage, passed, total>>
      BY <2>3 DEF VerifyStep, suite
    <3>. QED BY <2>0, <3>1 DEF Counters, Running, Left, Current
  <2>4. CASE GenerateVector
    <3>1. program # Runner /\ UNCHANGED <<program, passed, total>>
      BY <2>4, Programs DEF GenerateVector
    <3>. QED BY <2>g, <3>1
  <2>5. CASE OpenVector
    <3>1. CASE Asserted(Current)
      <4>1. program # Runner /\ UNCHANGED <<program, passed, total>>
        BY <2>5, <3>1, Programs DEF OpenVector
      <4>. QED BY <2>g, <4>1
    <3>2. CASE ~ Asserted(Current)
      <4>1. program # Runner /\ End("1")
        BY <2>5, <3>2, Programs DEF OpenVector
      <4>. QED BY <2>s, <4>1
    <3>. QED BY <3>1, <3>2
  <2>6. CASE CloseVector
    <3>1. program # Runner /\ UNCHANGED <<program, passed, total>>
      BY <2>0, <2>6, Programs DEF CloseVector, Shape
    <3>. QED BY <2>g, <3>1
  <2>7. CASE GeneratorEnds
    <3>1. program # Runner /\ End("0")
      BY <2>7, Programs DEF GeneratorEnds
    <3>. QED BY <2>s, <3>1
  <2>8. CASE RunOne
    <3>1. vectors[Current] = "complete" /\ UNCHANGED <<vectors, program, todo, passed, total>> /\ program = Runner
      BY <2>8 DEF RunOne
    <3>. QED BY <2>0, <3>1 DEF Counters, Running, Left, Current
  <2>9. CASE LoadFails
    <3>1. program = Runner /\ todo # <<>> /\ vectors[Current] = "torn" /\ End("1")
      BY <2>9 DEF LoadFails
    <3>2. Current \in Files
      BY <2>0, <3>1, WorkShrinks DEF Shape, Current
    <3>3. exit' = "1"
      BY <3>1, EndFacts
    <3>. QED BY <2>s, <3>1, <3>2, <3>3
  <2>10. CASE Judge
    <3>1. program = Runner /\ stage = "verify" /\ pc = "idle" /\ todo \in Seq(Files) /\ todo # <<>>
      BY <2>0, <2>10 DEF Judge, Shape
    <3>2. Current \in Files /\ vectors[Current] = "complete"
      BY <2>0, <3>1, WorkShrinks DEF Current, Running
    <3>3. result.verdict = Stored[Current].expected
      BY <1>2, <3>1 DEF RunnerAgrees
    <3>4. result.verdict # "raise"
      BY <3>2, <3>3, ExpectedVerdicts
    <3>5. /\ passed' = passed + 1 /\ todo' = Tail(todo) /\ stage' = "next"
          /\ UNCHANGED <<vectors, program, total>>
      BY <2>10, <3>3, <3>4 DEF Judge
    <3>6. ASSUME NEW f \in Files, vectors'[f] = "torn" PROVE Left(f)'
      <4>1. vectors[f] = "torn" /\ f # Current
        BY <3>2, <3>5, <3>6
      <4>2. Left(f)
        BY <2>0, <3>1, <4>1 DEF Running
      <4>3. Left(f) => f = Current \/ Left(f)'
        BY <3>1, <3>5, WorkShrinks DEF Left, Current
      <4>. QED BY <4>1, <4>2, <4>3
    <3>7. passed' + Len(todo') = total'
      BY <2>0, <3>1, <3>5, WorkShrinks DEF Running, Counters
    <3>. QED BY <2>0, <3>1, <3>5, <3>6, <3>7 DEF Counters, Running
  <2>11. CASE RunnerEnds
    <3>1. program = Runner /\ todo = <<>> /\ End(IF passed = total THEN "0" ELSE "1")
      BY <2>11 DEF RunnerEnds
    <3>2. passed = total /\ \A f \in Files : vectors[f] # "torn"
      BY <2>0, <3>1 DEF Running, Counters, Left
    <3>3. exit' = "0"
      BY <3>1, <3>2, EndFacts
    <3>. QED BY <2>s, <3>1, <3>2, <3>3
  <2>12. CASE Kill
    <3>1. End("killed") /\ exit' = "killed"
      BY <2>12, EndFacts DEF Kill
    <3>. QED BY <2>s, <3>1
  <2>13. CASE UNCHANGED vars
    BY <2>0, <2>13 DEF vars, suite, Counters, Running, Left, Current
  <2>. QED BY <1>2, <2>1, <2>2, <2>3, <2>4, <2>5, <2>6, <2>7, <2>8, <2>9, <2>10, <2>11, <2>12, <2>13
           DEF Next, ProcessStep
<1>. QED BY <1>1, <1>2

(* The runner's exit status can only be wrong where a verdict is: as long  *)
(* as the runner reaches the expected verdict of every vector that it      *)
(* loads, it exits with 0 exactly when no file of the directory is torn.   *)
THEOREM ExitStatusCorrect == Spec /\ []RunnerAgrees => ExitStatus
BY ShapeInductive, RunnerInductive, PTL DEF Spec, ExitStatus
===========================================================================
