---------------------------- MODULE PipelineProofs ----------------------------
(***************************************************************************)
(* Proofs about Pipeline, for every number of instances, every cap, every  *)
(* number of samples and all faults.                                       *)
(*                                                                         *)
(* The counters are looked at with SumFunction, of which FoldTheorems says  *)
(* what is needed.  The other properties rest on where the main thread is  *)
(* (MainPlaces), on the cap being looked at before a REPL is spawned       *)
(* (Capped), and on who has a REPL: whoever waits for an answer, or has    *)
(* had one, is attached until the clients are shut down (Answered).        *)
(***************************************************************************)
EXTENDS Pipeline, FoldTheorems

\* The samples are treated in two phases, each with its own calls, and the
\* instance that is called is attached.
MainPlaces ==
  /\ cursor >= 1
  /\ phase = "sample" => step \in {"pick", "full", "body", "src", "goal", "tactic", "delete"}
  /\ phase = "generate" => step \in {"pick", "add", "kernel"}
  /\ phase = "snapshot" => step \in {"pick", "describe"}
  /\ phase \notin {"sample", "generate", "snapshot"} => step = "pick"
  /\ calling => step # "pick"
  /\ step # "pick" => target \in attached
  /\ step = "describe" => target = cursor

\* No worker has been created beyond the one whose turn it is.
Unlaunched == phase = "launch" => \A i \in Working : i < cursor

\* No more instances are attached than were spawned, and, while a start()
\* hangs, one.
Capped ==
  /\ Cardinality(attached) <= Cap
  /\ phase = "spawn" =>
       Cardinality(attached) <= spawned /\ spawned <= Cap /\ spawned < cursor

\* Before the shutdown, a worker that waits for an answer, or had one that was
\* a success, and an instance with successes, have a REPL.
Answered ==
  phase \notin {"shutdown", "done"} =>
    \A i \in Inst : worker[i] = "wait" \/ ok[i] \/ evals[i] > 0 => i \in attached

IndInv ==
  /\ TypeOK /\ MainPlaces /\ Capped /\ Answered
  /\ Unlaunched /\ WorkersConfined /\ CountsAgree

-----------------------------------------------------------------------------
(* Facts *)

\* There are finitely many instances, so many of them are counted by a number.
LEMMA Finite ==
  ASSUME NEW S \in SUBSET Inst
  PROVE  IsFiniteSet(S) /\ Cardinality(S) \in 0 .. N
<1>1. 1 \in Int /\ N \in Int /\ N \in Nat
  BY PipelineAssumption
<1>2. IsFiniteSet(Inst) /\ Cardinality(Inst) = IF 1 > N THEN 0 ELSE N - 1 + 1
  BY <1>1, FS_Interval, Zenon DEF Inst
<1>3. Cardinality(Inst) = N
  BY <1>1, <1>2
<1>4. IsFiniteSet(S) /\ Cardinality(S) <= Cardinality(Inst)
  BY <1>2, FS_Subset
<1>5. Cardinality(S) \in Nat
  BY <1>4, FS_CardinalityType
<1> QED
  BY <1>1, <1>3, <1>4, <1>5

\* Steps of the main thread, by what they change.
SpawnStep == SpawnOk \/ SpawnRefused \/ SpawnStuck

EnterStep ==
  \/ SpawnsDone \/ SamplesDone \/ Launched \/ StopWorkers \/ Joined
  \/ SnapshotsDone \/ Forks \/ Validates \/ Exits

SnapshotStep == SnapshotBegins \/ SnapshotSkips \/ SnapshotReturns

Sigpipe == MainSigpipe \/ ShutdownSigpipe \/ \E i \in Inst : WorkerSigpipe(i)

ReplStep == \E i \in Inst : ReplDies(i) \/ ReplSeesEof(i)

\* Steps of a worker that lives on.
WorkerGoes(i) ==
  \/ WorkerStops(i) \/ WorkerBegins(i) \/ WorkerCalls(i) \/ WorkerRefused(i)
  \/ WorkerCounts(i) \/ WorkerTotals(i)
  \/ \E r \in BOOLEAN : WorkerReturns(i, r)

\* The steps there are.
LEMMA Cases ==
  ASSUME Next
  PROVE  \/ SpawnStep \/ EnterStep \/ SnapshotStep \/ Sigpipe \/ ReplStep
         \/ MainCalls \/ PickTarget \/ LaunchWorker \/ ShutdownNext
         \/ \E r \in BOOLEAN : SampleReturns(r)
         \/ \E i \in Inst : WorkerGoes(i)
BY DEF Next, MainStep, MainReturn, WorkerStep, WorkerReturn, SpawnStep, EnterStep, SnapshotStep,
       Sigpipe, ReplStep, WorkerGoes

-----------------------------------------------------------------------------
(* Types *)

\* The types by groups: the main thread, its call, the pool, the workers, the
\* counters and the rest.
TypePlace   == phase \in Phases /\ cursor \in Nat /\ step \in Steps /\ target \in 0 .. N
TypeCall    == calling \in BOOLEAN /\ anyOk \in BOOLEAN
TypePool    == attached \subseteq Inst /\ running \subseteq attached /\ spawned \in 0 .. N
TypeWorkers == worker \in [Inst -> Places] /\ follow \in [Inst -> 0 .. 2]
TypeOks     == ok \in [Inst -> BOOLEAN]
TypeCounts  == evals \in [Inst -> Nat] /\ errors \in [Inst -> Nat] /\ total \in Nat
TypeReport  == snaps \subseteq Inst /\ report \in [active : 0 .. N, evaluations : Nat]
TypeEnds    == stop \in BOOLEAN /\ killed \in BOOLEAN

TypeGroups ==
  /\ TypePlace /\ TypeCall /\ TypePool /\ TypeWorkers
  /\ TypeOks /\ TypeCounts /\ TypeReport /\ TypeEnds

\* The groups are the types.
LEMMA Groups == TypeOK <=> TypeGroups
BY Zenon DEF TypeOK, TypeGroups, TypePlace, TypeCall, TypePool, TypeWorkers, TypeOks,
             TypeCounts, TypeReport, TypeEnds

\* A group whose variables stay keeps its types.
LEMMA Kept ==
  ASSUME TypeOK
  PROVE  /\ UNCHANGED <<phase, cursor, step, target>> => TypePlace'
         /\ UNCHANGED <<calling, anyOk>> => TypeCall'
         /\ UNCHANGED <<attached, running, spawned>> => TypePool'
         /\ UNCHANGED <<worker, follow>> => TypeWorkers'
         /\ UNCHANGED ok => TypeOks'
         /\ UNCHANGED <<evals, errors, total>> => TypeCounts'
         /\ UNCHANGED <<snaps, report>> => TypeReport'
         /\ UNCHANGED <<stop, killed>> => TypeEnds'
BY DEF TypeOK, TypePlace, TypeCall, TypePool, TypeWorkers, TypeOks, TypeCounts, TypeReport, TypeEnds

\* Every step keeps the types.
LEMMA TypeNext ==
  ASSUME TypeOK, MainPlaces, Capped, Next
  PROVE  TypeOK'
<1> USE PipelineAssumption
<1>0. TypeGroups' => TypeOK'
  BY Groups, PTL
<1>1. CASE SpawnStep
  <2> USE <1>1 DEF SpawnStep, SpawnOk, SpawnRefused, SpawnStuck, Spawning, At
  <2>1. cursor \in Inst /\ cursor + 1 \in Nat
    BY DEF TypeOK, MainPlaces, Inst
  <2>2. spawned' \in 0 .. N
    BY DEF TypeOK, Capped, poolVars
  <2>3. attached' \subseteq Inst /\ running' \subseteq attached'
    BY <2>1 DEF TypeOK, poolVars
  <2>4. phase' \in Phases /\ cursor' \in Nat /\ UNCHANGED <<step, target>>
    BY <2>1 DEF TypeOK, Phases
  <2>5. TypePlace' /\ TypePool'
    BY <2>2, <2>3, <2>4 DEF TypePlace, TypePool, TypeOK
  <2>6. UNCHANGED <<calling, anyOk, worker, follow, ok, evals, errors, total, snaps, report, stop,
                    killed>>
    BY DEF workerVars, counters
  <2> QED
    BY <2>5, <2>6, Kept, <1>0 DEF TypeGroups
<1>2. CASE EnterStep
  <2> USE <1>2 DEF EnterStep, SpawnsDone, SamplesDone, Launched, StopWorkers, Joined,
                   SnapshotsDone, Forks, Validates, Exits, Enter
  <2>1. phase' \in Phases
    BY DEF Phases
  <2>2. cursor' = 1 /\ step' = "pick" /\ target' = 0 /\ calling' = FALSE /\ anyOk' = FALSE
    OBVIOUS
  <2>3. UNCHANGED <<attached, running, spawned, worker, follow, ok, evals, errors, total, snaps, killed>>
    BY DEF poolVars, workerVars, counters
  <2>4. UNCHANGED stop \/ stop' = TRUE
    OBVIOUS
  <2>5. UNCHANGED report \/ report' = [active |-> Cardinality(attached), evaluations |-> total]
    OBVIOUS
  <2> HIDE <1>2 DEF EnterStep, SpawnsDone, SamplesDone, Launched, StopWorkers, Joined,
                    SnapshotsDone, Forks, Validates, Exits, Enter
  <2>6. TypePlace'
    BY <2>1, <2>2 DEF TypePlace, Steps
  <2>9. TypeCall'
    BY <2>2, Zenon DEF TypeCall
  <2>7. TypeReport'
    BY <2>3, <2>5, Finite DEF TypeOK, TypeReport
  <2>8. TypeEnds'
    BY <2>3, <2>4, Zenon DEF TypeEnds, TypeOK
  <2> QED
    BY <2>3, <2>6, <2>9, <2>7, <2>8, Kept, <1>0 DEF TypeGroups
<1>3. CASE SnapshotStep
  <2> USE <1>3 DEF SnapshotStep, SnapshotBegins, SnapshotSkips, SnapshotReturns, At
  <2>1. cursor \in attached \/ calling => cursor \in Inst
    BY DEF TypeOK, MainPlaces
  <2>2. snaps' = snaps \/ (snaps' = snaps \cup {cursor} /\ calling)
    OBVIOUS
  <2>3. snaps' \subseteq Inst /\ UNCHANGED report
    BY <2>1, <2>2 DEF TypeOK
  <2>4. TypeReport'
    BY <2>3 DEF TypeReport, TypeOK
  <2>5. /\ UNCHANGED phase
        /\ cursor' = cursor \/ cursor' = cursor + 1
        /\ step' \in {step, "pick", "describe"}
        /\ target' = target \/ (target' = cursor /\ cursor \in attached)
    OBVIOUS
  <2>6. TypePlace'
    BY <2>1, <2>5 DEF TypePlace, TypeOK, Steps, Inst
  <2>7. UNCHANGED <<calling, anyOk>> \/ (calling' = FALSE /\ UNCHANGED anyOk)
    OBVIOUS
  <2>8. TypeCall'
    BY <2>7, Kept, Zenon DEF TypeCall, TypeOK
  <2>9. UNCHANGED <<attached, running, spawned, worker, follow, ok, evals, errors, total, stop, killed>>
    BY DEF poolVars, workerVars, counters
  <2> QED
    BY <2>4, <2>6, <2>8, <2>9, Kept, <1>0 DEF TypeGroups
<1>4. CASE Sigpipe
  <2>1. /\ UNCHANGED <<mainVars, poolVars, workerVars, counters, stop, snaps, report>>
        /\ killed' = TRUE
    BY <1>4 DEF Sigpipe, MainSigpipe, ShutdownSigpipe, WorkerSigpipe
  <2>2. TypeEnds'
    BY <2>1, Zenon DEF TypeEnds, TypeOK
  <2> QED
    BY <2>1, <2>2, Kept, <1>0 DEF TypeGroups, mainVars, poolVars, workerVars, counters
<1>5. CASE ReplStep
  <2>1. /\ UNCHANGED <<mainVars, attached, spawned, workerVars, counters, stop, snaps, report, killed>>
        /\ running' \subseteq running
    BY <1>5 DEF ReplStep, ReplDies, ReplSeesEof, ReplEnds
  <2>2. TypePool'
    BY <2>1 DEF TypePool, TypeOK
  <2> QED
    BY <2>1, <2>2, Kept, <1>0 DEF TypeGroups, mainVars, workerVars, counters
<1>6. CASE MainCalls \/ PickTarget
  <2>1. /\ UNCHANGED <<phase, cursor, poolVars, workerVars, stop, counters, snaps, report, killed>>
        /\ UNCHANGED <<step, target>> \/ (step' \in {"full", "add"} /\ target' \in Inst)
        /\ \/ calling' = TRUE /\ UNCHANGED anyOk
           \/ anyOk' = FALSE /\ UNCHANGED calling
    BY <1>6 DEF MainCalls, PickTarget
  <2>2. TypePlace'
    BY <2>1 DEF TypePlace, TypeOK, Steps, Inst
  <2>3. TypeCall'
    BY <2>1, Zenon DEF TypeCall, TypeOK
  <2> QED
    BY <2>1, <2>2, <2>3, Kept, <1>0 DEF TypeGroups, poolVars, workerVars, counters
<1>7. CASE LaunchWorker
  <2>1. /\ UNCHANGED <<phase, step, target, calling, anyOk, poolVars, follow, ok, stop, counters,
                       snaps, report, killed>>
        /\ worker' = [worker EXCEPT ![cursor] = "check"] /\ cursor' = cursor + 1
    BY <1>7 DEF LaunchWorker
  <2>2. TypePlace'
    BY <2>1 DEF TypePlace, TypeOK
  <2>3. TypeWorkers'
    BY <2>1 DEF TypeWorkers, TypeOK, Places
  <2> QED
    BY <2>1, <2>2, <2>3, Kept, <1>0 DEF TypeGroups, poolVars, counters
<1>8. CASE ShutdownNext
  <2>1. /\ UNCHANGED <<phase, step, target, calling, anyOk, spawned, workerVars, stop, counters,
                       snaps, report, killed>>
        /\ attached' = attached \ {cursor} /\ running' = running \ {cursor}
        /\ cursor' = cursor + 1
    BY <1>8 DEF ShutdownNext
  <2>2. TypePlace' /\ TypePool'
    BY <2>1 DEF TypePlace, TypePool, TypeOK
  <2> QED
    BY <2>1, <2>2, Kept, <1>0 DEF TypeGroups, workerVars, counters
<1>9. ASSUME NEW i, NEW r, Count(i, r)
      PROVE  evals' \in [Inst -> Nat] /\ errors' \in [Inst -> Nat]
  <2>1. /\ evals' = [evals EXCEPT ![i] = @ + 1] \/ UNCHANGED evals
        /\ errors' = [errors EXCEPT ![i] = @ + 1] \/ UNCHANGED errors
    BY <1>9, Zenon DEF Count
  <2> QED
    BY <2>1 DEF TypeOK
<1>10. ASSUME NEW r \in BOOLEAN, SampleReturns(r) PROVE TypeOK'
  <2>1. /\ UNCHANGED <<phase, target, poolVars, workerVars, stop, snaps, report, killed>>
        /\ calling' = FALSE /\ anyOk' = Success(r)
    BY <1>10 DEF SampleReturns
  <2>2. TypeCall'
    <3>1. Success(r) \in BOOLEAN
      BY Zenon DEF Success
    <3> QED
      BY <2>1, <3>1, Zenon DEF TypeCall
  <2>3. CASE /\ MayBeLast(r) /\ step' = "pick" /\ cursor' = cursor + 1
             /\ Count(target, Success(r)) /\ total' = total + 1
    <3>1. TypePlace'
      BY <2>1, <2>3 DEF TypePlace, TypeOK, Steps
    <3>2. TypeCounts'
      BY <1>9, <2>3 DEF TypeCounts, TypeOK
    <3> QED
      BY <2>1, <2>2, <3>1, <3>2, Kept, <1>0 DEF TypeGroups, poolVars, workerVars
  <2>4. CASE GoesOn(r) /\ step' = NextStep[step] /\ UNCHANGED <<cursor, counters>>
    <3>1. step \in {"full", "body", "src", "goal", "tactic", "add"}
      BY <2>4 DEF GoesOn
    <3>2. TypePlace'
      BY <2>1, <2>4, <3>1 DEF NextStep, TypePlace, Steps, TypeOK
    <3> QED
      BY <2>1, <2>2, <2>4, <3>2, Kept, <1>0 DEF TypeGroups, poolVars, workerVars, counters
  <2> QED
    BY <1>10, <2>3, <2>4, Zenon DEF SampleReturns
<1>11. ASSUME NEW i \in Inst, WorkerGoes(i) PROVE TypeOK'
  <2>1. UNCHANGED <<mainVars, poolVars, stop, snaps, report, killed>>
    BY <1>11 DEF WorkerGoes, WorkerStops, WorkerBegins, WorkerCalls, WorkerRefused, WorkerCounts,
                 WorkerTotals, WorkerReturns
  <2>2. TypeCounts'
    <3>1. \/ UNCHANGED counters
          \/ Count(i, ok[i]) /\ UNCHANGED total
          \/ UNCHANGED <<evals, errors>> /\ total' = total + 1
      BY <1>11, Zenon DEF WorkerGoes, WorkerStops, WorkerBegins, WorkerCalls, WorkerRefused,
                          WorkerCounts, WorkerTotals, WorkerReturns
    <3> QED
      BY <1>9, <3>1 DEF TypeCounts, TypeOK, counters
  <2>3. PICK p \in Places : Goes(i, p)
    BY <1>11 DEF WorkerGoes, WorkerStops, WorkerBegins, WorkerCalls, WorkerRefused, WorkerCounts,
                 WorkerTotals, WorkerReturns, Places
  <2>4. \/ UNCHANGED follow
        \/ follow' = [follow EXCEPT ![i] = 0] \/ follow' = [follow EXCEPT ![i] = 2]
        \/ follow' = [follow EXCEPT ![i] = @ - 1] /\ follow[i] > 0
    BY <1>11 DEF WorkerGoes, WorkerStops, WorkerBegins, WorkerCalls, WorkerRefused, WorkerCounts,
                 WorkerTotals, WorkerReturns
  <2>5. TypeWorkers'
    BY <2>3, <2>4 DEF TypeWorkers, Goes, TypeOK
  <2>6. PICK b \in BOOLEAN : UNCHANGED ok \/ ok' = [ok EXCEPT ![i] = b]
    BY <1>11, Zenon DEF WorkerGoes, WorkerStops, WorkerBegins, WorkerCalls, WorkerRefused,
                        WorkerCounts, WorkerTotals, WorkerReturns
  <2>7. TypeOks'
    BY <2>6, Zenon DEF TypeOks, TypeOK
  <2> QED
    BY <2>1, <2>2, <2>5, <2>7, Kept, <1>0 DEF TypeGroups, mainVars, poolVars
<1> QED
  BY <1>1, <1>2, <1>3, <1>4, <1>5, <1>6, <1>7, <1>8, <1>10, <1>11, Cases

-----------------------------------------------------------------------------
(* The main thread *)

\* Every step keeps the main thread in its places.
LEMMA MainPlacesNext ==
  ASSUME TypeOK, MainPlaces, Next
  PROVE  MainPlaces'
<1> USE PipelineAssumption
<1>1. CASE SpawnStep
  <2>1. /\ UNCHANGED <<step, target, calling>> /\ phase = "spawn"
        /\ phase' \in {"spawn", "stuck"} /\ cursor' \in {cursor, cursor + 1}
        /\ attached \subseteq attached'
    BY <1>1 DEF SpawnStep, SpawnOk, SpawnRefused, SpawnStuck, Spawning, At, poolVars
  <2> QED
    BY <2>1 DEF MainPlaces, TypeOK
<1>2. CASE EnterStep
  <2>1. cursor' = 1 /\ step' = "pick" /\ calling' = FALSE
    BY <1>2 DEF EnterStep, SpawnsDone, SamplesDone, Launched, StopWorkers, Joined, SnapshotsDone,
                Forks, Validates, Exits, Enter
  <2> QED
    BY <2>1 DEF MainPlaces
<1>3. CASE SnapshotStep
  <2>1. SnapshotBegins \/ SnapshotSkips \/ SnapshotReturns
    BY <1>3 DEF SnapshotStep
  <2>2. phase' = "snapshot" /\ UNCHANGED attached
    BY <2>1 DEF SnapshotBegins, SnapshotSkips, SnapshotReturns, At, poolVars
  <2> QED
    BY <2>1, <2>2 DEF SnapshotBegins, SnapshotSkips, SnapshotReturns, MainPlaces, TypeOK
<1>4. CASE Sigpipe
  BY <1>4 DEF Sigpipe, MainSigpipe, ShutdownSigpipe, WorkerSigpipe, MainPlaces, mainVars, poolVars
<1>5. CASE ReplStep
  BY <1>5 DEF ReplStep, ReplDies, ReplSeesEof, ReplEnds, MainPlaces, mainVars
<1>6. CASE MainCalls
  BY <1>6 DEF MainCalls, MainPlaces, poolVars
<1>7. CASE PickTarget
  BY <1>7 DEF PickTarget, Sampling, FirstAlive, MainPlaces, poolVars
<1>8. CASE LaunchWorker
  BY <1>8 DEF LaunchWorker, At, MainPlaces, TypeOK, poolVars
<1>9. CASE ShutdownNext
  BY <1>9 DEF ShutdownNext, At, MainPlaces, TypeOK
<1>10. ASSUME NEW r \in BOOLEAN, SampleReturns(r) PROVE MainPlaces'
  <2>1. UNCHANGED <<phase, attached, target>> /\ calling' = FALSE /\ phase \in {"sample", "generate"}
        /\ step # "pick"
    BY <1>10 DEF SampleReturns, Sampling, poolVars, MainPlaces
  <2>2. CASE step' = "pick" /\ cursor' = cursor + 1
    BY <2>1, <2>2 DEF MainPlaces, TypeOK
  <2>3. CASE GoesOn(r) /\ step' = NextStep[step] /\ UNCHANGED cursor
    BY <2>1, <2>3 DEF MainPlaces, GoesOn, NextStep
  <2> QED
    BY <1>10, <2>2, <2>3 DEF SampleReturns
<1>11. ASSUME NEW i \in Inst, WorkerGoes(i) PROVE MainPlaces'
  BY <1>11 DEF WorkerGoes, WorkerStops, WorkerBegins, WorkerCalls, WorkerRefused, WorkerCounts,
               WorkerTotals, WorkerReturns, MainPlaces, mainVars, poolVars
<1> QED
  BY <1>1, <1>2, <1>3, <1>4, <1>5, <1>6, <1>7, <1>8, <1>9, <1>10, <1>11, Cases

\* What a step attaches: only a spawn attaches an instance, the next one, and
\* only a shutdown detaches one.
LEMMA Attachment ==
  ASSUME Next
  PROVE  \/ UNCHANGED attached
         \/ ShutdownNext
         \/ SpawnOk \/ SpawnStuck
<1>1. CASE SpawnStep
  BY <1>1 DEF SpawnStep, SpawnRefused, poolVars
<1>2. CASE EnterStep
  BY <1>2 DEF EnterStep, SpawnsDone, SamplesDone, Launched, StopWorkers, Joined, SnapshotsDone,
              Forks, Validates, Exits, poolVars
<1>3. CASE SnapshotStep
  BY <1>3 DEF SnapshotStep, SnapshotBegins, SnapshotSkips, SnapshotReturns, poolVars
<1>4. CASE Sigpipe
  BY <1>4 DEF Sigpipe, MainSigpipe, ShutdownSigpipe, WorkerSigpipe, poolVars
<1>5. CASE ReplStep
  BY <1>5 DEF ReplStep, ReplDies, ReplSeesEof, ReplEnds
<1>6. CASE MainCalls \/ PickTarget \/ LaunchWorker
  BY <1>6 DEF MainCalls, PickTarget, LaunchWorker, poolVars
<1>7. ASSUME NEW r \in BOOLEAN, SampleReturns(r) PROVE UNCHANGED attached
  BY <1>7 DEF SampleReturns, poolVars
<1>8. ASSUME NEW i \in Inst, WorkerGoes(i) PROVE UNCHANGED attached
  BY <1>8 DEF WorkerGoes, WorkerStops, WorkerBegins, WorkerCalls, WorkerRefused, WorkerCounts,
              WorkerTotals, WorkerReturns, poolVars
<1> QED
  BY <1>1, <1>2, <1>3, <1>4, <1>5, <1>6, <1>7, <1>8, Cases

\* The spawning ends for good, and in a step that does not attach the number
\* of spawns stays and the next instance is no earlier one.
LEMMA SpawnPhase ==
  ASSUME TypeOK, MainPlaces, Next, phase' = "spawn"
  PROVE  /\ phase = "spawn"
         /\ SpawnOk \/ (UNCHANGED <<attached, spawned>> /\ cursor' \in {cursor, cursor + 1})
<1>1. CASE SpawnStep
  BY <1>1 DEF SpawnStep, SpawnOk, SpawnRefused, SpawnStuck, Spawning, At, poolVars
<1>2. CASE EnterStep
  BY <1>2 DEF EnterStep, SpawnsDone, SamplesDone, Launched, StopWorkers, Joined, SnapshotsDone,
              Forks, Validates, Exits, Enter, At
<1>3. CASE SnapshotStep
  BY <1>3 DEF SnapshotStep, SnapshotBegins, SnapshotSkips, SnapshotReturns, At
<1>4. CASE Sigpipe
  BY <1>4 DEF Sigpipe, MainSigpipe, ShutdownSigpipe, WorkerSigpipe, poolVars, mainVars
<1>5. CASE ReplStep
  BY <1>5 DEF ReplStep, ReplDies, ReplSeesEof, ReplEnds, mainVars
<1>6. CASE MainCalls \/ PickTarget \/ LaunchWorker \/ ShutdownNext
  BY <1>6 DEF MainCalls, PickTarget, LaunchWorker, ShutdownNext, poolVars, At, Sampling
<1>7. ASSUME NEW r \in BOOLEAN, SampleReturns(r) PROVE FALSE
  BY <1>7 DEF SampleReturns, Sampling
<1>8. ASSUME NEW i \in Inst, WorkerGoes(i) PROVE UNCHANGED <<mainVars, poolVars>>
  BY <1>8 DEF WorkerGoes, WorkerStops, WorkerBegins, WorkerCalls, WorkerRefused, WorkerCounts,
              WorkerTotals, WorkerReturns
<1> QED
  BY <1>1, <1>2, <1>3, <1>4, <1>5, <1>6, <1>7, <1>8, Cases DEF mainVars, poolVars

\* One more instance makes at most one more.
LEMMA OneMore ==
  ASSUME NEW S \in SUBSET Inst, NEW i \in Inst
  PROVE  Cardinality(S \cup {i}) <= Cardinality(S) + 1 /\ Cardinality(S \ {i}) <= Cardinality(S)
<1>1. IsFiniteSet(S) /\ Cardinality(S) \in Nat
  BY Finite, PipelineAssumption
<1>2. Cardinality(S \cup {i}) = IF i \in S THEN Cardinality(S) ELSE Cardinality(S) + 1
  BY <1>1, FS_AddElement
<1>3. Cardinality(S \ {i}) <= Cardinality(S)
  BY <1>1, FS_Subset
<1> QED
  BY <1>1, <1>2, <1>3

\* Every step keeps the cap.
LEMMA CappedNext ==
  ASSUME TypeOK, MainPlaces, Capped, Next
  PROVE  Capped'
<1> USE PipelineAssumption
<1>1. CASE SpawnOk
  <2>1. /\ phase = "spawn" /\ cursor <= N /\ spawned < Cap
        /\ attached' = attached \cup {cursor} /\ spawned' = spawned + 1 /\ cursor' = cursor + 1
    BY <1>1 DEF SpawnOk, Spawning, At
  <2>2. cursor \in Inst /\ attached \in SUBSET Inst
    BY <2>1 DEF TypeOK, MainPlaces, Inst
  <2>3. Cardinality(attached') <= Cardinality(attached) + 1
    BY <2>1, <2>2, OneMore
  <2>4. Cardinality(attached) \in Nat /\ Cardinality(attached') \in Nat
    BY <2>1, <2>2, Finite
  <2> QED
    BY <2>1, <2>3, <2>4 DEF Capped, TypeOK
<1>2. CASE SpawnStuck
  <2>1. /\ phase = "spawn" /\ cursor <= N /\ spawned < Cap /\ phase' = "stuck"
        /\ attached' = attached \cup {cursor}
    BY <1>2 DEF SpawnStuck, Spawning, At
  <2>2. cursor \in Inst /\ attached \in SUBSET Inst
    BY <2>1 DEF TypeOK, MainPlaces, Inst
  <2>3. Cardinality(attached') <= Cardinality(attached) + 1
    BY <2>1, <2>2, OneMore
  <2>4. Cardinality(attached) \in Nat /\ Cardinality(attached') \in Nat
    BY <2>1, <2>2, Finite
  <2> QED
    BY <2>1, <2>3, <2>4 DEF Capped, TypeOK
<1>3. CASE ShutdownNext
  <2>1. phase' # "spawn" /\ attached' = attached \ {cursor} /\ cursor <= N
    BY <1>3 DEF ShutdownNext, At
  <2>2. cursor \in Inst /\ attached \in SUBSET Inst
    BY <2>1 DEF TypeOK, MainPlaces, Inst
  <2>3. Cardinality(attached') <= Cardinality(attached)
    BY <2>1, <2>2, OneMore
  <2>4. Cardinality(attached) \in Nat /\ Cardinality(attached') \in Nat
    BY <2>1, <2>2, Finite
  <2> QED
    BY <2>1, <2>3, <2>4 DEF Capped, TypeOK
<1>4. CASE UNCHANGED attached
  <2>1. CASE SpawnOk
    BY <1>1, <2>1
  <2>2. CASE ~SpawnOk
    BY <1>4, <2>2, SpawnPhase DEF Capped, TypeOK
  <2> QED
    BY <2>1, <2>2
<1> QED
  BY <1>1, <1>2, <1>3, <1>4, Attachment

-----------------------------------------------------------------------------
(* Who has a REPL *)

\* The shutdown is not left again, and before it nobody is detached.
LEMMA BeforeShutdown ==
  ASSUME Next, phase' \notin {"shutdown", "done"}
  PROVE  phase \notin {"shutdown", "done"} /\ attached \subseteq attached'
<1>1. CASE SpawnStep
  BY <1>1 DEF SpawnStep, SpawnOk, SpawnRefused, SpawnStuck, Spawning, At, poolVars
<1>2. CASE EnterStep
  BY <1>2 DEF EnterStep, SpawnsDone, SamplesDone, Launched, StopWorkers, Joined, SnapshotsDone,
              Forks, Validates, Exits, Enter, At, Sampling, poolVars
<1>3. CASE SnapshotStep
  BY <1>3 DEF SnapshotStep, SnapshotBegins, SnapshotSkips, SnapshotReturns, At, poolVars
<1>4. CASE Sigpipe
  BY <1>4 DEF Sigpipe, MainSigpipe, ShutdownSigpipe, WorkerSigpipe, poolVars, mainVars
<1>5. CASE ReplStep
  BY <1>5 DEF ReplStep, ReplDies, ReplSeesEof, ReplEnds, mainVars
<1>6. CASE MainCalls \/ PickTarget \/ LaunchWorker \/ ShutdownNext
  BY <1>6 DEF MainCalls, PickTarget, LaunchWorker, ShutdownNext, poolVars, At, Sampling
<1>7. ASSUME NEW r \in BOOLEAN, SampleReturns(r) PROVE UNCHANGED <<phase, attached>>
  BY <1>7 DEF SampleReturns, poolVars
<1>8. ASSUME NEW i \in Inst, WorkerGoes(i) PROVE UNCHANGED <<mainVars, poolVars>>
  BY <1>8 DEF WorkerGoes, WorkerStops, WorkerBegins, WorkerCalls, WorkerRefused, WorkerCounts,
              WorkerTotals, WorkerReturns
<1> QED
  BY <1>1, <1>2, <1>3, <1>4, <1>5, <1>6, <1>7, <1>8, Cases DEF mainVars, poolVars

\* Counting a success needs a REPL, counting an error does not.
LEMMA CountedOne ==
  ASSUME TypeOK, NEW i \in Inst, NEW r \in BOOLEAN, Count(i, r), NEW j \in Inst, evals'[j] > 0
  PROVE  evals[j] > 0 \/ (j = i /\ r)
<1>1. CASE r
  BY <1>1 DEF Count, TypeOK
<1>2. CASE ~r
  BY <1>2 DEF Count
<1> QED
  BY <1>1, <1>2

\* Steps other than those of the workers that live on change no worker but
\* for its creation, and count at most at the target.
LEMMA MainCounts ==
  ASSUME Next, \A i \in Inst : ~WorkerGoes(i)
  PROVE  /\ UNCHANGED <<follow, ok>>
         /\ \/ UNCHANGED <<worker, counters>>
            \/ UNCHANGED counters /\ LaunchWorker
            \/ /\ UNCHANGED worker /\ step # "pick" /\ calling
               /\ phase \in {"sample", "generate"} /\ UNCHANGED phase
               /\ \E r \in BOOLEAN : Count(target, r)
               /\ total' = total + 1
<1>1. CASE SpawnStep
  BY <1>1 DEF SpawnStep, SpawnOk, SpawnRefused, SpawnStuck, workerVars
<1>2. CASE EnterStep
  BY <1>2 DEF EnterStep, SpawnsDone, SamplesDone, Launched, StopWorkers, Joined, SnapshotsDone,
              Forks, Validates, Exits, workerVars
<1>3. CASE SnapshotStep
  BY <1>3 DEF SnapshotStep, SnapshotBegins, SnapshotSkips, SnapshotReturns, workerVars
<1>4. CASE Sigpipe
  BY <1>4 DEF Sigpipe, MainSigpipe, ShutdownSigpipe, WorkerSigpipe, workerVars
<1>5. CASE ReplStep
  BY <1>5 DEF ReplStep, ReplDies, ReplSeesEof, ReplEnds, workerVars
<1>6. CASE MainCalls \/ PickTarget \/ ShutdownNext
  BY <1>6 DEF MainCalls, PickTarget, ShutdownNext, workerVars
<1>7. CASE LaunchWorker
  BY <1>7 DEF LaunchWorker
<1>8. ASSUME NEW r \in BOOLEAN, SampleReturns(r)
      PROVE  /\ UNCHANGED <<worker, follow, ok, phase>> /\ calling /\ phase \in {"sample", "generate"}
             /\ \/ UNCHANGED counters
                \/ step # "pick" /\ Count(target, Success(r)) /\ total' = total + 1
  BY <1>8 DEF SampleReturns, Sampling, MayBeLast, workerVars
<1>9. \A r \in BOOLEAN : Success(r) \in BOOLEAN
  BY Zenon DEF Success
<1>10. CASE \E r \in BOOLEAN : SampleReturns(r)
  <2>1. PICK r \in BOOLEAN : SampleReturns(r)
    BY <1>10
  <2> QED
    BY <1>8, <1>9, <2>1, Zenon
<1> QED
  BY <1>1, <1>2, <1>3, <1>4, <1>5, <1>6, <1>7, <1>10, Cases

\* Whoever waits, or has had a success, keeps its REPL until the shutdown.
LEMMA AnsweredNext ==
  ASSUME TypeOK, MainPlaces, Answered, Next
  PROVE  Answered'
<1> USE PipelineAssumption
<1> SUFFICES ASSUME phase' \notin {"shutdown", "done"}, NEW j \in Inst,
                    worker'[j] = "wait" \/ ok'[j] \/ evals'[j] > 0
             PROVE  j \in attached
  BY BeforeShutdown DEF Answered
<1>1. worker[j] = "wait" \/ ok[j] \/ evals[j] > 0 => j \in attached
  BY BeforeShutdown DEF Answered
<1>2. ASSUME NEW i \in Inst, WorkerGoes(i) PROVE j \in attached
  <2>1. CASE WorkerStops(i) \/ WorkerBegins(i) \/ WorkerTotals(i)
    BY <1>1, <2>1 DEF WorkerStops, WorkerBegins, WorkerTotals, Goes, TypeOK, counters
  <2>2. CASE WorkerCalls(i)
    BY <1>1, <2>2 DEF WorkerCalls, Goes, TypeOK, counters
  <2>3. CASE WorkerRefused(i)
    BY <1>1, <2>3 DEF WorkerRefused, Goes, TypeOK, counters
  <2>4. CASE WorkerCounts(i)
    <3>1. worker'[j] = "wait" => worker[j] = "wait"
      BY <2>4 DEF WorkerCounts, Goes, TypeOK
    <3>2. UNCHANGED ok /\ Count(i, ok[i]) /\ ok[i] \in BOOLEAN
      BY <2>4 DEF WorkerCounts, TypeOK
    <3>3. evals'[j] > 0 => evals[j] > 0 \/ (j = i /\ ok[i])
      BY <3>2, CountedOne
    <3> QED
      BY <1>1, <3>1, <3>2, <3>3
  <2>5. ASSUME NEW r \in BOOLEAN, WorkerReturns(i, r) PROVE j \in attached
    <3>1. worker[i] = "wait" /\ UNCHANGED evals
      BY <2>5 DEF WorkerReturns, Worker, counters
    <3>2. CASE j = i
      BY <1>1, <3>1, <3>2
    <3>3. CASE j # i
      <4>1. worker'[j] = worker[j]
        BY <2>5, <3>3 DEF WorkerReturns, Goes, TypeOK
      <4>2. ok'[j] = ok[j]
        BY <2>5, <3>3 DEF WorkerReturns, TypeOK
      <4> QED
        BY <1>1, <3>1, <4>1, <4>2
    <3> QED
      BY <3>2, <3>3
  <2> QED
    BY <1>2, <2>1, <2>2, <2>3, <2>4, <2>5 DEF WorkerGoes
<1>3. CASE \A i \in Inst : ~WorkerGoes(i)
  <2>1. UNCHANGED ok
    BY <1>3, MainCounts
  <2>2. worker'[j] = "wait" => worker[j] = "wait"
    BY <1>3, MainCounts DEF LaunchWorker, TypeOK
  <2>3. evals'[j] > 0 => evals[j] > 0 \/ j \in attached
    <3>1. CASE UNCHANGED counters
      BY <3>1 DEF counters
    <3>2. CASE ~UNCHANGED counters
      <4>1. PICK r \in BOOLEAN : Count(target, r) /\ step # "pick"
        BY <1>3, <3>2, MainCounts
      <4>2. target \in attached /\ target \in Inst
        BY <4>1 DEF MainPlaces, TypeOK
      <4> QED
        BY <4>1, <4>2, CountedOne
    <3> QED
      BY <3>1, <3>2
  <2> QED
    BY <1>1, <2>1, <2>2, <2>3
<1> QED
  BY <1>2, <1>3

-----------------------------------------------------------------------------
(* The workers *)

\* A worker that goes on is one that works, in its place, and the main thread
\* stays where it is.
LEMMA Goers ==
  ASSUME TypeOK, NEW i \in Inst, WorkerGoes(i)
  PROVE  /\ i \in Working /\ Working' \subseteq Working
         /\ UNCHANGED <<phase, cursor, report>>
<1>1. i \in Working
  BY DEF WorkerGoes, WorkerStops, WorkerBegins, WorkerCalls, WorkerRefused, WorkerCounts,
         WorkerTotals, WorkerReturns, Worker, Working
<1>2. PICK p : Goes(i, p)
  BY Zenon DEF WorkerGoes, WorkerStops, WorkerBegins, WorkerCalls, WorkerRefused, WorkerCounts,
               WorkerTotals, WorkerReturns
<1>3. Working' \subseteq Working
  BY <1>1, <1>2 DEF Goes, Working, TypeOK
<1>4. UNCHANGED <<phase, cursor, report>>
  BY DEF WorkerGoes, WorkerStops, WorkerBegins, WorkerCalls, WorkerRefused, WorkerCounts,
         WorkerTotals, WorkerReturns, mainVars
<1> QED
  BY <1>1, <1>3, <1>4

\* How the phases in which there are workers begin and end: the first after
\* the tests, the last when the workers have been joined; and what a step that
\* is not the report's leaves.
LEMMA PhaseNext ==
  ASSUME Next, \A i \in Inst : ~WorkerGoes(i)
  PROVE  /\ phase' = "launch" =>
              \/ phase = "launch" /\ (cursor' = cursor \/ LaunchWorker)
              \/ phase = "generate" /\ cursor' = 1
         /\ phase \in {"launch", "evaluate", "join"} =>
              phase' \in {"launch", "evaluate", "join"} \/ Working = {}
         /\ phase' \in {"shutdown", "done"} =>
              \/ phase \in {"shutdown", "done"} /\ UNCHANGED <<report, counters>>
              \/ report'.evaluations = total' /\ phase = "validate"
<1>1. CASE SpawnStep
  BY <1>1 DEF SpawnStep, SpawnOk, SpawnRefused, SpawnStuck, Spawning, At
<1>2. CASE EnterStep
  BY <1>2 DEF EnterStep, SpawnsDone, SamplesDone, Launched, StopWorkers, Joined, SnapshotsDone,
              Forks, Validates, Exits, Enter, At, Sampling, counters
<1>3. CASE SnapshotStep
  BY <1>3 DEF SnapshotStep, SnapshotBegins, SnapshotSkips, SnapshotReturns, At
<1>4. CASE Sigpipe
  BY <1>4 DEF Sigpipe, MainSigpipe, ShutdownSigpipe, WorkerSigpipe, mainVars
<1>5. CASE ReplStep
  BY <1>5 DEF ReplStep, ReplDies, ReplSeesEof, ReplEnds, mainVars
<1>6. CASE MainCalls \/ PickTarget \/ LaunchWorker \/ ShutdownNext
  BY <1>6 DEF MainCalls, PickTarget, LaunchWorker, ShutdownNext, At, Sampling
<1>7. ASSUME NEW r \in BOOLEAN, SampleReturns(r)
      PROVE  UNCHANGED phase /\ phase \in {"sample", "generate"}
  BY <1>7 DEF SampleReturns, Sampling
<1> QED
  BY <1>1, <1>2, <1>3, <1>4, <1>5, <1>6, <1>7, Cases

\* The instance whose worker is created has none.
LEMMA LaunchOne ==
  ASSUME TypeOK, MainPlaces, Unlaunched, LaunchWorker
  PROVE  /\ cursor \in Inst \ Working /\ phase = "launch" /\ UNCHANGED phase
         /\ cursor' = cursor + 1 /\ Working' = Working \cup {cursor}
         /\ worker' = [worker EXCEPT ![cursor] = "check"]
<1>1. /\ phase = "launch" /\ UNCHANGED phase /\ cursor \in Inst /\ cursor' = cursor + 1
      /\ worker' = [worker EXCEPT ![cursor] = "check"]
  <2>1. /\ phase = "launch" /\ UNCHANGED phase /\ cursor <= spawned /\ cursor' = cursor + 1
        /\ worker' = [worker EXCEPT ![cursor] = "check"]
    BY DEF LaunchWorker, At
  <2>2. cursor \in Inst
    BY <2>1, PipelineAssumption DEF TypeOK, MainPlaces, Inst
  <2> QED
    BY <2>1, <2>2
<1>2. cursor \notin Working
  BY <1>1 DEF Unlaunched, TypeOK
<1>3. Working' = Working \cup {cursor}
  BY <1>1 DEF Working, TypeOK
<1> QED
  BY <1>1, <1>2, <1>3

\* Every step keeps the workers below the cursor, until all are created.
LEMMA UnlaunchedNext ==
  ASSUME TypeOK, MainPlaces, WorkersConfined, Unlaunched, Next
  PROVE  Unlaunched'
<1>1. ASSUME NEW i \in Inst, WorkerGoes(i) PROVE Unlaunched'
  BY <1>1, Goers DEF Unlaunched
<1>2. CASE \A i \in Inst : ~WorkerGoes(i)
  <2>1. CASE LaunchWorker
    <3>1. /\ phase = "launch" /\ cursor \in Nat /\ cursor' = cursor + 1
          /\ Working' = Working \cup {cursor}
      BY <2>1, LaunchOne DEF TypeOK
    <3>2. Working \subseteq Nat
      BY DEF Working, Inst
    <3> QED
      BY <3>1, <3>2 DEF Unlaunched
  <2>2. CASE ~LaunchWorker
    <3>1. Working' = Working
      BY <1>2, <2>2, MainCounts DEF Working
    <3> QED
      BY <1>2, <2>2, <3>1, PhaseNext DEF Unlaunched, WorkersConfined
  <2> QED
    BY <2>1, <2>2
<1> QED
  BY <1>1, <1>2

\* Every step keeps the workers in phase 3, and the report.
LEMMA WorkersConfinedNext ==
  ASSUME TypeOK, MainPlaces, WorkersConfined, Unlaunched, Next
  PROVE  WorkersConfined'
<1>1. ASSUME NEW i \in Inst, WorkerGoes(i) PROVE WorkersConfined'
  <2>1. phase \in {"launch", "evaluate", "join"} /\ UNCHANGED phase
    BY <1>1, Goers DEF WorkersConfined
  <2> QED
    BY <2>1 DEF WorkersConfined
<1>2. CASE \A i \in Inst : ~WorkerGoes(i)
  <2>1. CASE LaunchWorker
    BY <2>1, LaunchOne DEF WorkersConfined
  <2>2. CASE ~LaunchWorker
    <3>1. Working' = Working
      BY <1>2, <2>2, MainCounts DEF Working
    <3> QED
      BY <1>2, <3>1, PhaseNext DEF WorkersConfined, counters
  <2> QED
    BY <2>1, <2>2
<1> QED
  BY <1>1, <1>2

-----------------------------------------------------------------------------
(* The counters *)

Totalling == {i \in Inst : worker[i] = "total"}

\* Counting adds one to the counters of the instances together.
LEMMA CountAddsOne ==
  ASSUME TypeOK, NEW i \in Inst, NEW r \in BOOLEAN, Count(i, r)
  PROVE  SumFunction(evals') + SumFunction(errors') = SumFunction(evals) + SumFunction(errors) + 1
<1>1. IsFiniteSet(Inst)
  BY Finite
<1>2. evals \in [Inst -> Nat] /\ errors \in [Inst -> Nat]
  BY DEF TypeOK
<1>3. SumFunction(evals) \in Nat /\ SumFunction(errors) \in Nat
  BY <1>1, <1>2, SumFunctionNat, Zenon
<1>4. CASE r
  <2>1. evals' = [evals EXCEPT ![i] = @ + 1] /\ errors' = errors
    BY <1>4, Zenon DEF Count
  <2>2. SumFunction(evals') = SumFunction(evals) + 1
    BY <1>1, <1>2, <2>1, SumFunctionIncrement, Zenon
  <2> QED
    BY <1>3, <2>1, <2>2
<1>5. CASE ~r
  <2>1. errors' = [errors EXCEPT ![i] = @ + 1] /\ evals' = evals
    BY <1>5, Zenon DEF Count
  <2>2. SumFunction(errors') = SumFunction(errors) + 1
    BY <1>1, <1>2, <2>1, SumFunctionIncrement, Zenon
  <2> QED
    BY <1>3, <2>1, <2>2
<1> QED
  BY <1>4, <1>5

\* What a worker that goes on counts: at its instance, in total_evaluations_,
\* or nothing.
LEMMA GoerCounts ==
  ASSUME TypeOK, NEW i \in Inst, WorkerGoes(i)
  PROVE  \/ UNCHANGED counters /\ Totalling' = Totalling
         \/ /\ Count(i, ok[i]) /\ UNCHANGED total
            /\ i \notin Totalling /\ Totalling' = Totalling \cup {i}
         \/ /\ UNCHANGED <<evals, errors>> /\ total' = total + 1
            /\ i \in Totalling /\ Totalling' = Totalling \ {i}
<1>1. \/ /\ UNCHANGED counters
         /\ worker[i] # "total"
         /\ \E p \in {"ended", "call", "wait", "count"} : Goes(i, p)
      \/ WorkerCounts(i) \/ WorkerTotals(i)
  BY DEF WorkerGoes, WorkerStops, WorkerBegins, WorkerCalls, WorkerRefused, WorkerReturns, Worker
<1>2. CASE /\ UNCHANGED counters
           /\ worker[i] # "total"
           /\ \E p \in {"ended", "call", "wait", "count"} : Goes(i, p)
  BY <1>2 DEF Goes, Totalling, TypeOK
<1>3. CASE WorkerCounts(i)
  <2>1. Count(i, ok[i]) /\ UNCHANGED total /\ worker[i] = "count" /\ Goes(i, "total")
    BY <1>3 DEF WorkerCounts, Worker
  <2>2. i \notin Totalling /\ Totalling' = Totalling \cup {i}
    BY <2>1 DEF Goes, Totalling, TypeOK
  <2> QED
    BY <2>1, <2>2
<1>4. CASE WorkerTotals(i)
  <2>1. UNCHANGED <<evals, errors>> /\ total' = total + 1 /\ worker[i] = "total" /\ Goes(i, "check")
    BY <1>4 DEF WorkerTotals, Worker
  <2>2. i \in Totalling /\ Totalling' = Totalling \ {i}
    BY <2>1 DEF Goes, Totalling, TypeOK
  <2> QED
    BY <2>1, <2>2
<1> QED
  BY <1>1, <1>2, <1>3, <1>4

\* Every step keeps the counters in agreement.
LEMMA CountsNext ==
  ASSUME TypeOK, MainPlaces, Unlaunched, CountsAgree, Next
  PROVE  CountsAgree'
<1>1. SumFunction(evals) + SumFunction(errors) = total + Cardinality(Totalling)
  BY DEF CountsAgree, Totalling
<1>2. SUFFICES SumFunction(evals') + SumFunction(errors') = total' + Cardinality(Totalling')
  BY DEF CountsAgree, Totalling
<1>3. total \in Nat /\ Totalling \in SUBSET Inst
  BY DEF TypeOK, Totalling
<1>4. IsFiniteSet(Totalling) /\ Cardinality(Totalling) \in Nat
  BY <1>3, Finite, PipelineAssumption
<1>5. CASE UNCHANGED <<evals, errors, total>> /\ Totalling' = Totalling
  BY <1>1, <1>5
<1>6. ASSUME NEW i \in Inst, WorkerGoes(i)
      PROVE  SumFunction(evals') + SumFunction(errors') = total' + Cardinality(Totalling')
  <2>1. ok[i] \in BOOLEAN
    BY DEF TypeOK
  <2>2. CASE Count(i, ok[i]) /\ UNCHANGED total /\ i \notin Totalling /\ Totalling' = Totalling \cup {i}
    <3>1. Cardinality(Totalling') = Cardinality(Totalling) + 1
      BY <1>4, <2>2, FS_AddElement
    <3> QED
      BY <1>1, <1>3, <1>4, <2>1, <2>2, <3>1, CountAddsOne
  <2>3. CASE /\ UNCHANGED <<evals, errors>> /\ total' = total + 1
             /\ i \in Totalling /\ Totalling' = Totalling \ {i}
    <3>1. Cardinality(Totalling') = Cardinality(Totalling) - 1
      BY <1>4, <2>3, FS_RemoveElement
    <3> QED
      BY <1>1, <1>3, <1>4, <2>3, <3>1
  <2> QED
    BY <1>5, <1>6, <2>2, <2>3, GoerCounts DEF counters
<1>7. CASE \A i \in Inst : ~WorkerGoes(i)
  <2>1. CASE LaunchWorker /\ UNCHANGED counters
    <3>1. cursor \in Inst \ Working /\ worker' = [worker EXCEPT ![cursor] = "check"]
      BY <2>1, LaunchOne
    <3>2. Totalling' = Totalling
      BY <3>1 DEF Totalling, Working, TypeOK
    <3> QED
      BY <1>5, <2>1, <3>2 DEF counters
  <2>2. CASE UNCHANGED worker /\ step # "pick" /\ total' = total + 1
             /\ \E r \in BOOLEAN : Count(target, r)
    <3>1. target \in Inst /\ Totalling' = Totalling
      BY <2>2 DEF MainPlaces, TypeOK, Totalling
    <3>2. PICK r \in BOOLEAN : Count(target, r)
      BY <2>2
    <3>3. SumFunction(evals') + SumFunction(errors') = SumFunction(evals) + SumFunction(errors) + 1
      BY <3>1, <3>2, CountAddsOne
    <3> QED
      BY <1>1, <1>3, <1>4, <2>2, <3>1, <3>3
  <2>3. CASE UNCHANGED <<worker, counters>>
    BY <1>5, <2>3 DEF counters, Totalling
  <2> QED
    BY <1>7, <2>1, <2>2, <2>3, MainCounts
<1> QED
  BY <1>6, <1>7

-----------------------------------------------------------------------------
(* The invariant *)

\* The pipeline starts with an empty pool and with no worker.
LEMMA InitInv ==
  ASSUME Init
  PROVE  IndInv
<1> USE PipelineAssumption DEF Init
<1>1. TypeOK
  <2>1. TypePlace /\ TypePool /\ TypeReport
    BY DEF TypePlace, TypePool, TypeReport, Phases, Steps
  <2>2. TypeWorkers /\ TypeCounts
    BY DEF TypeWorkers, TypeCounts, Places
  <2>3. TypeCall /\ TypeOks /\ TypeEnds
    BY Zenon DEF TypeCall, TypeOks, TypeEnds
  <2> QED
    BY <2>1, <2>2, <2>3, Groups DEF TypeGroups
<1>2. MainPlaces /\ Answered /\ Unlaunched
  BY DEF MainPlaces, Answered, Unlaunched
<1>3. Capped
  <2>1. Cardinality(attached) = 0
    BY FS_EmptySet
  <2> QED
    BY <2>1 DEF Capped
<1>4. WorkersConfined
  BY DEF WorkersConfined, Working
<1>5. CountsAgree
  <2>1. IsFiniteSet(Inst)
    BY Finite
  <2>2. SumFunction(evals) = 0 /\ SumFunction(errors) = 0
    BY <2>1, SumFunctionZero, Zenon
  <2>3. {i \in Inst : worker[i] = "total"} = {} /\ total = 0
    OBVIOUS
  <2>4. Cardinality({i \in Inst : worker[i] = "total"}) = 0
    BY <2>3, FS_EmptySet
  <2> QED
    BY <2>2, <2>3, <2>4 DEF CountsAgree
<1> QED
  BY <1>1, <1>2, <1>3, <1>4, <1>5 DEF IndInv

\* The invariant holds in every state.
THEOREM Invariance == Spec => []IndInv
<1>1. Init => IndInv
  BY InitInv
<1>2. IndInv /\ [Next]_vars => IndInv'
  <2> SUFFICES ASSUME IndInv, [Next]_vars PROVE IndInv'
    OBVIOUS
  <2>1. CASE Next
    BY <2>1, TypeNext, MainPlacesNext, CappedNext, AnsweredNext, UnlaunchedNext,
       WorkersConfinedNext, CountsNext DEF IndInv
  <2>2. CASE UNCHANGED vars
    <3>1. UNCHANGED <<phase, cursor, step, target, calling, anyOk, attached, running, spawned, worker,
                      follow, ok, stop, evals, errors, total, snaps, report, killed>>
      BY <2>2 DEF vars, mainVars, poolVars, workerVars, counters
    <3>2. TypeGroups'
      BY <3>1, Kept DEF TypeGroups, IndInv
    <3>3. TypeOK'
      BY <3>2, Groups, PTL
    <3>4. (MainPlaces /\ Capped /\ Answered /\ Unlaunched /\ WorkersConfined /\ CountsAgree)'
      BY <3>1 DEF IndInv, MainPlaces, Capped, Answered, Unlaunched, WorkersConfined, CountsAgree,
                  Working
    <3> QED
      BY <3>3, <3>4 DEF IndInv
  <2> QED
    BY <2>1, <2>2
<1> QED
  BY <1>1, <1>2, PTL DEF Spec

\* The variables have their types, and no process runs without a client that
\* knows of it.
THEOREM TypeCorrect == Spec => []TypeOK
<1>1. IndInv => TypeOK
  BY DEF IndInv
<1> QED
  BY <1>1, Invariance, PTL

\* The counters of the instances and total_evaluations_ differ by the workers
\* in between, for every number of workers and every interleaving of them.
THEOREM CountersAgree == Spec => []CountsAgree
<1>1. IndInv => CountsAgree
  BY DEF IndInv
<1> QED
  BY <1>1, Invariance, PTL

\* Outside phase 3 there is no worker, and the report has the final number.
THEOREM WorkersStayConfined == Spec => []WorkersConfined
<1>1. IndInv => WorkersConfined
  BY DEF IndInv
<1> QED
  BY <1>1, Invariance, PTL

\* No more processes run than MAX_CONCURRENT.
THEOREM ProcessesBounded == Spec => []ProcessBound
<1>1. IndInv => ProcessBound
  <2> SUFFICES ASSUME IndInv PROVE ProcessBound
    OBVIOUS
  <2>1. attached \in SUBSET Inst /\ running \in SUBSET Inst /\ running \subseteq attached
    BY DEF IndInv, TypeOK
  <2>2. IsFiniteSet(attached) /\ Cardinality(attached) \in Nat /\ Cardinality(running) \in Nat
    BY <2>1, Finite, PipelineAssumption
  <2>3. Cardinality(running) <= Cardinality(attached)
    BY <2>1, <2>2, FS_Subset
  <2> QED
    BY <2>2, <2>3, PipelineAssumption DEF IndInv, Capped, ProcessBound
<1> QED
  BY <1>1, Invariance, PTL

\* An instance that never had a REPL has no successes.
THEOREM SuccessesNeedRepl == Spec => []SuccessNeedsRepl
<1>1. IndInv => SuccessNeedsRepl
  BY DEF IndInv, Answered, SuccessNeedsRepl
<1> QED
  BY <1>1, Invariance, PTL
=============================================================================
