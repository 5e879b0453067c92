------------------------------ MODULE Pipeline ------------------------------
(***************************************************************************)
(* Orchestrator::run (src/orchestrator.cpp): the phases of the pipeline,   *)
(* the worker threads of phase 3, and the REPL processes of the pool.      *)
(*                                                                         *)
(* A call of PantographClient is two steps here, the write of the command  *)
(* and the return; what happens inside is the subject of PantographBridge. *)
(* The REPL may take any time for it, may die at any time ("crash") and,   *)
(* where no fairness is assumed for it, may never answer.                  *)
(*                                                                         *)
(* An instance is its position in pool_.  Its directories, the evidence    *)
(* files and the checks of the validation are the subject of WorkRoot.     *)
(***************************************************************************)
EXTENDS Integers, FiniteSets, Functions

CONSTANTS
  N,          \* number of instances in pool_
  Cap,        \* MAX_CONCURRENT as far as memory allows
  Samples,    \* files that each of phases 1 and 2 takes from the corpus
  MaxTotal,   \* bound: no worker begins an evaluation beyond it
  Faults      \* what may go wrong, a subset of FaultKind

FaultKind == {"nofork",     \* start() returns FALSE: no pipe, no process
              "bootcrash",  \* start() does not return (see PantographBridge)
              "crash"}      \* a REPL dies

ASSUME PipelineAssumption ==
  /\ N \in Nat /\ Cap \in Nat /\ Samples \in Nat
  /\ MaxTotal \in Nat
  /\ Faults \subseteq FaultKind

Inst == 1..N

VARIABLES
  phase,     \* where the main thread is
  cursor,    \* index of its loop over pool_, or over the samples
  step,      \* its place in the treatment of one sample
  target,    \* the instance it uses for the sample
  calling,   \* whether it is inside call()
  anyOk,     \* whether a call for the sample succeeded
  attached,  \* the instances that are alive(): pid_ > 0
  running,   \* the instances whose REPL process runs
  spawned,   \* number of successful spawn()s
  worker,    \* place of the worker thread on each instance
  follow,    \* calls of the iteration of a worker that are still to come
  ok,        \* r.ok of the iteration of a worker
  stop,      \* stop_flag
  evals,     \* n_evaluations of each instance
  errors,    \* n_errors of each instance
  total,     \* total_evaluations_
  snaps,     \* the instances that have been snapshotted
  report,    \* the numbers written by run_validation_and_emit
  killed     \* whether SIGPIPE has ended the orchestrator

mainVars   == <<phase, cursor, step, target, calling, anyOk>>
poolVars   == <<attached, running, spawned>>
workerVars == <<worker, follow, ok>>
counters   == <<evals, errors, total>>
vars == <<mainVars, poolVars, workerVars, stop, counters, snaps, report, killed>>

Phases == {"spawn", "stuck", "sample", "generate", "launch", "evaluate", "join",
           "snapshot", "fork", "validate", "shutdown", "done"}
Steps  == {"pick", "full", "body", "src", "goal", "tactic", "delete", "add", "kernel", "describe"}
Places == {"none", "check", "call", "wait", "count", "total", "ended"}

\* The worker is between its creation and its end.
Working == {i \in Inst : worker[i] \notin {"none", "ended"}}

\* The types of the variables.  A process that runs has a client that knows
\* of it, also while clients are shut down.
TypeOK ==
  /\ phase \in Phases
  /\ cursor \in Nat
  /\ step \in Steps
  /\ target \in 0..N
  /\ calling \in BOOLEAN /\ anyOk \in BOOLEAN
  /\ attached \subseteq Inst /\ running \subseteq attached
  /\ spawned \in 0..N
  /\ worker \in [Inst -> Places]
  /\ follow \in [Inst -> 0..2]
  /\ ok \in [Inst -> BOOLEAN]
  /\ stop \in BOOLEAN
  /\ evals \in [Inst -> Nat] /\ errors \in [Inst -> Nat] /\ total \in Nat
  /\ snaps \subseteq Inst
  /\ report \in [active : 0..N, evaluations : Nat]
  /\ killed \in BOOLEAN

Init ==
  /\ phase = "spawn" /\ cursor = 1
  /\ step = "pick" /\ target = 0 /\ calling = FALSE /\ anyOk = FALSE
  /\ attached = {} /\ running = {} /\ spawned = 0
  /\ worker = [i \in Inst |-> "none"]
  /\ follow = [i \in Inst |-> 0]
  /\ ok = [i \in Inst |-> FALSE]
  /\ stop = FALSE
  /\ evals = [i \in Inst |-> 0] /\ errors = [i \in Inst |-> 0] /\ total = 0
  /\ snaps = {}
  /\ report = [active |-> 0, evaluations |-> 0]
  /\ killed = FALSE

At(p) == ~killed /\ phase = p

\* The main thread goes on to phase p.
Enter(p) ==
  /\ phase' = p /\ cursor' = 1 /\ step' = "pick"
  /\ target' = 0 /\ calling' = FALSE /\ anyOk' = FALSE

\* The first instance of pool_ that is alive().
FirstAlive(i) == i \in attached /\ \A j \in attached : i <= j

-----------------------------------------------------------------------------
(* Start-up *)

\* The cap looked at one process too late.
SpawningPastCap == /\ At("spawn")
                   /\ cursor <= N /\ spawned <= Cap

\* The next instance is due for spawn().
Spawning == /\ At("spawn")
            /\ cursor <= N /\ spawned < Cap

SpawnOk ==
  /\ Spawning
  /\ attached' = attached \cup {cursor} /\ running' = running \cup {cursor}
  /\ spawned' = spawned + 1
  /\ cursor' = cursor + 1
  /\ UNCHANGED <<phase, step, target, calling, anyOk, workerVars, stop, counters,
                 snaps, report, killed>>

\* The instance is left without a REPL and does not count.
SpawnRefused ==
  /\ Spawning /\ "nofork" \in Faults
  /\ cursor' = cursor + 1
  /\ UNCHANGED <<phase, step, target, calling, anyOk, poolVars, workerVars, stop,
                 counters, snaps, report, killed>>

\* No first line: start() waits for its own mutex.
SpawnStuck ==
  /\ Spawning /\ "bootcrash" \in Faults
  /\ phase' = "stuck"
  /\ attached' = attached \cup {cursor}
  /\ running' \in {running, running \cup {cursor}}
  /\ UNCHANGED <<cursor, step, target, calling, anyOk, spawned, workerVars,
                 stop, counters, snaps, report, killed>>

SpawnsDone ==
  /\ At("spawn")
  /\ cursor > N \/ spawned >= Cap
  /\ Enter("sample")
  /\ UNCHANGED <<poolVars, workerVars, stop, counters, snaps, report, killed>>

-----------------------------------------------------------------------------
(* The calls of the main thread *)

MainCalls ==
  /\ ~killed /\ step # "pick" /\ ~calling /\ target \in running
  /\ calling' = TRUE
  /\ UNCHANGED <<phase, cursor, step, target, anyOk, poolVars, workerVars, stop,
                 counters, snaps, report, killed>>

\* The process is gone but the client does not know: SIGPIPE.
MainSigpipe ==
  /\ ~killed /\ step # "pick" /\ ~calling /\ target \notin running
  /\ killed' = TRUE
  /\ UNCHANGED <<mainVars, poolVars, workerVars, stop, counters, snaps, report>>

-----------------------------------------------------------------------------
(* Phases 1 and 2: each sample (in phase 2: each generated test) goes to   *)
(* the first instance that is alive.                                       *)

Sampling == ~killed /\ phase \in {"sample", "generate"}

PickTarget ==
  /\ Sampling /\ step = "pick"
  /\ cursor <= Samples
  /\ \E i \in Inst : FirstAlive(i) /\ target' = i
  /\ step' = IF phase = "sample" THEN "full" ELSE "add"
  /\ anyOk' = FALSE
  /\ UNCHANGED <<phase, cursor, calling, poolVars, workerVars, stop, counters,
                 snaps, report, killed>>

\* The call that follows on each, when one does.
NextStep == [full |-> "body", body |-> "src", src |-> "goal",
             goal |-> "tactic", tactic |-> "delete", add |-> "kernel"]

\* After a call that returns r there is another one for the sample, or there
\* is not: a goal_start that succeeded may have returned no stateId.
GoesOn(r) == \/ step \in {"full", "body", "src", "tactic"}
             \/ step = "goal" /\ r
             \/ step = "add" /\ ~r

MayBeLast(r) == \/ step \in {"goal", "delete", "kernel"}
                \/ step = "add" /\ r

\* What the sample counts as: goal_tactic and goal_delete do not matter.
Success(r) == anyOk \/ (r /\ step \notin {"tactic", "delete"})

\* The sample is counted once, whatever became of it.
Count(i, r) ==
  /\ evals' = IF r THEN [evals EXCEPT ![i] = @ + 1] ELSE evals
  /\ errors' = IF r THEN errors ELSE [errors EXCEPT ![i] = @ + 1]

SampleReturns(r) ==
  /\ Sampling /\ calling
  /\ calling' = FALSE
  /\ anyOk' = Success(r)
  /\ \/ /\ MayBeLast(r)
        /\ step' = "pick" /\ cursor' = cursor + 1
        /\ Count(target, Success(r)) /\ total' = total + 1
     \/ /\ GoesOn(r)
        /\ step' = NextStep[step]
        /\ UNCHANGED <<cursor, counters>>
  /\ UNCHANGED <<phase, target, poolVars, workerVars, stop, snaps, report, killed>>

SamplesDone ==
  /\ Sampling /\ step = "pick"
  /\ cursor > Samples \/ attached = {}
  /\ Enter(IF phase = "sample" THEN "generate" ELSE "launch")
  /\ UNCHANGED <<poolVars, workerVars, stop, counters, snaps, report, killed>>

-----------------------------------------------------------------------------
(* Phase 3 *)

\* The workers get the first instances of pool_, as many as were spawned.
LaunchWorker ==
  /\ At("launch") /\ cursor <= spawned
  /\ worker' = [worker EXCEPT ![cursor] = "check"]
  /\ cursor' = cursor + 1
  /\ UNCHANGED <<phase, step, target, calling, anyOk, poolVars, follow, ok, stop,
                 counters, snaps, report, killed>>

Launched ==
  /\ At("launch") /\ cursor > spawned
  /\ Enter("evaluate")
  /\ UNCHANGED <<poolVars, workerVars, stop, counters, snaps, report, killed>>

\* The workers are left to find out by themselves.
StopForgotten ==
  /\ At("evaluate")
  /\ Enter("join")
  /\ UNCHANGED <<poolVars, workerVars, stop, counters, snaps, report, killed>>

\* The budget is met or the deadline has passed, which it may at any time.
StopWorkers ==
  /\ At("evaluate")
  /\ Enter("join")
  /\ stop' = TRUE
  /\ UNCHANGED <<poolVars, workerVars, counters, snaps, report, killed>>

\* The threads are detached instead of joined.
JoinNobody ==
  /\ At("join")
  /\ Enter("snapshot")
  /\ UNCHANGED <<poolVars, workerVars, stop, counters, snaps, report, killed>>

Joined ==
  /\ At("join") /\ Working = {}
  /\ Enter("snapshot")
  /\ UNCHANGED <<poolVars, workerVars, stop, counters, snaps, report, killed>>

Worker(i, p) == ~killed /\ worker[i] = p

Goes(i, p) == worker' = [worker EXCEPT ![i] = p]

WorkerStops(i) ==
  /\ Worker(i, "check") /\ stop
  /\ Goes(i, "ended")
  /\ UNCHANGED <<mainVars, poolVars, follow, ok, stop, counters, snaps, report, killed>>

WorkerBegins(i) ==
  /\ Worker(i, "check") /\ ~stop
  /\ total < MaxTotal
  /\ Goes(i, "call") /\ follow' = [follow EXCEPT ![i] = 0]
  /\ UNCHANGED <<mainVars, poolVars, ok, stop, counters, snaps, report, killed>>

WorkerCalls(i) ==
  /\ Worker(i, "call") /\ i \in running
  /\ Goes(i, "wait")
  /\ UNCHANGED <<mainVars, poolVars, follow, ok, stop, counters, snaps, report, killed>>

\* A refused call that passes for a success.
WorkerRefusedOk(i) ==
  /\ Worker(i, "call") /\ i \notin attached
  /\ Goes(i, "count") /\ ok' = [ok EXCEPT ![i] = TRUE]
  /\ UNCHANGED <<mainVars, poolVars, follow, stop, counters, snaps, report, killed>>

\* "process not running": no less of an evaluation than any other.
WorkerRefused(i) ==
  /\ Worker(i, "call") /\ i \notin attached
  /\ Goes(i, "count") /\ ok' = [ok EXCEPT ![i] = FALSE]
  /\ UNCHANGED <<mainVars, poolVars, follow, stop, counters, snaps, report, killed>>

WorkerSigpipe(i) ==
  /\ Worker(i, "call") /\ i \in attached \ running
  /\ killed' = TRUE
  /\ UNCHANGED <<mainVars, poolVars, workerVars, stop, counters, snaps, report>>

\* The first call of an iteration decides ok; after a goal_start that
\* succeeded there are two more.
WorkerReturns(i, r) ==
  /\ Worker(i, "wait")
  /\ \/ /\ follow[i] = 0
        /\ ok' = [ok EXCEPT ![i] = r]
        /\ \/ Goes(i, "count") /\ UNCHANGED follow
           \/ r /\ Goes(i, "call") /\ follow' = [follow EXCEPT ![i] = 2]
     \/ /\ follow[i] > 0
        /\ follow' = [follow EXCEPT ![i] = @ - 1]
        /\ Goes(i, IF follow[i] = 1 THEN "count" ELSE "call")
        /\ UNCHANGED ok
  /\ UNCHANGED <<mainVars, poolVars, stop, counters, snaps, report, killed>>

\* Errors that are not counted at the instance.
WorkerCountsSuccesses(i) ==
  /\ Worker(i, "count")
  /\ Goes(i, "total")
  /\ evals' = IF ok[i] THEN [evals EXCEPT ![i] = @ + 1] ELSE evals
  /\ UNCHANGED <<mainVars, poolVars, follow, ok, stop, errors, total, snaps, report, killed>>

WorkerCounts(i) ==
  /\ Worker(i, "count")
  /\ Goes(i, "total")
  /\ Count(i, ok[i])
  /\ UNCHANGED <<mainVars, poolVars, follow, ok, stop, total, snaps, report, killed>>

WorkerTotals(i) ==
  /\ Worker(i, "total")
  /\ Goes(i, "check")
  /\ total' = total + 1
  /\ UNCHANGED <<mainVars, poolVars, follow, ok, stop, evals, errors, snaps, report, killed>>

-----------------------------------------------------------------------------
(* Phases 4 and 5, validation, shutdown *)

SnapshotsTaken == cursor > N \/ Cardinality(snaps) >= 3

\* snapshot() of an instance that is alive asks its REPL env.describe.
SnapshotBegins ==
  /\ At("snapshot") /\ step = "pick" /\ ~SnapshotsTaken
  /\ cursor \in attached
  /\ target' = cursor /\ step' = "describe"
  /\ UNCHANGED <<phase, cursor, calling, anyOk, poolVars, workerVars, stop, counters,
                 snaps, report, killed>>

SnapshotSkips ==
  /\ At("snapshot") /\ step = "pick" /\ ~SnapshotsTaken
  /\ cursor \notin attached
  /\ cursor' = cursor + 1
  /\ UNCHANGED <<phase, step, target, calling, anyOk, poolVars, workerVars, stop,
                 counters, snaps, report, killed>>

\* The snapshot counts whether env.describe succeeded or not.
SnapshotReturns ==
  /\ At("snapshot") /\ calling
  /\ calling' = FALSE /\ step' = "pick"
  /\ snaps' = snaps \cup {cursor} /\ cursor' = cursor + 1
  /\ UNCHANGED <<phase, target, anyOk, poolVars, workerVars, stop, counters, report, killed>>

SnapshotsDone ==
  /\ At("snapshot") /\ step = "pick" /\ SnapshotsTaken
  /\ Enter("fork")
  /\ UNCHANGED <<poolVars, workerVars, stop, counters, snaps, report, killed>>

\* Forks make directories only: no REPL, no new member of pool_.
Forks ==
  /\ At("fork")
  /\ Enter("validate")
  /\ UNCHANGED <<poolVars, workerVars, stop, counters, snaps, report, killed>>

Validates ==
  /\ At("validate")
  /\ Enter("shutdown")
  /\ report' = [active |-> Cardinality(attached), evaluations |-> total]
  /\ UNCHANGED <<poolVars, workerVars, stop, counters, snaps, killed>>

\* A shutdown() that closes the pipes and kills nothing.
ShutdownDetaches ==
  /\ At("shutdown") /\ cursor <= N
  /\ cursor \in attached => cursor \in running
  /\ attached' = attached \ {cursor} /\ running' = running
  /\ cursor' = cursor + 1
  /\ UNCHANGED <<phase, step, target, calling, anyOk, spawned, workerVars, stop,
                 counters, snaps, report, killed>>

\* shutdown() of the next instance; of one that was never spawned it does
\* nothing.
ShutdownNext ==
  /\ At("shutdown") /\ cursor <= N
  /\ cursor \in attached => cursor \in running
  /\ attached' = attached \ {cursor} /\ running' = running \ {cursor}
  /\ cursor' = cursor + 1
  /\ UNCHANGED <<phase, step, target, calling, anyOk, spawned, workerVars, stop,
                 counters, snaps, report, killed>>

ShutdownSigpipe ==
  /\ At("shutdown") /\ cursor \in attached \ running
  /\ killed' = TRUE
  /\ UNCHANGED <<mainVars, poolVars, workerVars, stop, counters, snaps, report>>

Exits ==
  /\ At("shutdown") /\ cursor > N
  /\ Enter("done")
  /\ UNCHANGED <<poolVars, workerVars, stop, counters, snaps, report, killed>>

-----------------------------------------------------------------------------
(* The REPL processes *)

ReplEnds(i) ==
  /\ running' = running \ {i}
  /\ UNCHANGED <<mainVars, attached, spawned, workerVars, stop, counters, snaps,
                 report, killed>>

ReplDies(i) == i \in running /\ "crash" \in Faults /\ ReplEnds(i)

Exited == killed \/ phase = "done"

\* A child that keeps the write end of its own stdin.
ReplHoldsItsStdin(i) == /\ i \in running /\ Exited
                        /\ \A j \in running : j < i
                        /\ ReplEnds(i)

\* A REPL ends at the end of its stdin.  The pipes are not closed on exec:
\* the write end is held by the orchestrator and by every REPL that was
\* spawned later.
ReplSeesEof(i) == /\ i \in running /\ Exited
                  /\ \A j \in running : j <= i
                  /\ ReplEnds(i)

-----------------------------------------------------------------------------

\* Steps of the main thread, but for returns of call().
MainStep ==
  \/ SpawnOk \/ SpawnRefused \/ SpawnsDone
  \/ MainCalls \/ MainSigpipe
  \/ PickTarget \/ SamplesDone
  \/ LaunchWorker \/ Launched \/ StopWorkers \/ Joined
  \/ SnapshotBegins \/ SnapshotSkips \/ SnapshotsDone
  \/ Forks \/ Validates
  \/ ShutdownNext \/ ShutdownSigpipe \/ Exits

MainReturn == (\E r \in BOOLEAN : SampleReturns(r)) \/ SnapshotReturns

\* Steps of the worker on i, but for returns of call().
WorkerStep(i) ==
  \/ WorkerStops(i) \/ WorkerBegins(i)
  \/ WorkerCalls(i) \/ WorkerRefused(i) \/ WorkerSigpipe(i)
  \/ WorkerCounts(i) \/ WorkerTotals(i)

WorkerReturn(i) == \E r \in BOOLEAN : WorkerReturns(i, r)

Next ==
  \/ MainStep \/ MainReturn
  \/ SpawnStuck
  \/ \E i \in Inst : WorkerStep(i) \/ WorkerReturn(i) \/ ReplDies(i) \/ ReplSeesEof(i)

Spec == Init /\ [][Next]_vars

\* The threads run, time passes, and a call to a REPL that is dead returns.
ThreadFairness ==
  /\ WF_vars(MainStep)
  /\ WF_vars(target \notin running /\ MainReturn)
  /\ \A i \in Inst : /\ WF_vars(WorkerStep(i))
                    /\ WF_vars(i \notin running /\ WorkerReturn(i))

\* In addition a REPL answers, and ends when its stdin does.
ReplFairness ==
  /\ WF_vars(MainReturn)
  /\ \A i \in Inst : WF_vars(WorkerReturn(i)) /\ WF_vars(ReplSeesEof(i))

ThreadFairSpec == Spec /\ ThreadFairness
FairSpec       == Spec /\ ThreadFairness /\ ReplFairness

-----------------------------------------------------------------------------
(* Properties *)

\* A worker counts at its instance first and in total_evaluations_ next:
\* the two differ by the workers in between, and by nothing else.
CountsAgree ==
  SumFunction(evals) + SumFunction(errors)
    = total + Cardinality({i \in Inst : worker[i] = "total"})

\* Outside phase 3 there is no worker, so that the main thread, which calls
\* in the other phases, never meets one in a client, and the numbers of the
\* report are final.
WorkersConfined ==
  /\ phase \notin {"launch", "evaluate", "join"} => Working = {}
  /\ phase \in {"shutdown", "done"} => report.evaluations = total

\* No more processes than MAX_CONCURRENT.
ProcessBound == Cardinality(running) <= Cap

\* An instance that never had a REPL has no successes: what its worker counts
\* are errors, all of them.
SuccessNeedsRepl ==
  \A i \in Inst : evals[i] > 0 => i \in attached \/ phase \in {"shutdown", "done"}

\* The pipeline comes to its end, unless SIGPIPE ends it before or a start()
\* hangs.
Ends == <>(phase \in {"done", "stuck"} \/ killed)

\* However it ends, all the processes it has spawned end too.
NoOrphans == <>[](running = {} \/ phase = "stuck")

\* Once the time for phase 3 is over the workers end.
BudgetHonoured == phase = "join" ~> (phase # "join" \/ killed)
=============================================================================
