------------------------------ MODULE WorkRoot ------------------------------
(***************************************************************************)
(* The files under work_root, and the sessions (runs of the orchestrator)  *)
(* that make them: instance directories, snapshots, forks, evidence, and   *)
(* the checks of the ValidationFramework that read them back.              *)
(*                                                                         *)
(* Sessions follow one another or overlap: the targets that pipeline_full  *)
(* depends on (CMakeLists.txt) all use the one work_root, with pools of    *)
(* different sizes.  A session may be killed between any two steps; what   *)
(* it has written stays.                                                   *)
(*                                                                         *)
(* An instance directory is its number.  Its five subdirectories are made  *)
(* after it and looked for together, so it is made in two steps here: the  *)
(* root, and the rest.  Which of its instances a session samples with,     *)
(* snapshots or forks from leaves no trace in these files: a session knows *)
(* how many of them are alive.                                             *)
(***************************************************************************)
EXTENDS Integers, FiniteSets, FiniteSetsExt

CONSTANTS
  Session,     \* the runs of the orchestrator
  MaxId,       \* bound on the numbers of instance directories
  PoolSizes,   \* the values of --instances
  Faults       \* what may happen, a subset of FaultKind

FaultKind == {"kill",      \* a session is killed
              "overlap"}   \* a session starts while another one runs

ASSUME WorkRootAssumption ==
  /\ MaxId \in Nat
  /\ PoolSizes \subseteq 1..MaxId
  /\ Faults \subseteq FaultKind

Id == 0..MaxId

VARIABLES
  root,       \* the instance directories that exist
  whole,      \* those that have their five subdirectories
  halfSnaps,  \* the snapshots without snapshot.json: a session, and which of its three
  evidence,   \* the subdirectories of evidence that are not empty
  pc,         \* place of each session
  pool,       \* number of instances in its pool_
  cursor,     \* the instance that prepare() has come to
  alive,      \* number of instances that are alive()
  todo,       \* number of those that the loop of phase 4 or 5 has yet to visit
  taken,      \* snap_ok of phase 4
  next,       \* next_id of phase 5
  forked,     \* the directories it has forked into
  overlapped, \* history: whether two sessions have run at a time
  passed,     \* the checks that its validation has passed
  listed,     \* the directories that check_isolation has found so far
  listedHalf  \* the half snapshots that check_snapshots has found so far

files   == <<root, whole, halfSnaps, evidence>>
loops   == <<cursor, alive, todo, taken, next, forked>>
lists   == <<listed, listedHalf>>
session == <<pc, pool, loops, overlapped, passed, lists>>
vars    == <<files, session>>

Evidence == {"test_sampling", "ffi_generated", "validation"}

\* instance_count, isolation_integrity, evidence_present,
\* snapshots_consistent, random_lean_file_executed, ffi_generation_valid
Check == {"count", "isolation", "evidence", "snapshots", "random", "ffi"}

Places == Check \cup {"idle", "prepare", "subdirs", "spawn", "sample", "generate",
                      "snapshot", "snapfile", "scan", "fork", "forkroot", "forkrest",
                      "dirs", "snapdirs", "ended", "killed"}

Snapshot == Session \X (0..2)

\* The types of the variables.  Subdirectories are in a directory that is
\* there, no more than three snapshots are taken, and no loop runs past the
\* end of the pool.
TypeOK ==
  /\ root \subseteq Id /\ whole \subseteq root
  /\ halfSnaps \subseteq Snapshot
  /\ evidence \subseteq Evidence
  /\ pc \in [Session -> Places]
  /\ pool \in [Session -> 0..MaxId] /\ cursor \in [Session -> Id]
  /\ alive \in [Session -> 0..MaxId] /\ todo \in [Session -> 0..MaxId]
  /\ taken \in [Session -> 0..3]
  /\ next \in [Session -> Id] /\ forked \in [Session -> SUBSET Id]
  /\ overlapped \in BOOLEAN
  /\ passed \in [Session -> SUBSET Check]
  /\ listed \in [Session -> SUBSET Id] /\ listedHalf \in [Session -> SUBSET Snapshot]

Init ==
  /\ root = {} /\ whole = {} /\ halfSnaps = {} /\ evidence = {}
  /\ pc = [s \in Session |-> "idle"]
  /\ pool = [s \in Session |-> 0] /\ cursor = [s \in Session |-> 0]
  /\ alive = [s \in Session |-> 0] /\ todo = [s \in Session |-> 0]
  /\ taken = [s \in Session |-> 0]
  /\ next = [s \in Session |-> 0] /\ forked = [s \in Session |-> {}]
  /\ overlapped = FALSE
  /\ passed = [s \in Session |-> {}]
  /\ listed = [s \in Session |-> {}] /\ listedHalf = [s \in Session |-> {}]

Active(s) == pc[s] \notin {"idle", "ended", "killed"}

Goes(s, p) == pc' = [pc EXCEPT ![s] = p]

\* A directory that has all that an instance directory should have.
DirIsWhole(i) == i \in whole

DirExists(i) == i \in root

\* The loop that s is in is through with the instance it was at.
Visited(s) == todo' = [todo EXCEPT ![s] = @ - 1]

-----------------------------------------------------------------------------
(* Start-up *)

Starts(s) ==
  /\ pc[s] = "idle"
  /\ overlapped' = (overlapped \/ \E t \in Session : Active(t))
  /\ overlapped' => "overlap" \in Faults
  /\ Goes(s, "prepare")
  /\ \E n \in PoolSizes : pool' = [pool EXCEPT ![s] = n]
  /\ UNCHANGED <<files, loops, passed, lists>>

Preparing(s) == pc[s] = "prepare" /\ cursor[s] < pool[s]

\* An instance whose directory is there is taken to be prepared.
PrepareRootOnce(s) ==
  /\ Preparing(s)
  /\ root' = root \cup {cursor[s]}
  /\ IF cursor[s] \in root
     THEN cursor' = [cursor EXCEPT ![s] = @ + 1] /\ UNCHANGED pc
     ELSE Goes(s, "subdirs") /\ UNCHANGED cursor
  /\ UNCHANGED <<whole, halfSnaps, evidence, pool, alive, todo, taken, next, forked,
                 overlapped, passed, lists>>

PrepareRoot(s) ==
  /\ Preparing(s)
  /\ root' = root \cup {cursor[s]}
  /\ Goes(s, "subdirs")
  /\ UNCHANGED <<whole, halfSnaps, evidence, pool, loops, overlapped, passed, lists>>

PrepareRest(s) ==
  /\ pc[s] = "subdirs"
  /\ whole' = whole \cup {cursor[s]}
  /\ cursor' = [cursor EXCEPT ![s] = @ + 1]
  /\ Goes(s, "prepare")
  /\ UNCHANGED <<root, halfSnaps, evidence, pool, alive, todo, taken, next, forked,
                 overlapped, passed, lists>>

Prepared(s) ==
  /\ pc[s] = "prepare" /\ cursor[s] = pool[s]
  /\ Goes(s, "spawn")
  /\ UNCHANGED <<files, pool, loops, overlapped, passed, lists>>

\* How many REPLs come up is the subject of Pipeline.
Spawns(s) ==
  /\ pc[s] = "spawn"
  /\ \E n \in 0..pool[s] : alive' = [alive EXCEPT ![s] = n]
  /\ Goes(s, "sample")
  /\ UNCHANGED <<files, pool, cursor, todo, taken, next, forked, overlapped, passed, lists>>

-----------------------------------------------------------------------------
(* Phases 1 and 2: evidence *)

\* Each file that was sampled leaves a file of evidence, whatever became of
\* it.  Without a live instance, or with an empty corpus, there is none.
Samples(s) ==
  /\ pc[s] = "sample"
  /\ \/ alive[s] > 0 /\ evidence' = evidence \cup {"test_sampling"}
     \/ UNCHANGED evidence
  /\ Goes(s, "generate")
  /\ UNCHANGED <<root, whole, halfSnaps, pool, loops, overlapped, passed, lists>>

Generates(s) ==
  /\ pc[s] = "generate"
  /\ \/ alive[s] > 0 /\ evidence' = evidence \cup {"ffi_generated"}
     \/ UNCHANGED evidence
  /\ Goes(s, "snapshot") /\ todo' = [todo EXCEPT ![s] = alive[s]]
  /\ UNCHANGED <<root, whole, halfSnaps, pool, cursor, alive, taken, next, forked,
                 overlapped, passed, lists>>

-----------------------------------------------------------------------------
(* Phase 4: snapshots of the first three instances that are alive *)

SnapshotsTaken(s) == todo[s] = 0 \/ taken[s] >= 3

SnapshotDir(s) ==
  /\ pc[s] = "snapshot" /\ ~SnapshotsTaken(s)
  /\ halfSnaps' = halfSnaps \cup {<<s, taken[s]>>}
  /\ Goes(s, "snapfile")
  /\ UNCHANGED <<root, whole, evidence, pool, loops, overlapped, passed, lists>>

\* An instance that does not answer env.describe gets no snapshot.json.
SnapshotFileIfAnswered(s) ==
  /\ pc[s] = "snapfile"
  /\ halfSnaps' \in {halfSnaps, halfSnaps \ {<<s, taken[s]>>}}
  /\ Goes(s, "snapshot") /\ Visited(s) /\ taken' = [taken EXCEPT ![s] = @ + 1]
  /\ UNCHANGED <<root, whole, evidence, pool, cursor, alive, next, forked, overlapped, passed, lists>>

\* The file is written whether env.describe succeeded or not.
SnapshotFile(s) ==
  /\ pc[s] = "snapfile"
  /\ halfSnaps' = halfSnaps \ {<<s, taken[s]>>}
  /\ Goes(s, "snapshot") /\ Visited(s) /\ taken' = [taken EXCEPT ![s] = @ + 1]
  /\ UNCHANGED <<root, whole, evidence, pool, cursor, alive, next, forked, overlapped, passed, lists>>

SnapshotsDone(s) ==
  /\ pc[s] = "snapshot" /\ SnapshotsTaken(s)
  /\ Goes(s, "scan")
  /\ todo' = [todo EXCEPT ![s] = alive[s]] /\ next' = [next EXCEPT ![s] = pool[s]]
  /\ UNCHANGED <<files, pool, cursor, alive, taken, forked, overlapped, passed, lists>>

-----------------------------------------------------------------------------
(* Phase 5: up to two forks, one for each instance that is alive *)

\* The loop over pool_ runs on until there are two forks.
ForkingPastEnd(s) == pc[s] = "scan" /\ alive[s] > 0 /\ Cardinality(forked[s]) < 2

Forking(s) == pc[s] = "scan" /\ todo[s] > 0 /\ Cardinality(forked[s]) < 2

\* next_id moves past the directories that exist.
ScanSkips(s) ==
  /\ Forking(s) /\ DirExists(next[s])
  /\ next[s] < MaxId
  /\ next' = [next EXCEPT ![s] = @ + 1]
  /\ UNCHANGED <<files, pc, pool, cursor, alive, todo, taken, forked, overlapped, passed, lists>>

ScanFinds(s) ==
  /\ Forking(s) /\ ~DirExists(next[s])
  /\ Goes(s, "fork")
  /\ UNCHANGED <<files, pool, loops, overlapped, passed, lists>>

\* fork_into looks once more.  If the directory has come into being the
\* instance has had its turn.
ForkRefused(s) ==
  /\ pc[s] = "fork" /\ DirExists(next[s])
  /\ Goes(s, "scan") /\ Visited(s)
  /\ UNCHANGED <<files, pool, cursor, alive, taken, next, forked, overlapped, passed, lists>>

ForkChecks(s) ==
  /\ pc[s] = "fork" /\ ~DirExists(next[s])
  /\ Goes(s, "forkroot")
  /\ UNCHANGED <<files, pool, loops, overlapped, passed, lists>>

ForkRoot(s) ==
  /\ pc[s] = "forkroot"
  /\ root' = root \cup {next[s]}
  /\ Goes(s, "forkrest")
  /\ UNCHANGED <<whole, halfSnaps, evidence, pool, loops, overlapped, passed, lists>>

\* The bookkeeping of a fork that is made.
Forked(s) ==
  /\ Goes(s, "scan") /\ Visited(s)
  /\ forked' = [forked EXCEPT ![s] = @ \cup {next[s]}]
  /\ next' = [next EXCEPT ![s] = IF @ < MaxId THEN @ + 1 ELSE @]
  /\ UNCHANGED <<root, halfSnaps, evidence, pool, cursor, alive, taken, overlapped, passed, lists>>

\* A fork without its subdirectories.
ForkBare(s) == pc[s] = "forkrest" /\ Forked(s) /\ UNCHANGED whole

ForkRest(s) == pc[s] = "forkrest" /\ Forked(s) /\ whole' = whole \cup {next[s]}

ForksDone(s) ==
  /\ pc[s] = "scan"
  /\ todo[s] = 0 \/ Cardinality(forked[s]) >= 2
  /\ Goes(s, "count")
  /\ UNCHANGED <<files, pool, loops, overlapped, passed, lists>>

-----------------------------------------------------------------------------
(* Validation.  What depends on time and on the build tree (throughput,    *)
(* runtime budget, dependency on Pantograph) is left out.                  *)
(*                                                                         *)
(* Two checks list directories and then look into what they have listed,   *)
(* one directory after the other.  Other sessions are at work meanwhile.   *)
(* What was there at first is listed; what comes later may be.  As nothing *)
(* is ever taken away from a directory, looks one after the other come to  *)
(* what one look comes to, at the time of the first one that fails, or     *)
(* else of the last.  The other checks pass if anything is there: for them *)
(* it is the time of the first listing that counts.                        *)

\* s is at p.  Check c passes if cond, and the validation goes on to q.
Checks(s, p, c, cond, q) ==
  /\ pc[s] = p
  /\ passed' = [passed EXCEPT ![s] = IF cond THEN @ \cup {c} ELSE @]
  /\ Goes(s, q)
  /\ UNCHANGED <<root, whole, halfSnaps, pool, overlapped>>

\* run_all writes its own summary into evidence/validation.
RunAll(s) ==
  /\ Checks(s, "count", "count", alive[s] >= Min({pool[s], 2}), "isolation")
  /\ evidence' = evidence \cup {"validation"}
  /\ UNCHANGED <<loops, lists>>

ListsDirs(s) ==
  /\ pc[s] = "isolation"
  /\ listed' = [listed EXCEPT ![s] = root]
  /\ Goes(s, "dirs")
  /\ UNCHANGED <<files, pool, loops, overlapped, passed, listedHalf>>

CheckIsolation(s) ==
  /\ \E new \in SUBSET (root \ listed[s]) :
       Checks(s, "dirs", "isolation",
              /\ \A i \in listed[s] \cup new : DirIsWhole(i)
              /\ Cardinality(listed[s] \cup new) >= 2,
              "evidence")
  /\ listed' = [listed EXCEPT ![s] = {}]
  /\ UNCHANGED <<evidence, loops, listedHalf>>

CheckEvidence(s) ==
  /\ Checks(s, "evidence", "evidence", evidence # {}, "snapshots")
  /\ UNCHANGED <<evidence, loops, lists>>

\* Of the snapshots that are complete already nothing more is to be seen.
ListsSnapshots(s) ==
  /\ pc[s] = "snapshots"
  /\ listedHalf' = [listedHalf EXCEPT ![s] = halfSnaps]
  /\ Goes(s, "snapdirs")
  /\ UNCHANGED <<files, pool, loops, overlapped, passed, listed>>

CheckSnapshots(s) ==
  /\ \E new \in SUBSET (halfSnaps \ listedHalf[s]) :
       Checks(s, "snapdirs", "snapshots", (listedHalf[s] \cap halfSnaps) \cup new = {}, "random")
  /\ listedHalf' = [listedHalf EXCEPT ![s] = {}]
  /\ UNCHANGED <<evidence, loops, listed>>

CheckRandomLeanFileExecuted(s) ==
  /\ Checks(s, "random", "random", "test_sampling" \in evidence, "ffi")
  /\ UNCHANGED <<evidence, loops, lists>>

\* What s has in memory is gone.
Forgets(s) ==
  /\ cursor' = [cursor EXCEPT ![s] = 0] /\ alive' = [alive EXCEPT ![s] = 0]
  /\ todo' = [todo EXCEPT ![s] = 0] /\ taken' = [taken EXCEPT ![s] = 0]
  /\ next' = [next EXCEPT ![s] = 0] /\ forked' = [forked EXCEPT ![s] = {}]
  /\ listed' = [listed EXCEPT ![s] = {}] /\ listedHalf' = [listedHalf EXCEPT ![s] = {}]

\* The last check; what follows it (report, shutdown, exit) changes no file
\* that a session reads.
CheckFfiGeneration(s) ==
  /\ Checks(s, "ffi", "ffi", "ffi_generated" \in evidence, "ended")
  /\ Forgets(s)
  /\ UNCHANGED evidence

-----------------------------------------------------------------------------

Killed(s) ==
  /\ "kill" \in Faults /\ Active(s)
  /\ Goes(s, "killed")
  /\ Forgets(s)
  /\ pool' = [pool EXCEPT ![s] = 0]
  /\ passed' = [passed EXCEPT ![s] = {}]
  /\ UNCHANGED <<files, overlapped>>

Step(s) ==
  \/ Starts(s) \/ PrepareRoot(s) \/ PrepareRest(s) \/ Prepared(s) \/ Spawns(s)
  \/ Samples(s) \/ Generates(s)
  \/ SnapshotDir(s) \/ SnapshotFile(s) \/ SnapshotsDone(s)
  \/ ScanSkips(s) \/ ScanFinds(s) \/ ForkRefused(s) \/ ForkChecks(s)
  \/ ForkRoot(s) \/ ForkRest(s) \/ ForksDone(s)
  \/ RunAll(s) \/ ListsDirs(s) \/ CheckIsolation(s) \/ CheckEvidence(s)
  \/ ListsSnapshots(s) \/ CheckSnapshots(s)
  \/ CheckRandomLeanFileExecuted(s) \/ CheckFfiGeneration(s)
  \/ Killed(s)

Next == \E s \in Session : Step(s)

Spec == Init /\ [][Next]_vars

-----------------------------------------------------------------------------
(* Properties *)

\* What a session has prepared or forked is whole and stays so, whoever else
\* is at work in work_root and whatever killed sessions have left there.
OwnDirsWhole ==
  \A s \in Session :
    /\ Active(s) /\ pc[s] \notin {"prepare", "subdirs"} => 0 .. pool[s] - 1 \subseteq whole
    /\ forked[s] \subseteq whole

\* Sessions that are neither killed nor overlap pass the checks that look
\* for all that should be in a directory: what they find is complete.
QuietChecksPass ==
  ~overlapped /\ (\A s \in Session : pc[s] # "killed") =>
     \A s \in Session :
       pc[s] = "ended" /\ pool[s] >= 2 => {"isolation", "snapshots"} \subseteq passed[s]

\* Forks that were cut short, beyond all pools, and that nobody is at any more.
Abandoned ==
  {i \in root \ whole : /\ i >= Max(PoolSizes)
                        /\ \A s \in Session : pc[s] \in {"forkroot", "forkrest"} => next[s] # i}

\* Once there is such a fork, no session that has yet to list work_root will
\* ever pass isolation_integrity, however many sessions come and whatever
\* they do beside it.  One that is past its listing may still pass.
AbandonedFails ==
  \A s \in Session :
    [](Abandoned # {} /\ "isolation" \notin passed[s] /\ pc[s] # "dirs"
         => []("isolation" \notin passed[s]))
=============================================================================
