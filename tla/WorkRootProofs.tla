---------------------------- MODULE WorkRootProofs ----------------------------
(***************************************************************************)
(* Proofs about WorkRoot, for every set of sessions, every bound on the    *)
(* directories, all sizes of pools and all faults.                         *)
(*                                                                         *)
(* The properties speak of what sessions leave behind.  What makes them    *)
(* inductive is where each session is in its loops (InLoops), what it has  *)
(* made so far (Made), and that a directory or a snapshot that is not      *)
(* complete has somebody at work on it, or was left by a session that has  *)
(* been killed (HalfMade, HalfSnapped).                                    *)
(***************************************************************************)
EXTENDS WorkRoot, FiniteSetTheorems, WellFoundedInduction, TLAPS

\* The places of a session in its loops.
InLoops ==
  \A s \in Session :
    /\ pc[s] = "idle" => cursor[s] = 0
    /\ Active(s) => pool[s] \in PoolSizes
    /\ pc[s] = "prepare" => cursor[s] <= pool[s]
    /\ pc[s] = "subdirs" => cursor[s] < pool[s]
    /\ pc[s] = "snapfile" => todo[s] > 0 /\ taken[s] < 3
    /\ pc[s] \in {"fork", "forkroot", "forkrest"} => todo[s] > 0

\* What a session has made while it is still preparing or forking.
Made ==
  \A s \in Session :
    /\ pc[s] \in {"prepare", "subdirs"} => 0 .. cursor[s] - 1 \subseteq whole
    /\ pc[s] = "subdirs" => cursor[s] \in root
    /\ pc[s] = "forkrest" => next[s] \in root

\* Without overlaps one session at most is at work.
Alone == ~overlapped => \A s, t \in Session : Active(s) /\ Active(t) => s = t

NoneKilled == \A s \in Session : pc[s] # "killed"

\* Somebody is at work on a directory that lacks its subdirectories.
HalfMade ==
  NoneKilled =>
    \A i \in root \ whole : \E t \in Session : \/ pc[t] = "subdirs" /\ cursor[t] = i
                                               \/ pc[t] = "forkrest" /\ next[t] = i

HalfSnapped ==
  \A h \in halfSnaps : \/ pc[h[1]] = "killed"
                       \/ pc[h[1]] = "snapfile" /\ h[2] = taken[h[1]]

\* Those who look into directories have listed their own.
Listed ==
  \A s \in Session :
    pc[s] = "dirs" => 0 .. pool[s] - 1 \subseteq listed[s] /\ listed[s] \subseteq root

\* The checks of the files that a session has behind it.
PassesSoFar ==
  ~overlapped /\ NoneKilled =>
    \A s \in Session : pool[s] >= 2 =>
      /\ pc[s] \in {"evidence", "snapshots", "snapdirs", "random", "ffi", "ended"}
           => "isolation" \in passed[s]
      /\ pc[s] \in {"random", "ffi", "ended"} => "snapshots" \in passed[s]

IndInv ==
  /\ TypeOK /\ InLoops /\ Made /\ OwnDirsWhole
  /\ Alone /\ HalfMade /\ HalfSnapped /\ Listed /\ PassesSoFar

-----------------------------------------------------------------------------
(* Steps *)

\* Every session keeps its variables to itself.
LEMMA OthersKept ==
  ASSUME TypeOK, NEW s \in Session, Step(s), NEW t \in Session, t # s
  PROVE  /\ pc'[t] = pc[t] /\ pool'[t] = pool[t] /\ cursor'[t] = cursor[t]
         /\ alive'[t] = alive[t] /\ todo'[t] = todo[t] /\ taken'[t] = taken[t]
         /\ next'[t] = next[t] /\ forked'[t] = forked[t] /\ passed'[t] = passed[t]
         /\ listed'[t] = listed[t] /\ listedHalf'[t] = listedHalf[t]
<1> USE DEF TypeOK, files, loops, lists, session, Goes, Visited, Checks
<1>1. CASE Starts(s) \/ PrepareRoot(s) \/ PrepareRest(s) \/ Prepared(s) \/ Spawns(s)
           \/ Samples(s) \/ Generates(s)
  BY <1>1 DEF Starts, PrepareRoot, PrepareRest, Prepared, Spawns, Samples, Generates
<1>2. CASE SnapshotDir(s) \/ SnapshotFile(s) \/ SnapshotsDone(s)
  BY <1>2 DEF SnapshotDir, SnapshotFile, SnapshotsDone
<1>3. CASE ScanSkips(s) \/ ScanFinds(s) \/ ForkRefused(s) \/ ForkChecks(s)
           \/ ForkRoot(s) \/ ForkRest(s) \/ ForksDone(s)
  BY <1>3 DEF ScanSkips, ScanFinds, ForkRefused, ForkChecks, ForkRoot, ForkRest, Forked,
              ForksDone
<1>4. CASE RunAll(s) \/ ListsDirs(s) \/ CheckIsolation(s) \/ CheckEvidence(s)
           \/ ListsSnapshots(s) \/ CheckSnapshots(s)
           \/ CheckRandomLeanFileExecuted(s)
  BY <1>4 DEF RunAll, ListsDirs, CheckIsolation, CheckEvidence, ListsSnapshots, CheckSnapshots, CheckRandomLeanFileExecuted
<1>5. CASE CheckFfiGeneration(s) \/ Killed(s)
  BY <1>5 DEF CheckFfiGeneration, Killed, Forgets
<1> QED
  BY <1>1, <1>2, <1>3, <1>4, <1>5 DEF Step

\* Nothing that is made goes away.
LEMMA FilesGrow ==
  ASSUME NEW s \in Session, Step(s)
  PROVE  /\ root \subseteq root' /\ whole \subseteq whole' /\ evidence \subseteq evidence'
         /\ overlapped => overlapped'
<1> USE DEF files, loops, lists, session, Checks
<1>0. CASE Starts(s)
  BY <1>0 DEF Starts
<1>1. CASE PrepareRoot(s) \/ PrepareRest(s) \/ Prepared(s) \/ Spawns(s)
           \/ Samples(s) \/ Generates(s) \/ Killed(s)
  BY <1>1 DEF PrepareRoot, PrepareRest, Prepared, Spawns, Samples, Generates, Killed
<1>2. CASE SnapshotDir(s) \/ SnapshotFile(s) \/ SnapshotsDone(s)
  BY <1>2 DEF SnapshotDir, SnapshotFile, SnapshotsDone
<1>3. CASE ScanSkips(s) \/ ScanFinds(s) \/ ForkRefused(s) \/ ForkChecks(s)
           \/ ForkRoot(s) \/ ForkRest(s) \/ ForksDone(s)
  BY <1>3 DEF ScanSkips, ScanFinds, ForkRefused, ForkChecks, ForkRoot, ForkRest, Forked,
              ForksDone
<1>4. CASE RunAll(s) \/ ListsDirs(s) \/ CheckEvidence(s) \/ ListsSnapshots(s)
           \/ CheckRandomLeanFileExecuted(s) \/ CheckFfiGeneration(s)
  BY <1>4 DEF RunAll, ListsDirs, CheckEvidence, ListsSnapshots, CheckRandomLeanFileExecuted,
              CheckFfiGeneration
<1>5. CASE CheckIsolation(s)
  BY <1>5 DEF CheckIsolation
<1>6. CASE CheckSnapshots(s)
  BY <1>6 DEF CheckSnapshots
<1> QED
  BY <1>0, <1>1, <1>2, <1>3, <1>4, <1>5, <1>6 DEF Step

-----------------------------------------------------------------------------
(* Types *)

\* Every step keeps the types.
LEMMA TypeNext ==
  ASSUME TypeOK, InLoops, Made, NEW s \in Session, Step(s)
  PROVE  TypeOK'
<1> USE WorkRootAssumption DEF Id, Goes, Visited, files, loops, lists, session
<1>1. CASE Starts(s)
  BY <1>1 DEF Starts, TypeOK, Places
<1>2. CASE PrepareRoot(s)
  BY <1>2 DEF PrepareRoot, Preparing, TypeOK, Places
<1>3. CASE PrepareRest(s)
  <2>1. cursor[s] + 1 \in Id /\ cursor[s] \in root
    BY <1>3 DEF PrepareRest, TypeOK, InLoops, Made
  <2> QED
    BY <1>3, <2>1 DEF PrepareRest, TypeOK, Places
<1>4. CASE Prepared(s) \/ Samples(s) \/ Generates(s)
  BY <1>4 DEF Prepared, Samples, Generates, TypeOK, Places, Evidence
<1>5. CASE Spawns(s)
  BY <1>5 DEF Spawns, TypeOK, Places
<1>6. CASE SnapshotDir(s)
  <2>1. ~(taken[s] >= 3) /\ taken[s] \in 0..3
    BY <1>6 DEF SnapshotDir, SnapshotsTaken, TypeOK
  <2>2. <<s, taken[s]>> \in Snapshot
    BY <2>1 DEF Snapshot
  <2> QED
    BY <1>6, <2>2 DEF SnapshotDir, TypeOK, Places
<1>7. CASE SnapshotFile(s)
  <2>1. todo[s] - 1 \in 0..MaxId /\ taken[s] + 1 \in 0..3
    BY <1>7 DEF SnapshotFile, TypeOK, InLoops
  <2> QED
    BY <1>7, <2>1 DEF SnapshotFile, TypeOK, Places
<1>18. CASE SnapshotsDone(s)
  BY <1>18 DEF SnapshotsDone, TypeOK, Places
<1>8. CASE ScanSkips(s)
  <2>1. next[s] + 1 \in Id
    BY <1>8 DEF ScanSkips, TypeOK
  <2> QED
    BY <1>8, <2>1 DEF ScanSkips, TypeOK
<1>9. CASE ScanFinds(s) \/ ForkChecks(s) \/ ForksDone(s)
  BY <1>9 DEF ScanFinds, ForkChecks, ForksDone, TypeOK, Places, Check
<1>10. CASE ForkRoot(s)
  BY <1>10 DEF ForkRoot, TypeOK, Places
<1>11. CASE ForkRefused(s) \/ ForkRest(s)
  <2>1. todo[s] - 1 \in 0..MaxId
    BY <1>11 DEF ForkRefused, ForkRest, TypeOK, InLoops
  <2>2. (IF next[s] < MaxId THEN next[s] + 1 ELSE next[s]) \in Id
    BY DEF TypeOK
  <2>3. ForkRest(s) => next[s] \in root
    BY DEF ForkRest, Made
  <2>4. CASE ForkRefused(s)
    BY <2>1, <2>4 DEF ForkRefused, TypeOK, Places
  <2>5. CASE ForkRest(s)
    BY <2>1, <2>2, <2>3, <2>5 DEF ForkRest, Forked, TypeOK, Places
  <2> QED
    BY <1>11, <2>4, <2>5
<1>12. ASSUME NEW p, NEW c \in Check, NEW cond, NEW q \in Places, Checks(s, p, c, cond, q)
       PROVE  pc' \in [Session -> Places] /\ passed' \in [Session -> SUBSET Check]
  <2>1. passed[s] \cup {c} \in SUBSET Check
    BY DEF TypeOK
  <2> QED
    BY <1>12, <2>1 DEF Checks, TypeOK
<1>13. CASE RunAll(s) \/ CheckIsolation(s) \/ CheckEvidence(s) \/ CheckSnapshots(s)
            \/ CheckRandomLeanFileExecuted(s)
  <2>1. pc' \in [Session -> Places] /\ passed' \in [Session -> SUBSET Check]
    BY <1>12, <1>13 DEF RunAll, CheckIsolation, CheckEvidence, CheckSnapshots,
                        CheckRandomLeanFileExecuted, Check, Places
  <2>2. /\ UNCHANGED <<root, whole, halfSnaps, pool, overlapped, loops>>
        /\ evidence' \in {evidence, evidence \cup {"validation"}}
        /\ listed' \in {listed, [listed EXCEPT ![s] = {}]}
        /\ listedHalf' \in {listedHalf, [listedHalf EXCEPT ![s] = {}]}
    BY <1>13 DEF RunAll, CheckIsolation, CheckEvidence, CheckSnapshots,
                 CheckRandomLeanFileExecuted, Checks
  <2>3. listed' \in [Session -> SUBSET Id] /\ listedHalf' \in [Session -> SUBSET Snapshot]
    BY <2>2 DEF TypeOK
  <2> QED
    BY <2>1, <2>2, <2>3 DEF TypeOK, Evidence
<1>17. CASE ListsDirs(s) \/ ListsSnapshots(s)
  BY <1>17 DEF ListsDirs, ListsSnapshots, TypeOK, Places
<1>14. CASE Forgets(s) /\ UNCHANGED <<files, overlapped>> /\ pool' \in [Session -> 0..MaxId]
            /\ pc' \in [Session -> Places] /\ passed' \in [Session -> SUBSET Check]
  BY <1>14 DEF Forgets, TypeOK
<1>15. CASE CheckFfiGeneration(s)
  <2>1. pc' \in [Session -> Places] /\ passed' \in [Session -> SUBSET Check]
    BY <1>12, <1>15 DEF CheckFfiGeneration, Check, Places
  <2> QED
    BY <1>14, <1>15, <2>1 DEF CheckFfiGeneration, Checks, TypeOK
<1>16. CASE Killed(s)
  BY <1>14, <1>16 DEF Killed, TypeOK, Places
<1> QED
  BY <1>1, <1>2, <1>3, <1>4, <1>5, <1>6, <1>7, <1>8, <1>9, <1>10, <1>11, <1>13, <1>15, <1>16,
     <1>17, <1>18
  DEF Step

-----------------------------------------------------------------------------
(* Loops *)

\* Every step keeps the sessions within their loops.
LEMMA LoopsNext ==
  ASSUME TypeOK, InLoops, NEW s \in Session, Step(s)
  PROVE  InLoops'
<1> DEFINE Loop(t) ==
      /\ pc[t] = "idle" => cursor[t] = 0
      /\ Active(t) => pool[t] \in PoolSizes
      /\ pc[t] = "prepare" => cursor[t] <= pool[t]
      /\ pc[t] = "subdirs" => cursor[t] < pool[t]
      /\ pc[t] = "snapfile" => todo[t] > 0 /\ taken[t] < 3
      /\ pc[t] \in {"fork", "forkroot", "forkrest"} => todo[t] > 0
<1>1. ASSUME NEW t \in Session, t # s
      PROVE  Loop(t)'
  BY <1>1, OthersKept DEF InLoops, Active
<1>2. Loop(s)'
  <2> USE WorkRootAssumption DEF TypeOK, InLoops, Active, Id, Goes, Visited, files, loops, lists, session
  <2>1. CASE Starts(s)
    BY <2>1 DEF Starts
  <2>2. CASE PrepareRoot(s) \/ PrepareRest(s)
    BY <2>2 DEF PrepareRoot, Preparing, PrepareRest
  <2>3. CASE Prepared(s) \/ Spawns(s) \/ Samples(s) \/ Generates(s)
    BY <2>3 DEF Prepared, Spawns, Samples, Generates
  <2>4. CASE SnapshotDir(s) \/ SnapshotFile(s) \/ SnapshotsDone(s)
    BY <2>4 DEF SnapshotDir, SnapshotsTaken, SnapshotFile, SnapshotsDone
  <2>5. CASE ScanSkips(s) \/ ScanFinds(s) \/ ForkRefused(s) \/ ForkChecks(s)
    BY <2>5 DEF ScanSkips, Forking, ScanFinds, ForkRefused, ForkChecks
  <2>6. CASE ForkRoot(s) \/ ForkRest(s) \/ ForksDone(s)
    BY <2>6 DEF ForkRoot, ForkRest, Forked, ForksDone
  <2>7. CASE RunAll(s) \/ ListsDirs(s) \/ CheckIsolation(s) \/ CheckEvidence(s)
             \/ ListsSnapshots(s) \/ CheckSnapshots(s) \/ CheckRandomLeanFileExecuted(s)
    <3>1. UNCHANGED <<pool, loops>>
      BY <2>7 DEF RunAll, ListsDirs, CheckIsolation, CheckEvidence, ListsSnapshots, CheckSnapshots,
                  CheckRandomLeanFileExecuted, Checks
    <3>2. {pc[s], pc'[s]} \subseteq Check \cup {"dirs", "snapdirs"}
      BY <2>7 DEF RunAll, ListsDirs, CheckIsolation, CheckEvidence, ListsSnapshots, CheckSnapshots,
                  CheckRandomLeanFileExecuted, Checks, Check
    <3> QED
      BY <3>1, <3>2 DEF Check
  <2>8. CASE CheckFfiGeneration(s) \/ Killed(s)
    BY <2>8 DEF CheckFfiGeneration, Checks, Killed
  <2> QED
    BY <2>1, <2>2, <2>3, <2>4, <2>5, <2>6, <2>7, <2>8 DEF Step
<1> QED
  BY <1>1, <1>2 DEF InLoops

-----------------------------------------------------------------------------
(* Directories of one's own *)

\* A session that has passed by its loop over the pool has made all of it.
LEMMA MadeNext ==
  ASSUME TypeOK, InLoops, Made, OwnDirsWhole, NEW s \in Session, Step(s)
  PROVE  Made' /\ OwnDirsWhole'
<1> DEFINE Mine(t) ==
      /\ pc[t] \in {"prepare", "subdirs"} => 0 .. cursor[t] - 1 \subseteq whole
      /\ pc[t] = "subdirs" => cursor[t] \in root
      /\ pc[t] = "forkrest" => next[t] \in root
      /\ Active(t) /\ pc[t] \notin {"prepare", "subdirs"} => 0 .. pool[t] - 1 \subseteq whole
      /\ forked[t] \subseteq whole
<1>0. \A t \in Session : Mine(t)
  BY DEF Made, OwnDirsWhole
<1>1. ASSUME NEW t \in Session, t # s
      PROVE  Mine(t)'
  BY <1>0, <1>1, OthersKept, FilesGrow DEF Active
<1>2. Mine(s)'
  <2> USE DEF TypeOK, Active, Id, Goes, Visited, files, loops, lists, session
  <2>1. CASE Starts(s)
    BY <1>0, <2>1 DEF Starts, InLoops
  <2>2. CASE PrepareRoot(s)
    BY <1>0, <2>2 DEF PrepareRoot, Preparing
  <2>3. CASE PrepareRest(s)
    <3>1. /\ pc'[s] = "prepare" /\ cursor'[s] = cursor[s] + 1 /\ UNCHANGED forked
          /\ whole' = whole \cup {cursor[s]} /\ 0 .. cursor[s] - 1 \subseteq whole
      BY <1>0, <2>3 DEF PrepareRest
    <3>2. 0 .. cursor'[s] - 1 \subseteq whole'
      BY <3>1, WorkRootAssumption
    <3> QED
      BY <1>0, <3>1, <3>2
  <2>4. CASE Prepared(s)
    BY <1>0, <2>4 DEF Prepared
  <2>5. CASE Spawns(s) \/ Samples(s) \/ Generates(s)
    BY <1>0, <2>5, FilesGrow DEF Spawns, Samples, Generates
  <2>6. CASE SnapshotDir(s) \/ SnapshotFile(s) \/ SnapshotsDone(s)
    BY <1>0, <2>6 DEF SnapshotDir, SnapshotFile, SnapshotsDone
  <2>7. CASE ScanSkips(s) \/ ScanFinds(s) \/ ForkRefused(s) \/ ForkChecks(s) \/ ForksDone(s)
    BY <1>0, <2>7 DEF ScanSkips, Forking, ScanFinds, ForkRefused, ForkChecks, ForksDone
  <2>8. CASE ForkRoot(s)
    BY <1>0, <2>8 DEF ForkRoot
  <2>9. CASE ForkRest(s)
    BY <1>0, <2>9 DEF ForkRest, Forked
  <2>10. CASE RunAll(s) \/ ListsDirs(s) \/ CheckIsolation(s) \/ CheckEvidence(s)
             \/ ListsSnapshots(s) \/ CheckSnapshots(s) \/ CheckRandomLeanFileExecuted(s)
    <3>1. UNCHANGED <<root, whole, pool, loops>>
      BY <2>10 DEF RunAll, ListsDirs, CheckIsolation, CheckEvidence, ListsSnapshots, CheckSnapshots,
                  CheckRandomLeanFileExecuted, Checks
    <3>2. {pc[s], pc'[s]} \subseteq Check \cup {"dirs", "snapdirs"}
      BY <2>10 DEF RunAll, ListsDirs, CheckIsolation, CheckEvidence, ListsSnapshots, CheckSnapshots,
                  CheckRandomLeanFileExecuted, Checks, Check
    <3> QED
      BY <1>0, <3>1, <3>2 DEF Check
  <2>11. CASE CheckFfiGeneration(s) \/ Killed(s)
    BY <1>0, <2>11 DEF CheckFfiGeneration, Checks, Killed, Forgets
  <2> QED
    BY <2>1, <2>2, <2>3, <2>4, <2>5, <2>6, <2>7, <2>8, <2>9, <2>10, <2>11 DEF Step
<1> QED
  BY <1>1, <1>2 DEF Made, OwnDirsWhole

-----------------------------------------------------------------------------
(* Who acts *)

\* Only a session that starts, or is at work, takes steps.  Where it is says
\* which.
LEMMA StepFrom ==
  ASSUME NEW s \in Session, Step(s)
  PROVE  /\ Starts(s) \/ Active(s)
         /\ pc[s] = "subdirs"  => PrepareRest(s) \/ Killed(s)
         /\ pc[s] = "snapfile" => SnapshotFile(s) \/ Killed(s)
         /\ pc[s] = "forkrest" => ForkRest(s) \/ Killed(s)
BY DEF Step, Active, Starts, PrepareRoot, Preparing, PrepareRest, Prepared, Spawns, Samples,
       Generates, SnapshotDir, SnapshotFile, SnapshotsDone, ScanSkips, Forking, ScanFinds,
       ForkRefused, ForkChecks, ForkRoot, ForkRest, ForksDone, RunAll, ListsDirs, CheckIsolation,
       CheckEvidence, ListsSnapshots, CheckSnapshots, CheckRandomLeanFileExecuted,
       CheckFfiGeneration, Checks, Killed

\* Where it comes to says so too.
LEMMA StepTo ==
  ASSUME TypeOK, NEW s \in Session, Step(s)
  PROVE  /\ pc'[s] = "forkroot"  => ForkChecks(s)
         /\ pc'[s] = "forkrest"  => ForkRoot(s)
         /\ pc'[s] = "isolation" => RunAll(s)
         /\ pc'[s] = "dirs"      => ListsDirs(s)
         /\ pc'[s] = "evidence"  => CheckIsolation(s)
         /\ pc'[s] = "snapshots" => CheckEvidence(s)
         /\ pc'[s] = "snapdirs"  => ListsSnapshots(s)
         /\ pc'[s] = "random"    => CheckSnapshots(s)
         /\ pc'[s] = "ffi"       => CheckRandomLeanFileExecuted(s)
         /\ pc'[s] = "ended"     => CheckFfiGeneration(s)
<1> USE DEF TypeOK, Goes
<1>1. CASE Starts(s) \/ PrepareRoot(s) \/ PrepareRest(s) \/ Prepared(s) \/ Spawns(s)
           \/ Samples(s) \/ Generates(s) \/ Killed(s)
  BY <1>1 DEF Starts, PrepareRoot, PrepareRest, Prepared, Spawns, Samples, Generates, Killed
<1>2. CASE SnapshotDir(s) \/ SnapshotFile(s) \/ SnapshotsDone(s)
  BY <1>2 DEF SnapshotDir, SnapshotFile, SnapshotsDone
<1>3. CASE ScanFinds(s) \/ ForkRefused(s) \/ ForkRoot(s) \/ ForkRest(s) \/ ForksDone(s)
  BY <1>3 DEF ScanFinds, ForkRefused, ForkRoot, ForkRest, Forked, ForksDone
<1>4. CASE ScanSkips(s)
  BY <1>4 DEF ScanSkips, Forking
<1>5. CASE RunAll(s) \/ ListsDirs(s) \/ CheckIsolation(s) \/ CheckEvidence(s)
           \/ ListsSnapshots(s) \/ CheckSnapshots(s)
           \/ CheckRandomLeanFileExecuted(s) \/ CheckFfiGeneration(s) \/ ForkChecks(s)
  BY <1>5 DEF RunAll, ListsDirs, CheckIsolation, CheckEvidence, ListsSnapshots, CheckSnapshots,
              CheckRandomLeanFileExecuted, CheckFfiGeneration, Checks, ForkChecks
<1> QED
  BY <1>1, <1>2, <1>3, <1>4, <1>5 DEF Step

\* Directories are made in two places, and so are snapshots.
LEMMA StepMakes ==
  ASSUME NEW s \in Session, Step(s)
  PROVE  /\ UNCHANGED root \/ PrepareRoot(s) \/ ForkRoot(s)
         /\ UNCHANGED whole \/ PrepareRest(s) \/ ForkRest(s)
         /\ UNCHANGED halfSnaps \/ SnapshotDir(s) \/ SnapshotFile(s)
<1> USE DEF files
<1>1. CASE Starts(s) \/ PrepareRest(s) \/ Prepared(s) \/ Spawns(s)
           \/ Samples(s) \/ Generates(s) \/ Killed(s) \/ SnapshotsDone(s)
  BY <1>1 DEF Starts, PrepareRest, Prepared, Spawns, Samples, Generates, Killed, SnapshotsDone
<1>2. CASE PrepareRoot(s) \/ ForkRoot(s) \/ SnapshotDir(s) \/ SnapshotFile(s)
  BY <1>2 DEF PrepareRoot, ForkRoot, SnapshotDir, SnapshotFile
<1>3. CASE ScanSkips(s) \/ ScanFinds(s) \/ ForkRefused(s) \/ ForkChecks(s) \/ ForkRest(s)
           \/ ForksDone(s)
  BY <1>3 DEF ScanSkips, ScanFinds, ForkRefused, ForkChecks, ForkRest, Forked, ForksDone
<1>4. CASE RunAll(s) \/ ListsDirs(s) \/ CheckIsolation(s) \/ CheckEvidence(s)
           \/ ListsSnapshots(s) \/ CheckSnapshots(s)
           \/ CheckRandomLeanFileExecuted(s) \/ CheckFfiGeneration(s)
  BY <1>4 DEF RunAll, ListsDirs, CheckIsolation, CheckEvidence, ListsSnapshots, CheckSnapshots,
              CheckRandomLeanFileExecuted, CheckFfiGeneration, Checks
<1> QED
  BY <1>1, <1>2, <1>3, <1>4 DEF Step

-----------------------------------------------------------------------------
(* Sessions that do not overlap *)

\* A session that starts while another is at work is noticed.
LEMMA AloneNext ==
  ASSUME TypeOK, Alone, NEW s \in Session, Step(s), ~overlapped'
  PROVE  /\ ~overlapped
         /\ \A t \in Session \ {s} : ~Active(t) /\ ~Active(t)'
<1>1. ~overlapped
  BY FilesGrow
<1>2. ASSUME NEW t \in Session, t # s PROVE ~Active(t)
  <2>1. CASE Starts(s)
    BY <2>1 DEF Starts
  <2>2. CASE Active(s)
    BY <1>1, <1>2, <2>2 DEF Alone
  <2> QED
    BY <2>1, <2>2, StepFrom
<1> QED
  BY <1>1, <1>2, OthersKept DEF Active

\* Alone stays so.
LEMMA AloneStays ==
  ASSUME TypeOK, Alone, NEW s \in Session, Step(s)
  PROVE  Alone'
BY AloneNext DEF Alone

-----------------------------------------------------------------------------
(* What is not complete *)

\* Of sessions that have not been killed.
LEMMA KilledStays ==
  ASSUME TypeOK, NEW s \in Session, Step(s), NoneKilled'
  PROVE  NoneKilled /\ ~Killed(s)
<1>1. pc[s] # "killed"
  BY StepFrom DEF Starts, Active
<1>2. NoneKilled
  BY <1>1, OthersKept DEF NoneKilled
<1>3. ~Killed(s)
  BY DEF NoneKilled, Killed, Goes, TypeOK
<1> QED
  BY <1>2, <1>3

\* A directory that lacks its subdirectories has its session at it.
LEMMA HalfMadeNext ==
  ASSUME TypeOK, HalfMade, NEW s \in Session, Step(s)
  PROVE  HalfMade'
<1> SUFFICES ASSUME NoneKilled', NEW i \in root' \ whole'
             PROVE  \E t \in Session : \/ pc'[t] = "subdirs" /\ cursor'[t] = i
                                       \/ pc'[t] = "forkrest" /\ next'[t] = i
  BY DEF HalfMade
<1>1. NoneKilled /\ ~Killed(s) /\ i \notin whole
  BY KilledStays, FilesGrow
<1>2. CASE i \in root
  <2>1. PICK t \in Session : \/ pc[t] = "subdirs" /\ cursor[t] = i
                             \/ pc[t] = "forkrest" /\ next[t] = i
    BY <1>1, <1>2 DEF HalfMade
  <2>2. t # s
    <3>1. ~PrepareRest(s) \/ cursor[s] # i
      BY DEF PrepareRest
    <3>2. ~ForkRest(s) \/ next[s] # i
      BY DEF ForkRest
    <3> QED
      BY <1>1, <2>1, <3>1, <3>2, StepFrom
  <2> QED
    BY <2>1, <2>2, OthersKept
<1>3. CASE i \notin root
  <2>1. PrepareRoot(s) \/ ForkRoot(s)
    BY <1>3, StepMakes
  <2>2. CASE PrepareRoot(s)
    <3>1. pc'[s] = "subdirs" /\ cursor'[s] = i
      BY <1>3, <2>2 DEF PrepareRoot, Goes, loops, TypeOK
    <3> QED
      BY <3>1
  <2>3. CASE ForkRoot(s)
    <3>1. pc'[s] = "forkrest" /\ next'[s] = i
      BY <1>3, <2>3 DEF ForkRoot, Goes, loops, TypeOK
    <3> QED
      BY <3>1
  <2> QED
    BY <2>1, <2>2, <2>3
<1> QED
  BY <1>2, <1>3

\* A snapshot without snapshot.json has its session at it.
LEMMA HalfSnappedNext ==
  ASSUME TypeOK, HalfSnapped, NEW s \in Session, Step(s)
  PROVE  HalfSnapped'
<1> DEFINE At(h) == pc[h[1]] = "killed" \/ (pc[h[1]] = "snapfile" /\ h[2] = taken[h[1]])
<1> SUFFICES ASSUME NEW h \in halfSnaps' PROVE At(h)'
  BY DEF HalfSnapped
<1>1. ASSUME h \in halfSnaps PROVE h[1] \in Session /\ h = <<h[1], h[2]>> /\ At(h)
  BY <1>1 DEF HalfSnapped, TypeOK, Snapshot
<1>2. ASSUME h \in halfSnaps, h[1] # s PROVE At(h)'
  BY <1>1, <1>2, OthersKept
<1>3. CASE SnapshotDir(s)
  <2>1. h \in halfSnaps \/ h = <<s, taken[s]>>
    BY <1>3 DEF SnapshotDir
  <2>2. pc[s] = "snapshot" /\ pc'[s] = "snapfile" /\ taken' = taken
    BY <1>3 DEF SnapshotDir, Goes, TypeOK, loops
  <2> QED
    BY <1>1, <1>2, <2>1, <2>2
<1>4. CASE SnapshotFile(s)
  <2>1. h \in halfSnaps /\ h # <<s, taken[s]>> /\ pc[s] = "snapfile"
    BY <1>4 DEF SnapshotFile
  <2> QED
    BY <1>1, <1>2, <2>1
<1>5. CASE UNCHANGED halfSnaps /\ ~SnapshotDir(s) /\ ~SnapshotFile(s)
  <2>1. h \in halfSnaps
    BY <1>5
  <2>2. CASE h[1] = s
    <3>1. Killed(s)
      BY <1>1, <1>5, <2>1, <2>2, StepFrom DEF Starts, Active
    <3> QED
      BY <2>2, <3>1 DEF Killed, Goes, TypeOK
  <2> QED
    BY <1>2, <2>1, <2>2
<1> QED
  BY <1>3, <1>4, <1>5, StepMakes

-----------------------------------------------------------------------------
(* The checks *)

\* A listing has what its session has made, and nothing that is not there.
LEMMA ListedNext ==
  ASSUME TypeOK, OwnDirsWhole, Listed, NEW s \in Session, Step(s)
  PROVE  Listed'
<1> SUFFICES ASSUME NEW t \in Session, pc'[t] = "dirs"
             PROVE  0 .. pool'[t] - 1 \subseteq listed'[t] /\ listed'[t] \subseteq root'
  BY DEF Listed
<1>1. CASE t # s
  BY <1>1, OthersKept, FilesGrow DEF Listed
<1>2. CASE t = s
  <2>1. ListsDirs(s)
    BY <1>2, StepTo
  <2> QED
    BY <1>2, <2>1 DEF ListsDirs, OwnDirsWhole, Active, TypeOK, files
<1> QED
  BY <1>1, <1>2

\* When s alone is at the checks all directories are whole.
LEMMA AllWhole ==
  ASSUME TypeOK, Alone, HalfMade, ~overlapped, NoneKilled, NEW s \in Session, pc[s] = "dirs"
  PROVE  root = whole
<1> SUFFICES ASSUME NEW i \in root \ whole PROVE FALSE
  BY DEF TypeOK
<1>1. PICK t \in Session : pc[t] \in {"subdirs", "forkrest"}
  BY DEF HalfMade
<1> QED
  BY <1>1 DEF Alone, Active

\* Whoever has two instances finds two directories at least.
LEMMA TwoListed ==
  ASSUME TypeOK, Listed, NEW s \in Session, pc[s] = "dirs", pool[s] >= 2,
         NEW new \in SUBSET (root \ listed[s])
  PROVE  Cardinality(listed[s] \cup new) >= 2
<1> DEFINE found == listed[s] \cup new
<1>1. 0 .. 1 \in SUBSET found
  <2>1. 0 \in 0 .. pool[s] - 1 /\ 1 \in 0 .. pool[s] - 1
    BY DEF TypeOK
  <2> QED
    BY <2>1 DEF Listed
<1>2. IsFiniteSet(found)
  <2>1. IsFiniteSet(Id)
    BY FS_Interval, WorkRootAssumption DEF Id
  <2>2. found \in SUBSET Id
    BY DEF TypeOK
  <2> QED
    BY <2>1, <2>2, FS_Subset
<1>3. Cardinality(0 .. 1) = 2
  <2>1. 0 \in Int /\ 1 \in Int
    OBVIOUS
  <2>2. Cardinality(0 .. 1) = IF 0 > 1 THEN 0 ELSE 1 - 0 + 1
    BY <2>1, FS_Interval, Zenon
  <2> QED
    BY <2>2
<1> HIDE DEF found
<1>4. Cardinality(0 .. 1) <= Cardinality(found) /\ Cardinality(found) \in Nat
  BY <1>1, <1>2, FS_Subset, FS_CardinalityType
<1>5. Cardinality(found) >= 2
  BY <1>3, <1>4
<1> QED
  BY <1>5 DEF found

\* What the checks have found so far was complete.
LEMMA PassesNext ==
  ASSUME IndInv, NEW s \in Session, Step(s)
  PROVE  PassesSoFar'
<1> SUFFICES ASSUME ~overlapped', NoneKilled', NEW t \in Session, pool'[t] >= 2
             PROVE  /\ pc'[t] \in {"evidence", "snapshots", "snapdirs", "random", "ffi", "ended"}
                         => "isolation" \in passed'[t]
                    /\ pc'[t] \in {"random", "ffi", "ended"} => "snapshots" \in passed'[t]
  BY DEF PassesSoFar
<1>1. ~overlapped /\ NoneKilled
  BY AloneNext, KilledStays DEF IndInv
<1>2. CASE t # s
  BY <1>1, <1>2, OthersKept DEF PassesSoFar, IndInv
<1>3. CASE t = s
  <2> USE <1>1, <1>3 DEF IndInv, TypeOK
  <2>1. CASE pc'[s] = "evidence"
    <3>1. CheckIsolation(s)
      BY <2>1, StepTo
    <3>2. pc[s] = "dirs" /\ pool[s] >= 2
      BY <3>1 DEF CheckIsolation, Checks
    <3>3. PICK new \in SUBSET (root \ listed[s]) :
            Checks(s, "dirs", "isolation",
                   /\ \A i \in listed[s] \cup new : DirIsWhole(i)
                   /\ Cardinality(listed[s] \cup new) >= 2,
                   "evidence")
      BY <3>1 DEF CheckIsolation
    <3>4. Cardinality(listed[s] \cup new) >= 2
      BY <3>2, TwoListed
    <3>5. \A i \in listed[s] \cup new : DirIsWhole(i)
      BY <3>2, AllWhole DEF Listed, DirIsWhole
    <3> QED
      BY <2>1, <3>3, <3>4, <3>5 DEF Checks
  <2>2. CASE pc'[s] \in {"snapshots", "snapdirs"}
    <3>1. CheckEvidence(s) \/ ListsSnapshots(s)
      BY <2>2, StepTo
    <3>2. pc[s] \in {"evidence", "snapshots"} /\ UNCHANGED pool /\ passed[s] \subseteq passed'[s]
      BY <3>1 DEF CheckEvidence, ListsSnapshots, Checks
    <3> QED
      BY <2>2, <3>2 DEF PassesSoFar
  <2>3. CASE pc'[s] = "random"
    <3>1. CheckSnapshots(s)
      BY <2>3, StepTo
    <3>2. pc[s] = "snapdirs"
      BY <3>1 DEF CheckSnapshots, Checks
    <3>3. halfSnaps = {}
      <4> SUFFICES ASSUME NEW h \in halfSnaps PROVE FALSE
        OBVIOUS
      <4>1. h[1] \in Session /\ pc[h[1]] = "snapfile"
        BY DEF HalfSnapped, NoneKilled, Snapshot
      <4> QED
        BY <3>2, <4>1 DEF Alone, Active
    <3>4. PICK new \in SUBSET (halfSnaps \ listedHalf[s]) :
            Checks(s, "snapdirs", "snapshots", (listedHalf[s] \cap halfSnaps) \cup new = {}, "random")
      BY <3>1 DEF CheckSnapshots
    <3>5. (listedHalf[s] \cap halfSnaps) \cup new = {}
      BY <3>3
    <3>6. UNCHANGED pool /\ passed' = [passed EXCEPT ![s] = @ \cup {"snapshots"}]
      BY <3>4, <3>5 DEF Checks
    <3> QED
      BY <2>3, <3>2, <3>6 DEF PassesSoFar
  <2>4. CASE pc'[s] \in {"ffi", "ended"}
    <3>1. CheckRandomLeanFileExecuted(s) \/ CheckFfiGeneration(s)
      BY <2>4, StepTo
    <3>2. /\ pc[s] \in {"random", "ffi"} /\ UNCHANGED pool
          /\ passed[s] \subseteq passed'[s]
      BY <3>1 DEF CheckRandomLeanFileExecuted, CheckFfiGeneration, Checks
    <3>3. {"isolation", "snapshots"} \subseteq passed[s]
      BY <3>2 DEF PassesSoFar
    <3> QED
      BY <3>2, <3>3
  <2> QED
    BY <2>1, <2>2, <2>3, <2>4
<1> QED
  BY <1>2, <1>3

-----------------------------------------------------------------------------
(* Invariance *)

\* Nothing is there at first.
LEMMA InitInv == Init => IndInv
<1> SUFFICES ASSUME Init PROVE IndInv
  OBVIOUS
<1> USE DEF Init
<1>1. TypeOK
  <2>1. 0 \in Id /\ 0 \in 0 .. MaxId /\ 0 \in 0 .. 3 /\ "idle" \in Places
    BY WorkRootAssumption DEF Id, Places
  <2> QED
    BY <2>1 DEF TypeOK
<1>2. InLoops /\ Made /\ OwnDirsWhole /\ Alone
  BY DEF InLoops, Made, OwnDirsWhole, Alone, Active
<1>3. HalfMade /\ HalfSnapped /\ Listed /\ PassesSoFar
  BY DEF HalfMade, HalfSnapped, Listed, PassesSoFar
<1> QED
  BY <1>1, <1>2, <1>3 DEF IndInv

\* The inductive invariant holds of every state that is reached.
THEOREM Invariance == Spec => []IndInv
<1>1. IndInv /\ [Next]_vars => IndInv'
  <2> SUFFICES ASSUME IndInv, [Next]_vars PROVE IndInv'
    OBVIOUS
  <2>1. CASE Next
    <3>1. PICK s \in Session : Step(s)
      BY <2>1 DEF Next
    <3>2. TypeOK' /\ InLoops' /\ Made' /\ OwnDirsWhole'
      BY <3>1, TypeNext, LoopsNext, MadeNext DEF IndInv
    <3>3. Alone' /\ HalfMade' /\ HalfSnapped' /\ Listed' /\ PassesSoFar'
      BY <3>1, AloneStays, HalfMadeNext, HalfSnappedNext, ListedNext, PassesNext
      DEF IndInv
    <3> QED
      BY <3>2, <3>3 DEF IndInv
  <2>2. CASE UNCHANGED vars
    BY <2>2 DEF vars, files, session, loops, lists, IndInv, TypeOK, InLoops, Made, OwnDirsWhole,
                Active, Alone, HalfMade, NoneKilled, HalfSnapped, Listed, PassesSoFar
  <2> QED
    BY <2>1, <2>2
<1> QED
  BY InitInv, <1>1, PTL DEF Spec

\* The variables keep their types.
THEOREM TypeCorrect == Spec => []TypeOK
BY Invariance, PTL DEF IndInv

\* What a session has prepared or forked is whole, and stays so whatever the
\* sessions beside it do.
THEOREM OwnDirsStayWhole == Spec => []OwnDirsWhole
BY Invariance, PTL DEF IndInv

\* Sessions that run one after the other, and to their ends, pass the checks
\* of the files.
THEOREM QuietPasses == Spec => []QuietChecksPass
<1>1. IndInv => QuietChecksPass
  BY DEF IndInv, PassesSoFar, NoneKilled, QuietChecksPass
<1> QED
  BY <1>1, Invariance, PTL

-----------------------------------------------------------------------------
(* Forks that were cut short *)

\* Max bounds the sizes of the pools.
LEMMA MaxPool ==
  ASSUME NEW m \in PoolSizes
  PROVE  Max(PoolSizes) \in PoolSizes /\ \A n \in PoolSizes : n <= Max(PoolSizes)
<1> DEFINE Gap == {g \in 0 .. MaxId : MaxId - g \in PoolSizes}
<1>1. Gap \subseteq Nat /\ Gap # {}
  <2>1. MaxId - m \in 0 .. MaxId /\ MaxId - (MaxId - m) = m
    BY WorkRootAssumption
  <2>2. MaxId - m \in Gap
    BY <2>1
  <2>3. \A g \in Gap : g \in 0 .. MaxId
    OBVIOUS
  <2> HIDE DEF Gap
  <2> QED
    BY <2>2, <2>3, WorkRootAssumption
<1>2. PICK g \in Gap : \A h \in Gap : <<h, g>> \notin OpToRel(<, Nat)
  BY <1>1, NatLessThanWellFounded, WFMin
<1>3. \A n \in PoolSizes : MaxId - g >= n
  <2> SUFFICES ASSUME NEW n \in PoolSizes, ~(MaxId - g >= n) PROVE FALSE
    OBVIOUS
  <2>1. MaxId - n \in Gap /\ MaxId - n < g
    BY WorkRootAssumption
  <2> QED
    BY <1>1, <1>2, <2>1 DEF OpToRel
<1>4. MaxId - g \in PoolSizes
  OBVIOUS
<1> HIDE DEF Gap
<1>5. \A n \in PoolSizes : Max(PoolSizes) >= n
  BY <1>3, <1>4 DEF Max
<1>6. Max(PoolSizes) \in PoolSizes
  BY <1>3, <1>4 DEF Max
<1> QED
  BY <1>5, <1>6, WorkRootAssumption

\* A step passes isolation_integrity only by looking into what has been listed.
LEMMA PassesOnce ==
  ASSUME TypeOK, NEW s \in Session, Step(s), "isolation" \in passed'[s]
  PROVE  "isolation" \in passed[s] \/ (pc[s] = "dirs" /\ listed[s] \subseteq whole)
<1> USE DEF TypeOK, files, loops, lists, session, Checks
<1>1. CASE Starts(s) \/ PrepareRoot(s) \/ PrepareRest(s) \/ Prepared(s) \/ Spawns(s)
           \/ Samples(s) \/ Generates(s)
  BY <1>1 DEF Starts, PrepareRoot, PrepareRest, Prepared, Spawns, Samples, Generates
<1>2. CASE SnapshotDir(s) \/ SnapshotFile(s) \/ SnapshotsDone(s)
  BY <1>2 DEF SnapshotDir, SnapshotFile, SnapshotsDone
<1>3. CASE ScanSkips(s) \/ ScanFinds(s) \/ ForkRefused(s) \/ ForkChecks(s)
           \/ ForkRoot(s) \/ ForkRest(s) \/ ForksDone(s)
  BY <1>3 DEF ScanSkips, ScanFinds, ForkRefused, ForkChecks, ForkRoot, ForkRest, Forked,
              ForksDone
<1>4. CASE CheckIsolation(s)
  BY <1>4 DEF CheckIsolation, DirIsWhole
<1>5. CASE RunAll(s) \/ ListsDirs(s) \/ CheckEvidence(s) \/ ListsSnapshots(s) \/ CheckSnapshots(s)
           \/ CheckRandomLeanFileExecuted(s) \/ CheckFfiGeneration(s) \/ Killed(s)
  BY <1>5 DEF RunAll, ListsDirs, CheckEvidence, ListsSnapshots, CheckSnapshots,
              CheckRandomLeanFileExecuted, CheckFfiGeneration, Killed
<1> QED
  BY <1>1, <1>2, <1>3, <1>4, <1>5 DEF Step

\* No step mends a fork that nobody is at work on.
LEMMA AbandonedNext ==
  ASSUME TypeOK, InLoops, NEW i \in Abandoned, NEW s \in Session, Step(s)
  PROVE  i \in Abandoned'
<1>1. /\ i \in root /\ i \notin whole /\ i >= Max(PoolSizes)
      /\ \A t \in Session : pc[t] \in {"forkroot", "forkrest"} => next[t] # i
  BY DEF Abandoned
<1>2. i \in root'
  BY <1>1, FilesGrow
<1>3. i \notin whole'
  <2>1. CASE PrepareRest(s)
    <3>1. cursor[s] \in Id /\ pool[s] \in 0 .. MaxId /\ cursor[s] < pool[s] /\ pool[s] \in PoolSizes
      BY <2>1 DEF PrepareRest, InLoops, Active, TypeOK
    <3>2. cursor[s] # i
      <4>1. Max(PoolSizes) \in PoolSizes /\ pool[s] <= Max(PoolSizes)
        BY <3>1, MaxPool
      <4>2. Max(PoolSizes) \in 1 .. MaxId
        BY <4>1, WorkRootAssumption
      <4> QED
        BY <1>1, <3>1, <4>1, <4>2, WorkRootAssumption DEF Id
    <3> QED
      BY <1>1, <2>1, <3>2 DEF PrepareRest
  <2>2. CASE ForkRest(s)
    BY <1>1, <2>2 DEF ForkRest
  <2> QED
    BY <1>1, <2>1, <2>2, StepMakes
<1>4. ASSUME NEW t \in Session, pc'[t] \in {"forkroot", "forkrest"} PROVE next'[t] # i
  <2>1. CASE t # s
    BY <1>1, <1>4, <2>1, OthersKept
  <2>2. CASE t = s /\ pc'[s] = "forkroot"
    <3>1. ForkChecks(s)
      BY <2>2, StepTo
    <3> QED
      BY <1>1, <2>2, <3>1 DEF ForkChecks, DirExists, loops
  <2>3. CASE t = s /\ pc'[s] = "forkrest"
    <3>1. ForkRoot(s)
      BY <2>3, StepTo
    <3> QED
      BY <1>1, <2>3, <3>1 DEF ForkRoot, loops
  <2> QED
    BY <1>4, <2>1, <2>2, <2>3
<1> QED
  BY <1>1, <1>2, <1>3, <1>4 DEF Abandoned

\* s has not passed isolation_integrity, and what it has listed, if it has,
\* will make it fail.
Caught(s) ==
  /\ "isolation" \notin passed[s]
  /\ \E i \in Abandoned : pc[s] = "dirs" => i \in listed[s]

\* There is no way out.
LEMMA CaughtNext ==
  ASSUME IndInv, NEW t \in Session, Caught(t), [Next]_vars
  PROVE  Caught(t)'
<1>1. PICK i \in Abandoned : pc[t] = "dirs" => i \in listed[t]
  BY DEF Caught
<1>2. ASSUME NEW s \in Session, Step(s)
      PROVE  Caught(t)'
  <2>1. i \in Abandoned'
    BY <1>2, AbandonedNext DEF IndInv
  <2>2. CASE t # s
    BY <1>1, <1>2, <2>1, <2>2, OthersKept DEF IndInv, Caught
  <2>3. CASE t = s
    <3>1. "isolation" \notin passed'[t]
      BY <1>1, <1>2, <2>3, PassesOnce DEF IndInv, Caught, Abandoned
    <3>2. ASSUME pc'[t] = "dirs" PROVE i \in listed'[t]
      <4>1. ListsDirs(t)
        BY <1>2, <2>3, <3>2, StepTo DEF IndInv
      <4> QED
        BY <4>1 DEF ListsDirs, Abandoned, IndInv, TypeOK
    <3> QED
      BY <2>1, <3>1, <3>2 DEF Caught
  <2> QED
    BY <2>2, <2>3
<1>3. CASE UNCHANGED vars
  BY <1>1, <1>3 DEF vars, files, session, loops, lists, Caught, Abandoned
<1> QED
  BY <1>2, <1>3 DEF Next

\* A fork that was cut short, beyond the pools, is never mended, and no session
\* that lists work_root after that ever passes isolation_integrity.
THEOREM AbandonedForksFail == Spec => AbandonedFails
<1>1. ASSUME NEW s \in Session
      PROVE  Spec => [](Abandoned # {} /\ "isolation" \notin passed[s] /\ pc[s] # "dirs"
                          => []("isolation" \notin passed[s]))
  <2>1. Abandoned # {} /\ "isolation" \notin passed[s] /\ pc[s] # "dirs" => Caught(s)
    BY DEF Caught
  <2>2. IndInv /\ Caught(s) /\ [Next]_vars => Caught(s)'
    BY CaughtNext
  <2>3. Caught(s) => "isolation" \notin passed[s]
    BY DEF Caught
  <2> QED
    BY <2>1, <2>2, <2>3, Invariance, PTL DEF Spec
<1> QED
  BY <1>1 DEF AbandonedFails
=============================================================================
