----------------------------- MODULE FleetProofs -----------------------------
(***************************************************************************)
(* Proofs about Fleet, for every set of instances and pids, every number   *)
(* of starts and every set of faults.                                      *)
(*                                                                         *)
(* That no signal goes astray is not inductive.  Two clients may have the  *)
(* same pid, if one of them has lost its process; what must never happen   *)
(* is that this one comes to its signals.  Engaged says so: whoever is     *)
(* inside a call, or in a shutdown() past its first write, has a process   *)
(* of its own at its pid, or nobody has one there.                         *)
(***************************************************************************)
EXTENDS Fleet, TLAPS

\* There is a process of the orchestrator at p.
Live(p) == os[p] \in {"running", "zombie"}

\* Processes have the numbers of the starts so far.
Numbered ==
  /\ \A p \in Pid : proc[p] <= started
  /\ \A p \in Pid : Live(p) => proc[p] > 0
  /\ \A i \in Inst : child[i] <= started

\* No process has two pids, and none has been started by two clients.
Distinct ==
  /\ \A p, q \in Pid : proc[p] = proc[q] => p = q \/ proc[p] = 0
  /\ \A i, j \in Inst : child[i] = child[j] => i = j \/ child[i] = 0

\* A process that is not reaped yet is known to the client that started it.
Owned == \A p \in Pid : Live(p) => \E i \in Inst : pid[i] = p /\ child[i] = proc[p]

\* The process that i has started is there, dead or alive.
Holds(i) == pid[i] # NoPid /\ Live(pid[i]) /\ proc[pid[i]] = child[i]

\* The manager is not at an instance that is in a call, does not start a
\* process for a client that has one, and sends signals to its own only.
Engaged ==
  /\ \A i \in calling : Holds(i)
  /\ op # "idle" => on \notin calling
  /\ op = "start" => pid[on] = NoPid
  /\ op \in {"term", "poll"} => Holds(on)
  /\ op \in {"kill", "reap"} => pid[on] # NoPid /\ (Live(pid[on]) => Holds(on))

IndInv == TypeOK /\ Numbered /\ Distinct /\ Owned /\ Engaged /\ OwnSignals

-----------------------------------------------------------------------------
(* What signals and waits meet *)

\* A signal adds what has the pid, which is harmless unless it is the REPL of
\* another instance, or another program's process that gets SIGTERM.
LEMMA SignalsMeet ==
  ASSUME strayed \subseteq Meeting, NEW i \in Inst, NEW sig, Signals(i, sig)
  PROVE  /\ strayed' \subseteq Meeting
         /\ ~Stray(i) /\ os[pid[i]] # "foreign" => strayed' = strayed
         /\ ~Stray(i) /\ sig = "sigkill" /\ OwnSignals => OwnSignals'
<1>1. strayed' \subseteq Meeting /\ (~Stray(i) /\ os[pid[i]] # "foreign" => strayed' = strayed)
  BY DEF Signals
<1>2. ASSUME ~Stray(i), sig = "sigkill", OwnSignals, NEW m \in strayed'
      PROVE  m = [by |-> "sigkill", whom |-> "foreign"]
  <2>1. m \in strayed \/ (m \in Meeting /\ m.by = "sigkill" /\ m.whom # "repl")
    BY <1>2 DEF Signals
  <2> QED
    BY <1>2, <2>1 DEF OwnSignals, Meeting
<1> QED
  BY <1>1, <1>2 DEF OwnSignals

\* A wait for a process of i's own, or for none, adds nothing.
LEMMA WaitsMeet ==
  ASSUME strayed \subseteq Meeting, NEW i \in Inst, WaitsFor(i)
  PROVE  /\ strayed' \subseteq Meeting
         /\ ~Stray(i) => strayed' = strayed
BY DEF WaitsFor

-----------------------------------------------------------------------------
(* Types *)

\* What the end of a shutdown() leaves has the types.
LEMMA ClosesTypes ==
  ASSUME TypeOK, Engaged, op \in {"newline", "reap"}, Closes
  PROVE  /\ exists' \subseteq Inst /\ calling' \subseteq exists'
         /\ pid' \in [Inst -> Pid \cup {NoPid}] /\ child' \in [Inst -> 0..MaxStarts]
         /\ op' \in Ops /\ on' \in Inst /\ then' \in {"idle", "start", "drop"}
         /\ op' \notin {"term", "poll", "kill", "reap"}
         /\ killed' \in BOOLEAN
<1>1. on \notin calling
  BY DEF Engaged
<1>2. exists' \subseteq Inst /\ calling' \subseteq exists'
  BY <1>1 DEF TypeOK, Closes
<1>3. op' \in {"start", "idle"}
  BY DEF Closes
<1> QED
  BY <1>2, <1>3 DEF TypeOK, Closes, Ops

\* Every step keeps the types.
LEMMA TypeNext ==
  ASSUME TypeOK, Numbered, Engaged, [Next]_vars
  PROVE  TypeOK'
<1> USE FleetAssumption DEF kernel, clients, manager
<1>1. ASSUME NEW i \in Inst, NEW o \in {"start", "newline"},
             NEW next \in {"idle", "start", "drop"}, Begins(i, o, next)
      PROVE  TypeOK'
  BY <1>1 DEF Begins, TypeOK, Ops
<1>2. CASE StartForks
  <2>1. started + 1 \in 0..MaxStarts
    BY <1>2 DEF StartForks, TypeOK
  <2>2. /\ os' \in [Pid -> {"free", "running", "zombie", "foreign"}]
        /\ proc' \in [Pid -> 0..MaxStarts]
        /\ pid' \in [Inst -> Pid \cup {NoPid}] /\ child' \in [Inst -> 0..MaxStarts]
    BY <1>2, <2>1 DEF StartForks, TypeOK
  <2> QED
    BY <1>2, <2>1, <2>2 DEF StartForks, TypeOK, Ops
<1>3. CASE StartFails
  BY <1>3 DEF StartFails, TypeOK, Ops
<1>4. CASE NoProcess
  BY <1>4, ClosesTypes DEF NoProcess, At, TypeOK
<1>5. CASE Newline
  BY <1>5 DEF Newline, ReplReads, TypeOK, Ops
<1>6. CASE NewlineSigpipe
  BY <1>6 DEF NewlineSigpipe, TypeOK
<1>7. CASE SendsSigterm
  <2>1. os[pid[on]] = "running" => proc[pid[on]] \in 1..MaxStarts
    BY <1>7 DEF SendsSigterm, At, Engaged, Holds, Live, Numbered, TypeOK
  <2> QED
    BY <1>7, <2>1, SignalsMeet DEF SendsSigterm, At, TypeOK, Ops
<1>8. CASE PollReaps
  BY <1>8, WaitsMeet DEF PollReaps, At, TypeOK, Ops
<1>9. CASE PollGivesUp
  BY <1>9 DEF PollGivesUp, At, TypeOK, Ops
<1>10. CASE SendsSigkill
  BY <1>10, SignalsMeet DEF SendsSigkill, At, TypeOK, Ops
<1>11. CASE Reaps
  <2>1. os' \in [Pid -> {"free", "running", "zombie", "foreign"}] /\ strayed' \subseteq Meeting
    BY <1>11, WaitsMeet DEF Reaps, At, TypeOK
  <2> QED
    BY <1>11, <2>1, ClosesTypes DEF Reaps, At, TypeOK
<1>12. ASSUME NEW i \in Inst, WorkerStep(i)
       PROVE  TypeOK'
  BY <1>12, WaitsMeet DEF WorkerStep, CallWrites, CallSigpipe, CallReturns, CallFails, MayCall,
               TypeOK
<1>13. ASSUME NEW p \in Pid, ReplDies(p) \/ ForeignChanges(p)
       PROVE  TypeOK'
  BY <1>13 DEF ReplDies, ForeignChanges, TypeOK
<1>14. CASE UNCHANGED vars
  BY <1>14 DEF vars, TypeOK
<1> QED
  BY <1>1, <1>2, <1>3, <1>4, <1>5, <1>6, <1>7, <1>8, <1>9, <1>10, <1>11, <1>12, <1>13, <1>14
  DEF Next, ManagerStep, Spawn, Restore, Shutdown, Destroy

-----------------------------------------------------------------------------
(* Numbers *)

\* Processes end in steps that start none.
LEMMA NumbersKept ==
  ASSUME Numbered, Distinct, UNCHANGED <<proc, started, child>>,
         \A p \in Pid : Live(p)' => Live(p)
  PROVE  Numbered' /\ Distinct'
BY DEF Numbered, Distinct

\* A process that is started gets a number of its own.
LEMMA NumbersNext ==
  ASSUME TypeOK, Numbered, Distinct, [Next]_vars
  PROVE  Numbered' /\ Distinct'
<1> USE DEF kernel, clients, manager
<1>1. CASE StartForks
  <2> DEFINE n == started + 1
  <2>1. PICK p \in Pid : /\ os[p] = "free"
                         /\ os' = [os EXCEPT ![p] = "running"]
                         /\ proc' = [proc EXCEPT ![p] = n]
    BY <1>1 DEF StartForks
  <2>2. started \in Nat /\ started' = n /\ n > 0 /\ n > started
    BY <1>1, FleetAssumption DEF StartForks, TypeOK
  <2> HIDE DEF n
  <2>3. /\ \A q \in Pid : proc[q] \in Nat /\ proc[q] <= started
        /\ \A i \in Inst : child[i] \in Nat /\ child[i] <= started
    BY FleetAssumption DEF TypeOK, Numbered
  <2>4. \A q \in Pid : proc'[q] = IF q = p THEN n ELSE proc[q]
    BY <2>1 DEF TypeOK
  <2>5. \A i \in Inst : child'[i] = IF i = on THEN n ELSE child[i]
    BY <1>1 DEF StartForks, TypeOK, n
  <2>6. \A q \in Pid : Live(q)' => q = p \/ Live(q)
    BY <2>1 DEF Live, TypeOK
  <2>7. n \in Nat
    BY <2>2 DEF n
  <2>8. Numbered'
    BY <2>2, <2>3, <2>4, <2>5, <2>6, <2>7 DEF Numbered
  <2>9. Distinct'
    BY <2>2, <2>3, <2>4, <2>5, <2>7 DEF Distinct
  <2> QED
    BY <2>8, <2>9
<1>2. CASE UNCHANGED <<os, proc, started, child>>
  BY <1>2 DEF Numbered, Distinct, Live
<1>3. ASSUME PollReaps \/ SendsSigkill \/ Reaps \/ (\E i \in Inst : CallFails(i))
             \/ (\E p \in Pid : ReplDies(p) \/ ForeignChanges(p))
      PROVE  \A p \in Pid : Live(p)' => Live(p)
  BY <1>3 DEF PollReaps, SendsSigkill, Reaps, CallFails, ReplDies, ForeignChanges, TypeOK, Live
<1>4. CASE PollReaps \/ SendsSigkill \/ Reaps \/ (\E i \in Inst : CallFails(i))
           \/ (\E p \in Pid : ReplDies(p) \/ ForeignChanges(p))
  <2>1. UNCHANGED <<proc, started, child>>
    BY <1>4 DEF PollReaps, SendsSigkill, Reaps, Closes, CallFails, ReplDies, ForeignChanges
  <2> QED
    BY <1>3, <1>4, <2>1, NumbersKept
<1> QED
  BY <1>1, <1>2, <1>4
  DEF Next, ManagerStep, WorkerStep, Spawn, Restore, Shutdown, Destroy, Begins, StartFails,
      NoProcess, Closes, Newline, NewlineSigpipe, SendsSigterm, PollGivesUp, CallWrites,
      CallSigpipe, CallReturns, vars

-----------------------------------------------------------------------------
(* Owners *)

\* Of two instances that have their process at the same pid.
LEMMA OneHolder ==
  ASSUME TypeOK, Numbered, Distinct, NEW i \in Inst, NEW j \in Inst,
         Holds(i), Holds(j), pid[i] = pid[j]
  PROVE  i = j
BY DEF TypeOK, Numbered, Distinct, Holds

\* Only a wait of the owner makes its process go before it forgets the pid.
LEMMA OwnedNext ==
  ASSUME TypeOK, Numbered, Distinct, Owned, Engaged, [Next]_vars
  PROVE  Owned'
<1> USE DEF kernel, clients, manager
<1>1. CASE StartForks
  <2> DEFINE n == started + 1
  <2>1. PICK p \in Pid : /\ os[p] = "free"
                         /\ os' = [os EXCEPT ![p] = "running"]
                         /\ proc' = [proc EXCEPT ![p] = n]
                         /\ pid' = [pid EXCEPT ![on] = p]
    BY <1>1 DEF StartForks
  <2>2. child' = [child EXCEPT ![on] = n] /\ pid[on] = NoPid /\ on \in Inst
    BY <1>1 DEF StartForks, At, Engaged, TypeOK
  <2> HIDE DEF n
  <2>3. pid'[on] = p /\ child'[on] = n /\ proc'[p] = n
    BY <2>1, <2>2 DEF TypeOK
  <2>4. ASSUME NEW q \in Pid, Live(q)', q # p
        PROVE  \E i \in Inst : pid'[i] = q /\ child'[i] = proc'[q]
    <3>1. Live(q) /\ proc'[q] = proc[q]
      BY <2>1, <2>4 DEF Live, TypeOK
    <3>2. PICK i \in Inst : pid[i] = q /\ child[i] = proc[q]
      BY <3>1 DEF Owned
    <3>3. i # on
      BY <2>2, <3>2, FleetAssumption
    <3> QED
      BY <2>1, <2>2, <3>1, <3>2, <3>3 DEF TypeOK
  <2> QED
    BY <2>2, <2>3, <2>4 DEF Owned
<1>2. CASE UNCHANGED <<os, proc, pid, child>>
  BY <1>2 DEF Owned, Live
<1>3. CASE PollReaps \/ SendsSigkill \/ (\E i \in Inst : CallFails(i))
           \/ (\E p \in Pid : ReplDies(p) \/ ForeignChanges(p))
  <2>1. UNCHANGED <<proc, pid, child>>
    BY <1>3 DEF PollReaps, SendsSigkill, CallFails, ReplDies, ForeignChanges
  <2>2. \A p \in Pid : Live(p)' => Live(p)
    BY <1>3 DEF PollReaps, SendsSigkill, CallFails, ReplDies, ForeignChanges, TypeOK, Live
  <2> QED
    BY <2>1, <2>2 DEF Owned
<1>4. CASE NoProcess
  <2>1. UNCHANGED <<os, proc, child>> /\ pid[on] = NoPid /\ pid' = [pid EXCEPT ![on] = NoPid]
    BY <1>4 DEF NoProcess, Closes
  <2>2. UNCHANGED pid
    BY <2>1 DEF TypeOK
  <2> QED
    BY <1>2, <2>1, <2>2
<1>5. CASE Reaps
  <2>1. /\ UNCHANGED <<proc, child>> /\ pid' = [pid EXCEPT ![on] = NoPid]
        /\ os[pid[on]] # "running" /\ pid[on] # NoPid
        /\ os' = [os EXCEPT ![pid[on]] = IF @ = "zombie" THEN "free" ELSE @]
    BY <1>5 DEF Reaps, At, Closes, TypeOK
  <2>2. ASSUME NEW p \in Pid, Live(p)'
        PROVE  Live(p) /\ p # pid[on]
    BY <2>1, <2>2 DEF Live, TypeOK
  <2> QED
    BY <2>1, <2>2 DEF Owned, TypeOK
<1> QED
  BY <1>1, <1>2, <1>3, <1>4, <1>5
  DEF Next, ManagerStep, WorkerStep, Spawn, Restore, Shutdown, Destroy, Begins, StartFails,
      Newline, NewlineSigpipe, SendsSigterm, PollGivesUp, CallWrites, CallSigpipe, CallReturns,
      vars

-----------------------------------------------------------------------------
(* Who is engaged *)

\* A process that dies, or is reaped by another instance, stays with those
\* that hold theirs.
LEMMA HoldsKept ==
  ASSUME TypeOK, UNCHANGED <<pid, child, proc>>, NEW i \in Inst, Holds(i),
         os'[pid[i]] \in {os[pid[i]], "zombie"}
  PROVE  Holds(i)'
BY DEF TypeOK, Holds, Live

\* Somebody reaps the process of i: no other instance has lost its own.
LEMMA ReapsOwn ==
  ASSUME TypeOK, Numbered, Distinct, UNCHANGED <<pid, child, proc>>,
         NEW i \in Inst, Holds(i), os' = [os EXCEPT ![pid[i]] = "free"],
         NEW j \in Inst, j # i
  PROVE  /\ Holds(j) => Holds(j)'
         /\ pid[j] # NoPid /\ (Live(pid[j]) => Holds(j)) => (Live(pid[j])' => Holds(j)')
<1>1. pid[i] \in Pid /\ \A p \in Pid : p # pid[i] => os'[p] = os[p]
  BY DEF Holds, TypeOK
<1>2. Holds(j) => pid[j] # pid[i]
  BY OneHolder
<1>3. Holds(j) => Holds(j)'
  BY <1>1, <1>2 DEF Holds, Live, TypeOK
<1>4. pid[j] # NoPid /\ Live(pid[j])' => Live(pid[j])
  BY <1>1 DEF Live, TypeOK
<1> QED
  BY <1>3, <1>4

\* Every step keeps the signals where they belong.
LEMMA EngagedNext ==
  ASSUME TypeOK, Numbered, Distinct, Engaged, OwnSignals, [Next]_vars
  PROVE  Engaged' /\ OwnSignals'
<1> USE DEF kernel, clients, manager
<1>0. \A i \in calling : i \in Inst /\ Holds(i)
  BY DEF TypeOK, Engaged
<1>1. ASSUME NEW i \in Inst, NEW o \in {"start", "newline"},
             NEW next \in {"idle", "start", "drop"}, Begins(i, o, next),
             o = "start" => pid[i] = NoPid
      PROVE  Engaged' /\ OwnSignals'
  BY <1>1 DEF Begins, Engaged, OwnSignals, Holds, Live
<1>2. CASE StartForks
  <2>1. PICK p \in Pid : /\ os[p] = "free"
                         /\ os' = [os EXCEPT ![p] = "running"]
                         /\ proc' = [proc EXCEPT ![p] = started + 1]
                         /\ pid' = [pid EXCEPT ![on] = p]
    BY <1>2 DEF StartForks
  <2>2. /\ child' = [child EXCEPT ![on] = started + 1] /\ op' = "idle"
        /\ UNCHANGED <<calling, strayed>> /\ on \notin calling
    BY <1>2 DEF StartForks, At, Engaged
  <2>3. ASSUME NEW i \in calling
        PROVE  Holds(i)'
    <3>1. i # on /\ i \in Inst /\ Holds(i)
      BY <1>0, <2>2
    <3>2. pid[i] # p
      BY <2>1, <3>1 DEF Holds, Live
    <3> QED
      BY <2>1, <2>2, <3>1, <3>2 DEF Holds, Live, TypeOK
  <2> QED
    BY <2>2, <2>3 DEF Engaged, OwnSignals
<1>3. CASE StartFails
  BY <1>3 DEF StartFails, Engaged, OwnSignals, Holds, Live
<1>4. CASE NoProcess
  <2>1. /\ UNCHANGED <<os, proc, child, calling, on, strayed>> /\ pid[on] = NoPid
        /\ pid' = [pid EXCEPT ![on] = NoPid] /\ op' \in {"start", "idle"} /\ on \notin calling
    BY <1>4 DEF NoProcess, At, Closes, Engaged
  <2>2. UNCHANGED pid
    BY <2>1 DEF TypeOK
  <2> QED
    BY <2>1, <2>2 DEF Engaged, OwnSignals, Holds, Live
<1>5. CASE Newline
  BY <1>5 DEF Newline, At, ReplReads, Engaged, OwnSignals, Holds, Live
<1>6. CASE NewlineSigpipe
  BY <1>6 DEF NewlineSigpipe, Engaged, OwnSignals, Holds, Live
<1>7. CASE SendsSigterm
  <2>1. /\ op = "term" /\ Signals(on, "sigterm") /\ op' = "poll" /\ on \in Inst /\ Holds(on)
        /\ UNCHANGED <<os, proc, pid, child, calling, on>>
    BY <1>7 DEF SendsSigterm, At, Engaged, TypeOK
  <2>2. ~Stray(on) /\ os[pid[on]] # "foreign" /\ strayed \subseteq Meeting
    BY <2>1 DEF Holds, Live, Stray, TypeOK
  <2>3. OwnSignals'
    BY <2>1, <2>2, SignalsMeet DEF OwnSignals
  <2> QED
    BY <2>1, <2>3 DEF Engaged, Holds, Live
<1>8. CASE PollReaps
  <2>1. /\ op = "poll" /\ os' = [os EXCEPT ![pid[on]] = "free"] /\ WaitsFor(on)
        /\ op' = "kill" /\ UNCHANGED <<proc, pid, child, calling, on>>
        /\ on \in Inst /\ on \notin calling /\ Holds(on)
    BY <1>8 DEF PollReaps, At, Engaged, TypeOK
  <2>2. \A i \in calling : Holds(i)'
    BY <1>0, <2>1, ReapsOwn
  <2>3. ~Live(pid[on])' /\ pid[on] # NoPid
    BY <2>1 DEF Holds, Live, TypeOK
  <2>4. OwnSignals'
    BY <2>1, WaitsMeet DEF Holds, Stray, OwnSignals, TypeOK
  <2> QED
    BY <2>1, <2>2, <2>3, <2>4 DEF Engaged
<1>9. CASE PollGivesUp
  BY <1>9 DEF PollGivesUp, At, Engaged, OwnSignals, Holds, Live
<1>10. CASE SendsSigkill
  <2>1. /\ op = "kill" /\ Signals(on, "sigkill") /\ op' = "reap"
        /\ os' = [os EXCEPT ![pid[on]] = IF @ = "running" THEN "zombie" ELSE @]
        /\ UNCHANGED <<proc, pid, child, calling, on>>
        /\ on \in Inst /\ on \notin calling
        /\ pid[on] # NoPid /\ (Live(pid[on]) => Holds(on))
    BY <1>10 DEF SendsSigkill, At, Engaged, TypeOK
  <2>2. \A p \in Pid : os'[p] \in {os[p], "zombie"} /\ (Live(p)' => Live(p))
    BY <2>1 DEF Live, TypeOK
  <2>3. \A i \in Inst : Holds(i) => Holds(i)'
    BY <2>1, <2>2, HoldsKept DEF TypeOK, Holds
  <2>4. Live(pid[on])' => Live(pid[on])
    BY <2>1, <2>2 DEF TypeOK
  <2>5. OwnSignals'
    <3>1. ~Stray(on) /\ strayed \subseteq Meeting
      BY <2>1 DEF Holds, Live, Stray, TypeOK
    <3> QED
      BY <2>1, <3>1, SignalsMeet
  <2> QED
    BY <1>0, <2>1, <2>3, <2>4, <2>5 DEF Engaged
<1>11. CASE Reaps
  <2>1. /\ op = "reap" /\ os[pid[on]] # "running" /\ WaitsFor(on) /\ UNCHANGED <<proc, child, calling, on>>
        /\ os' = [os EXCEPT ![pid[on]] = IF @ = "zombie" THEN "free" ELSE @]
        /\ pid' = [pid EXCEPT ![on] = NoPid] /\ op' \in {"start", "idle"}
        /\ on \in Inst /\ on \notin calling
        /\ pid[on] # NoPid /\ (Live(pid[on]) => Holds(on))
    BY <1>11 DEF Reaps, At, Closes, Engaged, TypeOK
  <2>2. ASSUME NEW i \in calling
        PROVE  Holds(i)'
    <3>1. i \in Inst /\ i # on /\ Holds(i)
      BY <1>0, <2>1
    <3>2. pid[i] # pid[on]
      BY <2>1, <3>1, OneHolder DEF Holds
    <3> QED
      BY <2>1, <3>1, <3>2 DEF Holds, Live, TypeOK
  <2>3. pid'[on] = NoPid
    BY <2>1 DEF TypeOK
  <2>4. OwnSignals'
    BY <2>1, WaitsMeet DEF Holds, Live, Stray, OwnSignals, TypeOK
  <2> QED
    BY <2>1, <2>2, <2>3, <2>4 DEF Engaged
<1>12. ASSUME NEW i \in Inst, CallWrites(i) \/ CallSigpipe(i) \/ CallReturns(i)
       PROVE  Engaged' /\ OwnSignals'
  BY <1>12 DEF CallWrites, CallSigpipe, CallReturns, MayCall, ReplReads, Engaged, OwnSignals,
               Holds, Live
<1>13. ASSUME NEW i \in Inst, CallFails(i)
       PROVE  Engaged' /\ OwnSignals'
  <2>1. /\ calling' = calling \ {i} /\ UNCHANGED <<proc, pid, child, op, on>>
        /\ i \in calling /\ Holds(i)
        /\ op # "idle" => on # i
        /\ on \in Inst
    BY <1>0, <1>13 DEF CallFails, Engaged, TypeOK
  <2>2. CASE UNCHANGED <<os, strayed>>
    BY <2>1, <2>2 DEF Engaged, OwnSignals, Holds, Live
  <2>3. CASE os' = [os EXCEPT ![pid[i]] = "free"] /\ WaitsFor(i)
    <3>1. \A j \in calling' : Holds(j)'
      BY <1>0, <2>1, <2>3, ReapsOwn
    <3>2. op \in {"term", "poll"} => Holds(on)'
      BY <2>1, <2>3, ReapsOwn DEF Engaged
    <3>3. op \in {"kill", "reap"} => pid[on] # NoPid /\ (Live(pid[on])' => Holds(on)')
      BY <2>1, <2>3, ReapsOwn DEF Engaged
    <3>4. Engaged'
      BY <2>1, <3>1, <3>2, <3>3 DEF Engaged
    <3> QED
      BY <2>1, <2>3, <3>4, WaitsMeet DEF OwnSignals, Stray, Holds, TypeOK
  <2> QED
    BY <1>13, <2>2, <2>3 DEF CallFails
<1>14. ASSUME NEW p \in Pid, ReplDies(p) \/ ForeignChanges(p)
       PROVE  Engaged' /\ OwnSignals'
  <2>1. /\ UNCHANGED <<proc, pid, child, calling, op, on, strayed>>
        /\ \A q \in Pid : /\ Live(q)' => Live(q)
                          /\ Live(q) => os'[q] \in {os[q], "zombie"}
    BY <1>14 DEF ReplDies, ForeignChanges, Live, TypeOK
  <2>2. \A i \in Inst : Holds(i) => Holds(i)'
    BY <2>1, HoldsKept DEF TypeOK, Holds
  <2>3. on \in Inst /\ (pid[on] # NoPid /\ Live(pid[on])' => Live(pid[on]))
    BY <2>1 DEF TypeOK
  <2> QED
    BY <1>0, <2>1, <2>2, <2>3 DEF Engaged, OwnSignals
<1>15. CASE UNCHANGED vars
  BY <1>15 DEF vars, Engaged, OwnSignals, Holds, Live
<1> QED
  BY <1>1, <1>2, <1>3, <1>4, <1>5, <1>6, <1>7, <1>8, <1>9, <1>10, <1>11, <1>12, <1>13, <1>14,
     <1>15
  DEF Next, ManagerStep, WorkerStep, Spawn, Restore, Shutdown, Destroy

-----------------------------------------------------------------------------

\* Before the first start there is no process at all.
LEMMA InitInv == Init => IndInv
<1> SUFFICES ASSUME Init PROVE IndInv
  OBVIOUS
<1> USE FleetAssumption DEF Init
<1>1. TypeOK
  <2>1. /\ os \in [Pid -> {"free", "running", "zombie", "foreign"}]
        /\ proc \in [Pid -> 0..MaxStarts] /\ started \in 0..MaxStarts
        /\ pid \in [Inst -> Pid \cup {NoPid}] /\ child \in [Inst -> 0..MaxStarts]
    OBVIOUS
  <2> QED
    BY <2>1 DEF TypeOK, Ops
<1>2. Numbered /\ Distinct /\ Owned
  BY DEF Numbered, Distinct, Owned, Live
<1>3. Engaged /\ OwnSignals
  BY DEF Engaged, OwnSignals
<1> QED
  BY <1>1, <1>2, <1>3 DEF IndInv

\* The inductive invariant: IndInv holds for ever.
THEOREM Invariance == Spec => []IndInv
<1>1. IndInv /\ [Next]_vars => IndInv'
  BY TypeNext, NumbersNext, OwnedNext, EngagedNext DEF IndInv
<1> QED
  BY InitInv, <1>1, PTL DEF Spec

\* The variables of the fleet have their types: in particular a shutdown()
\* beyond its first step has a pid to send signals to.
THEOREM TypeCorrect == Spec => []TypeOK
<1>1. IndInv => TypeOK
  BY DEF IndInv
<1> QED
  BY <1>1, Invariance, PTL

\* No instance signals or reaps the REPL of another one, or sends SIGTERM to
\* another program, whatever pids the kernel gives out and whenever processes
\* die: all that can go astray is the SIGKILL.
THEOREM SignalsStayOwn == Spec => []OwnSignals
<1>1. IndInv => OwnSignals
  BY DEF IndInv
<1> QED
  BY <1>1, Invariance, PTL

\* Every process that is not reaped has one client, and only one, that
\* started it and has its pid.
THEOREM ChildrenOwned == Spec => []EveryChildOwned
<1>1. IndInv => EveryChildOwned
  <2> SUFFICES ASSUME IndInv, NEW p \in Pid, Live(p)
               PROVE  \E i \in Inst : /\ pid[i] = p /\ child[i] = proc[p]
                                      /\ \A j \in Inst \ {i} : child[j] # proc[p]
    BY DEF EveryChildOwned, Live
  <2>1. PICK i \in Inst : pid[i] = p /\ child[i] = proc[p]
    BY DEF IndInv, Owned
  <2>2. proc[p] # 0
    BY DEF IndInv, TypeOK, Numbered
  <2> QED
    BY <2>1, <2>2 DEF IndInv, Distinct
<1> QED
  BY <1>1, Invariance, PTL
=============================================================================
