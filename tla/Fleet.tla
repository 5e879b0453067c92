-------------------------------- MODULE Fleet --------------------------------
(***************************************************************************)
(* The instances of one orchestrator and the process table they share:     *)
(* spawn, restore, shutdown and destroy (src/instance_manager.cpp), and    *)
(* what start, shutdown and a failed call do with pids, signals and        *)
(* waitpid (src/pantograph_bridge.cpp).                                    *)
(*                                                                         *)
(* One thread manages the instances; each instance that it is not at may   *)
(* be in a call of its own worker.  That is how the orchestrator uses them *)
(* (WorkersConfined of Pipeline), but for restore and destroy, which it    *)
(* does not call at this commit.                                           *)
(*                                                                         *)
(* A pid is free again once its process has been reaped, and the kernel    *)
(* may give it to the next process.  Processes are numbered in the order   *)
(* of their start, so that the model can tell them apart when their pids   *)
(* do not.  Pipes, replies, and a start() that hangs are the subject of    *)
(* PantographBridge.                                                       *)
(***************************************************************************)
EXTENDS Integers, FiniteSets

CONSTANTS
  Inst,       \* the instances
  Pid,        \* the pids
  NoPid,      \* pid_ of a client without a process
  MaxStarts,  \* bound on the number of processes started
  Faults      \* what may happen, a subset of FaultKind

FaultKind == {"nofork",   \* start() returns FALSE
              "crash",    \* a REPL dies
              "foreign"}  \* other programs take and free pids

ASSUME FleetAssumption ==
  /\ NoPid \notin Pid
  /\ MaxStarts \in Nat
  /\ Faults \subseteq FaultKind

VARIABLES
  os,       \* what the kernel has at each pid
  proc,     \* the number of the REPL process there, while there is one
  started,  \* number of processes started
  termed,   \* the processes that SIGTERM was sent to
  exists,   \* the instances whose client_ is not null
  pid,      \* pid_ of each client
  child,    \* the process that the client has started last
  calling,  \* the instances whose worker is inside call()
  op,       \* what the manager is about to do
  on,       \* the instance it is at
  then,     \* what follows the shutdown() that it is in
  killed,   \* whether SIGPIPE has ended the orchestrator
  strayed   \* history: the signals and waits of an instance that met a process not its own

kernel  == <<os, proc, started, termed>>
clients == <<exists, pid, child>>
manager == <<op, on, then>>
vars    == <<kernel, clients, calling, manager, killed, strayed>>

\* What a signal or a wait has met: the REPL of another instance, or a
\* process of another program.
Meeting == [by : {"sigterm", "sigkill", "wait"}, whom : {"repl", "foreign"}]

Ops == {"idle", "start", "newline", "term", "poll", "kill", "reap"}

\* The types of the variables.  While the manager is in a shutdown() beyond
\* its first step, the client has a pid.
TypeOK ==
  /\ os \in [Pid -> {"free", "running", "zombie", "foreign"}]
  /\ proc \in [Pid -> 0..MaxStarts] /\ started \in 0..MaxStarts
  /\ termed \subseteq 1..MaxStarts
  /\ exists \subseteq Inst /\ calling \subseteq exists
  /\ pid \in [Inst -> Pid \cup {NoPid}] /\ child \in [Inst -> 0..MaxStarts]
  /\ op \in Ops /\ on \in Inst /\ then \in {"idle", "start", "drop"}
  /\ op \in {"term", "poll", "kill", "reap"} => pid[on] # NoPid
  /\ killed \in BOOLEAN /\ strayed \subseteq Meeting

Init ==
  /\ os = [p \in Pid |-> "free"] /\ proc = [p \in Pid |-> 0]
  /\ started = 0 /\ termed = {}
  /\ exists = Inst
  /\ pid = [i \in Inst |-> NoPid] /\ child = [i \in Inst |-> 0]
  /\ calling = {}
  /\ op = "idle" /\ on \in Inst /\ then = "idle"
  /\ killed = FALSE /\ strayed = {}

\* The REPL that i has started runs: somebody reads what is written to it.
ReplReads(i) == pid[i] # NoPid /\ os[pid[i]] = "running" /\ proc[pid[i]] = child[i]

\* The pid of i is that of a process that another instance has started.
Stray(i) == os[pid[i]] \in {"running", "zombie"} /\ proc[pid[i]] # child[i]

\* A signal of i reaches whatever has its pid.
Signals(i, sig) ==
  strayed' = strayed \cup
    {m \in Meeting : /\ m.by = sig
                     /\ IF m.whom = "repl" THEN Stray(i) ELSE os[pid[i]] = "foreign"}

\* A wait of i meets only children of the orchestrator.
WaitsFor(i) ==
  strayed' = strayed \cup {m \in Meeting : m.by = "wait" /\ m.whom = "repl" /\ Stray(i)}

-----------------------------------------------------------------------------
(* Operations of the manager *)

\* No heed is paid to a worker that is in a call.
BeginsRegardless(i, o, next) ==
  /\ ~killed /\ op = "idle"
  /\ i \in exists
  /\ on' = i /\ op' = o /\ then' = next
  /\ UNCHANGED <<kernel, clients, calling, killed, strayed>>

Begins(i, o, next) ==
  /\ ~killed /\ op = "idle"
  /\ i \in exists \ calling
  /\ on' = i /\ op' = o /\ then' = next
  /\ UNCHANGED <<kernel, clients, calling, killed, strayed>>

\* spawn() is for instances that are not alive().
Spawn(i) == pid[i] = NoPid /\ Begins(i, "start", "idle")

\* The snapshot to restore is there: shutdown(), a new client, start().
Restore(i) == Begins(i, "newline", "start")

\* By shutdown_all(), or by the destructor of the instance.
Shutdown(i) == Begins(i, "newline", "idle")

\* shutdown(), and client_ is reset.  Its files are left out.
Destroy(i) == Begins(i, "newline", "drop")

At(o) == ~killed /\ op = o

\* start(): fork() gives some pid that is free.
StartForks ==
  /\ At("start") /\ started < MaxStarts
  /\ \E p \in Pid :
       /\ os[p] = "free"
       /\ os' = [os EXCEPT ![p] = "running"]
       /\ proc' = [proc EXCEPT ![p] = started + 1]
       /\ pid' = [pid EXCEPT ![on] = p]
  /\ started' = started + 1
  /\ child' = [child EXCEPT ![on] = started + 1]
  /\ op' = "idle"
  /\ UNCHANGED <<termed, exists, calling, on, then, killed, strayed>>

StartFails ==
  /\ At("start") /\ "nofork" \in Faults
  /\ op' = "idle"
  /\ UNCHANGED <<kernel, clients, calling, on, then, killed, strayed>>

-----------------------------------------------------------------------------
(* shutdown() of the client of on *)

\* The end of shutdown(), and what its caller does next.
Closes ==
  /\ pid' = [pid EXCEPT ![on] = NoPid]
  /\ op' = IF then = "start" THEN "start" ELSE "idle"
  /\ exists' = IF then = "drop" THEN exists \ {on} ELSE exists
  /\ UNCHANGED <<child, calling, on, then, killed>>

NoProcess ==
  /\ At("newline") /\ pid[on] = NoPid
  /\ Closes
  /\ UNCHANGED <<kernel, strayed>>

\* SIGPIPE is ignored, and the write really is best-effort.
NewlineBestEffort ==
  /\ At("newline") /\ pid[on] # NoPid
  /\ op' = "term"
  /\ UNCHANGED <<kernel, clients, calling, on, then, killed, strayed>>

Newline ==
  /\ At("newline") /\ ReplReads(on)
  /\ op' = "term"
  /\ UNCHANGED <<kernel, clients, calling, on, then, killed, strayed>>

NewlineSigpipe ==
  /\ At("newline") /\ pid[on] # NoPid /\ ~ReplReads(on)
  /\ killed' = TRUE
  /\ UNCHANGED <<kernel, clients, calling, manager, strayed>>

SendsSigterm ==
  /\ At("term")
  /\ termed' = IF os[pid[on]] = "running" THEN termed \cup {proc[pid[on]]} ELSE termed
  /\ Signals(on, "sigterm")
  /\ op' = "poll"
  /\ UNCHANGED <<os, proc, started, clients, calling, on, then, killed>>

PollReaps ==
  /\ At("poll") /\ os[pid[on]] = "zombie"
  /\ os' = [os EXCEPT ![pid[on]] = "free"]
  /\ WaitsFor(on)
  /\ op' = "kill"
  /\ UNCHANGED <<proc, started, termed, clients, calling, on, then, killed>>

\* Two and a half seconds have passed.
PollGivesUp ==
  /\ At("poll") /\ os[pid[on]] # "zombie"
  /\ op' = "kill"
  /\ UNCHANGED <<kernel, clients, calling, on, then, killed, strayed>>

\* SIGKILL, whether or not the process has been reaped.
SendsSigkill ==
  /\ At("kill")
  /\ os' = [os EXCEPT ![pid[on]] = IF @ = "running" THEN "zombie" ELSE @]
  /\ Signals(on, "sigkill")
  /\ op' = "reap"
  /\ UNCHANGED <<proc, started, termed, clients, calling, on, then, killed>>

\* No wait after the last signal.
LeavesZombie ==
  /\ At("reap")
  /\ Closes
  /\ UNCHANGED <<kernel, strayed>>

\* waitpid() without WNOHANG: it returns at once if there is no such child.
Reaps ==
  /\ At("reap") /\ os[pid[on]] # "running"
  /\ os' = [os EXCEPT ![pid[on]] = IF @ = "zombie" THEN "free" ELSE @]
  /\ WaitsFor(on)
  /\ Closes
  /\ UNCHANGED <<proc, started, termed>>

-----------------------------------------------------------------------------
(* Calls of the workers *)

MayCall(i) ==
  /\ ~killed
  /\ i \in exists \ calling /\ pid[i] # NoPid
  /\ op # "idle" => on # i

CallWrites(i) ==
  /\ MayCall(i) /\ ReplReads(i)
  /\ calling' = calling \cup {i}
  /\ UNCHANGED <<kernel, clients, manager, killed, strayed>>

CallSigpipe(i) ==
  /\ MayCall(i) /\ ~ReplReads(i)
  /\ killed' = TRUE
  /\ UNCHANGED <<kernel, clients, calling, manager, strayed>>

\* With a reply, or past its deadline: waitpid() with WNOHANG finds nothing.
CallReturns(i) ==
  /\ ~killed /\ i \in calling /\ ReplReads(i)
  /\ calling' = calling \ {i}
  /\ UNCHANGED <<kernel, clients, manager, killed, strayed>>

\* At the end of the pipe.  The process may be reaped now; pid_ stays as it
\* is either way.
CallFails(i) ==
  /\ ~killed /\ i \in calling /\ ~ReplReads(i)
  /\ calling' = calling \ {i}
  /\ \/ /\ os[pid[i]] = "zombie"
        /\ os' = [os EXCEPT ![pid[i]] = "free"]
        /\ WaitsFor(i)
     \/ UNCHANGED <<os, strayed>>
  /\ UNCHANGED <<proc, started, termed, clients, manager, killed>>

-----------------------------------------------------------------------------
(* The processes *)

ReplDies(p) ==
  /\ os[p] = "running" /\ ("crash" \in Faults \/ proc[p] \in termed)
  /\ os' = [os EXCEPT ![p] = "zombie"]
  /\ UNCHANGED <<proc, started, termed, clients, calling, manager, killed, strayed>>

\* Another program gets a pid, or ends.
ForeignChanges(p) ==
  /\ "foreign" \in Faults
  /\ \/ os[p] = "free" /\ os' = [os EXCEPT ![p] = "foreign"]
     \/ os[p] = "foreign" /\ os' = [os EXCEPT ![p] = "free"]
  /\ UNCHANGED <<proc, started, termed, clients, calling, manager, killed, strayed>>

-----------------------------------------------------------------------------

ManagerStep ==
  \/ \E i \in Inst : Spawn(i) \/ Restore(i) \/ Shutdown(i) \/ Destroy(i)
  \/ StartForks \/ StartFails
  \/ NoProcess \/ Newline \/ NewlineSigpipe
  \/ SendsSigterm \/ PollReaps \/ PollGivesUp \/ SendsSigkill \/ Reaps

WorkerStep(i) == CallWrites(i) \/ CallSigpipe(i) \/ CallReturns(i) \/ CallFails(i)

Next ==
  \/ ManagerStep
  \/ \E i \in Inst : WorkerStep(i)
  \/ \E p \in Pid : ReplDies(p) \/ ForeignChanges(p)

Spec == Init /\ [][Next]_vars

-----------------------------------------------------------------------------
(* Properties *)

\* No instance ever signals or reaps the REPL of another one, although a
\* failed call may free a pid that pid_ still holds and a restore of another
\* instance may get it; nor does it send SIGTERM to another program.  What
\* stands between the two is SIGPIPE: a client whose REPL is dead ends the
\* orchestrator before it comes to its signals.  What remains is SIGKILL: it
\* is sent also to a pid that the poll has just freed, which may be another
\* program's by then.
OwnSignals == strayed \subseteq {[by |-> "sigkill", whom |-> "foreign"]}

\* A process that the orchestrator has started is not forgotten: until it is
\* reaped some client has its pid, and no two clients have.
EveryChildOwned ==
  ~killed =>
    \A p \in Pid : os[p] \in {"running", "zombie"} =>
      \E i \in Inst : /\ pid[i] = p /\ child[i] = proc[p]
                      /\ \A j \in Inst \ {i} : child[j] # proc[p]

=============================================================================
