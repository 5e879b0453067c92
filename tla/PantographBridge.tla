-------------------------- MODULE PantographBridge --------------------------
(***************************************************************************)
(* PantographClient (src/pantograph_bridge.cpp): one client object, the    *)
(* REPL process it forks and the two pipes between them.                   *)
(*                                                                         *)
(* Owner is the thread that runs start() and shutdown(); the threads of    *)
(* Caller run call().  Each action is one stretch of code between two      *)
(* points where another thread or the REPL can be seen.                    *)
(*                                                                         *)
(* The pipes are positions in streams.  A command is a number, the order   *)
(* in which it was written to the REPL's stdin.  The REPL's stdout is a    *)
(* stream of half lines: line L is the halves 2L and 2L+1, the newline is  *)
(* at the end of the second, and a ::read returns any number of halves     *)
(* that are there (4096 bytes may cut a long line, or hold several short   *)
(* ones).  Lines 0..extra are what the REPL prints on its own, the last    *)
(* of them "ready."; line c + extra is the reply to command c.             *)
(*                                                                         *)
(* What the REPL may do is the constant Faults.  That it may also be       *)
(* silent for ever needs no fault: a specification without fairness for    *)
(* it allows that.                                                         *)
(***************************************************************************)
EXTENDS Integers

CONSTANTS
  Caller,      \* the threads that run call()
  Owner,       \* the thread that runs start() and shutdown()
  Nobody,      \* value of mu when it is free
  MaxCalls,    \* bound on the calls that get as far as taking a seqnum
  Faults       \* the faults of the environment that may occur

FaultKind == {"nofork",      \* pipe() or fork() fails in start()
              "banner",      \* the REPL prints a line before "ready."
              "bootcrash",   \* the REPL exits before it printed "ready."
              "crash",       \* the REPL exits later
              "late"}        \* a read is still waiting at its deadline

ASSUME BridgeAssumption ==
  /\ Owner \notin Caller
  /\ Nobody \notin Caller \cup {Owner}
  /\ MaxCalls \in Nat
  /\ Faults \subseteq FaultKind

VARIABLES
  attached,  \* pid_ > 0 with in_fd_ and out_fd_ open: is_alive()
  mu,        \* the thread that holds mu_
  owner,     \* where Owner is
  pc,        \* where each caller is in call()
  result,    \* how each caller's last call ended
  seqnum,    \* seqnum_
  slot,      \* the command that each caller wrote last
  proc,      \* the REPL process
  extra,     \* number of lines the REPL prints before "ready."
  sent,      \* number of commands written to the REPL's stdin
  taken,     \* number of commands the REPL has read
  written,   \* number of half lines the REPL has written
  consumed,  \* number of half lines the client has read
  start,     \* value of consumed when the current read began
  late,      \* whether the current read is past its deadline
  slips,     \* history: number of reads that failed after a command was sent
  replies,   \* history: which call was answered with which line
  killed     \* whether SIGPIPE has ended the orchestrator process

client == <<attached, mu, owner, pc, result, seqnum, slot>>
stream == <<consumed, start, late>>
repl   == <<proc, extra, taken, written>>
hist   == <<slips, replies>>
vars   == <<client, stream, repl, hist, sent, killed>>

OwnerStates  == {"fresh", "unstarted", "booting", "up", "closing", "reaping", "down"}
CallerStates == {"ready", "queued", "reading"}
Results      == {"none", "refused", "failed", "garbled", "answered"}

\* The types of the variables: the descriptors' state, the places of the
\* threads, and positions in streams that never become negative.
TypeOK ==
  /\ attached \in BOOLEAN
  /\ mu \in Caller \cup {Owner, Nobody}
  /\ owner \in OwnerStates
  /\ pc \in [Caller -> CallerStates]
  /\ result \in [Caller -> Results]
  /\ seqnum \in 0..MaxCalls
  /\ slot \in [Caller -> Nat]
  /\ proc \in {"none", "running", "dead", "reaped"}
  /\ extra \in 0..1
  /\ sent \in Nat /\ taken \in Nat
  /\ written \in Nat /\ consumed \in Nat /\ start \in Nat
  /\ late \in BOOLEAN
  /\ slips \in Nat
  /\ replies \subseteq [call : Nat, line : Nat, slips : Nat]
  /\ killed \in BOOLEAN

Init ==
  /\ attached = FALSE
  /\ mu = Nobody
  /\ owner = "fresh"
  /\ pc = [c \in Caller |-> "ready"]
  /\ result = [c \in Caller |-> "none"]
  /\ seqnum = 0
  /\ slot = [c \in Caller |-> 0]
  /\ proc = "none"
  /\ extra = 0
  /\ sent = 0 /\ taken = 0
  /\ written = 0 /\ consumed = 0 /\ start = 0
  /\ late = FALSE
  /\ slips = 0
  /\ replies = {}
  /\ killed = FALSE

-----------------------------------------------------------------------------
(* read_one_line_blocking: every call starts with an empty buffer, reads   *)
(* until the buffer holds a newline, and drops what follows the newline.   *)
(* The deadline is looked at only when a ::read has returned without one;  *)
(* while the pipe is empty and open the thread is inside ::read.           *)

OpenRead == start' = consumed /\ late' = FALSE

\* An error return of ::read that is taken for a number of halves.
AvailableOrError == 1..(written - consumed) \cup {0 - 1}

\* ::read returns n half lines.
Available == 1..(written - consumed)
Consume(n) == consumed' = consumed + n /\ UNCHANGED <<start, late>>

\* The buffer then holds the newline of the line in which it starts.
LineEnds(n) == (consumed + n) \div 2 > start \div 2

AtEof == proc # "running" /\ consumed = written

ReadsLine == \E n \in Available : LineEnds(n) /\ Consume(n)
ReadsPart == \E n \in Available : ~LineEnds(n) /\ Consume(n)

\* A read that takes the end of the stream for a pipe that is still empty.
ReadFailsLateOnly == late /\ ReadsPart

\* The read returns false.
ReadFails == \/ AtEof /\ UNCHANGED stream
             \/ late /\ ReadsPart

KeepsReading == ~late /\ ReadsPart

\* The deadline of the read in progress passes.
DeadlinePasses ==
  /\ "late" \in Faults
  /\ ~killed /\ ~late
  /\ owner = "booting" \/ \E c \in Caller : pc[c] = "reading"
  /\ late' = TRUE
  /\ UNCHANGED <<client, consumed, start, repl, hist, sent, killed>>

-----------------------------------------------------------------------------
(* start() *)

\* pipe() or fork() fails: start() returns false.
StartRefused ==
  /\ ~killed /\ owner = "fresh" /\ mu = Nobody
  /\ "nofork" \in Faults
  /\ owner' = "unstarted"
  /\ UNCHANGED <<attached, mu, pc, result, seqnum, slot, stream, repl, hist, sent, killed>>

\* A start() that returns without waiting for the first line.
StartSpawnUnready ==
  /\ ~killed /\ owner = "fresh" /\ mu = Nobody
  /\ attached' = TRUE /\ proc' = "running" /\ owner' = "up"
  /\ UNCHANGED <<mu, pc, result, seqnum, slot, stream, extra, taken, written, hist, sent, killed>>

\* The process is forked, pid_ and the descriptors are set, and start()
\* waits for the first line with mu_ held.
StartSpawn ==
  /\ ~killed /\ owner = "fresh" /\ mu = Nobody
  /\ attached' = TRUE /\ mu' = Owner /\ owner' = "booting"
  /\ proc' = "running"
  /\ extra' \in 0..1 /\ (extra' = 1 => "banner" \in Faults)
  /\ OpenRead
  /\ UNCHANGED <<pc, result, seqnum, slot, consumed, taken, written, hist, sent, killed>>

\* Any first line will do: one that is not "ready." is only logged.
BootLine ==
  /\ ~killed /\ owner = "booting"
  /\ ReadsLine
  /\ owner' = "up" /\ mu' = Nobody
  /\ UNCHANGED <<attached, pc, result, seqnum, slot, repl, hist, sent, killed>>

BootKeepsReading ==
  /\ ~killed /\ owner = "booting"
  /\ KeepsReading
  /\ UNCHANGED <<client, repl, hist, sent, killed>>

\* No first line: start() calls shutdown(), with mu_ held.
BootFails ==
  /\ ~killed /\ owner = "booting"
  /\ ReadFails
  /\ owner' = "closing"
  /\ UNCHANGED <<attached, mu, pc, result, seqnum, slot, repl, hist, sent, killed>>

-----------------------------------------------------------------------------
(* call() *)

\* The unlocked check of pid_ and in_fd_ fails.
CallRefused(c) ==
  /\ ~killed /\ pc[c] = "ready" /\ ~attached
  /\ result' = [result EXCEPT ![c] = "refused"]
  /\ UNCHANGED <<attached, mu, owner, pc, seqnum, slot, stream, repl, hist, sent, killed>>

\* The check succeeds; the call takes a seqnum and waits for mu_.
CallBegins(c) ==
  /\ ~killed /\ pc[c] = "ready" /\ attached
  /\ seqnum < MaxCalls
  /\ seqnum' = seqnum + 1
  /\ pc' = [pc EXCEPT ![c] = "queued"]
  /\ UNCHANGED <<attached, mu, owner, result, slot, stream, repl, hist, sent, killed>>

Locked(c) == ~killed /\ pc[c] = "queued" /\ mu = Nobody

\* A write that is not under mu_.
CallSendsUnlocked(c) ==
  /\ ~killed /\ pc[c] = "queued" /\ attached /\ proc = "running"
  /\ pc' = [pc EXCEPT ![c] = "reading"]
  /\ slot' = [slot EXCEPT ![c] = sent + 1]
  /\ sent' = sent + 1
  /\ OpenRead
  /\ UNCHANGED <<attached, mu, owner, result, seqnum, consumed, repl, hist, killed>>

\* A write that is repeated as a whole after it was cut short.
CallSendsTwice(c) ==
  /\ Locked(c) /\ attached /\ proc = "running"
  /\ mu' = c
  /\ pc' = [pc EXCEPT ![c] = "reading"]
  /\ slot' = [slot EXCEPT ![c] = sent + 2]
  /\ sent' = sent + 2
  /\ OpenRead
  /\ UNCHANGED <<attached, owner, result, seqnum, consumed, repl, hist, killed>>

\* With mu_ held, the command is written and the read begins.
CallSends(c) ==
  /\ Locked(c) /\ attached /\ proc = "running"
  /\ mu' = c
  /\ pc' = [pc EXCEPT ![c] = "reading"]
  /\ slot' = [slot EXCEPT ![c] = sent + 1]
  /\ sent' = sent + 1
  /\ OpenRead
  /\ UNCHANGED <<attached, owner, result, seqnum, consumed, repl, hist, killed>>

\* Nobody reads the pipe any more: the write raises SIGPIPE, for which the
\* program installs no handler.
CallSigpipe(c) ==
  /\ Locked(c) /\ attached /\ proc # "running"
  /\ killed' = TRUE
  /\ UNCHANGED <<client, stream, repl, hist, sent>>

\* The client was shut down while the call waited for mu_: the descriptors
\* are -1, the write and the read fail.
CallOnClosed(c) ==
  /\ Locked(c) /\ ~attached
  /\ pc' = [pc EXCEPT ![c] = "ready"]
  /\ result' = [result EXCEPT ![c] = "failed"]
  /\ UNCHANGED <<attached, mu, owner, seqnum, slot, stream, repl, hist, sent, killed>>

Reading(c) == ~killed /\ pc[c] = "reading"

\* c returns from call() and gives up mu_.
Returns(c, r) ==
  /\ mu' = Nobody
  /\ pc' = [pc EXCEPT ![c] = "ready"]
  /\ result' = [result EXCEPT ![c] = r]
  /\ UNCHANGED <<attached, owner, seqnum, slot>>

\* The line that the read returns, and whether it has its beginning.  What
\* the REPL prints on its own and a line without its beginning are no JSON.
ReadLine   == start \div 2
ReadWhole  == start % 2 = 0
IsReply    == ReadWhole /\ ReadLine > extra

\* A line, whichever it is, ends the call: its seqnum is not looked at.
CallLine(c) ==
  /\ Reading(c)
  /\ ReadsLine
  /\ Returns(c, IF IsReply THEN "answered" ELSE "garbled")
  /\ replies' = replies \cup {[call |-> slot[c], line |-> ReadLine, slips |-> slips]}
  /\ UNCHANGED <<repl, slips, sent, killed>>

CallKeepsReading(c) ==
  /\ Reading(c)
  /\ KeepsReading
  /\ UNCHANGED <<client, repl, hist, sent, killed>>

\* A failed call that returns with mu_ held.
CallFailsLocked(c) ==
  /\ Reading(c)
  /\ ReadFails
  /\ pc' = [pc EXCEPT ![c] = "ready"]
  /\ result' = [result EXCEPT ![c] = "failed"]
  /\ slips' = slips + 1
  /\ UNCHANGED <<attached, mu, owner, seqnum, slot, repl, replies, sent, killed>>

\* The read failed: the call returns, the command stays with the REPL and
\* the client stays attached.  waitpid(WNOHANG) reaps a REPL that is dead,
\* unless its end shows in the pipe before waitpid can see it.
CallFails(c) ==
  /\ Reading(c)
  /\ ReadFails
  /\ Returns(c, "failed")
  /\ slips' = slips + 1
  /\ proc' \in IF proc = "dead" THEN {"dead", "reaped"} ELSE {proc}
  /\ UNCHANGED <<extra, taken, written, replies, sent, killed>>

-----------------------------------------------------------------------------
(* shutdown() *)

\* Owner calls shutdown(), or destroys the client.
Retire ==
  /\ ~killed /\ owner = "up"
  /\ owner' = "closing"
  /\ UNCHANGED <<attached, mu, pc, result, seqnum, slot, stream, repl, hist, sent, killed>>

ClosingLocked == ~killed /\ owner = "closing" /\ mu = Nobody

\* A newline is written to the REPL's stdin, SIGTERM is sent, and Owner
\* waits for the end of the process with mu_ held.
ShutdownBegins ==
  /\ ClosingLocked /\ proc = "running"
  /\ owner' = "reaping" /\ mu' = Owner
  /\ UNCHANGED <<attached, pc, result, seqnum, slot, stream, repl, hist, sent, killed>>

\* The newline is written to a pipe nobody reads.
ShutdownSigpipe ==
  /\ ClosingLocked /\ proc # "running"
  /\ killed' = TRUE
  /\ UNCHANGED <<client, stream, repl, hist, sent>>

\* waitpid() returns (SIGKILL has been sent in case SIGTERM did not do):
\* pid_ becomes -1 and the descriptors are closed.
ShutdownReaps ==
  /\ ~killed /\ owner = "reaping" /\ proc = "dead"
  /\ owner' = "down" /\ mu' = Nobody /\ attached' = FALSE
  /\ proc' = "reaped"
  /\ UNCHANGED <<pc, result, seqnum, slot, stream, extra, taken, written, hist, sent, killed>>

-----------------------------------------------------------------------------
(* The REPL.  It lives on when the orchestrator is killed; that is of no    *)
(* interest here.                                                           *)

\* What it has to say about the commands it has taken.
Due == 2 * (1 + extra + taken)

\* It reads the next command once it has said everything about the last.
ReplTakes ==
  /\ ~killed /\ proc = "running"
  /\ written = Due /\ taken < sent
  /\ taken' = taken + 1
  /\ UNCHANGED <<client, stream, proc, extra, written, hist, sent, killed>>

\* One half line or a whole one reaches the pipe.
ReplWrites ==
  /\ ~killed /\ proc = "running"
  /\ \E n \in 1..2 : /\ written + n <= Due
                     /\ written' = written + n
  /\ UNCHANGED <<client, stream, proc, extra, taken, hist, sent, killed>>

ReplDies ==
  /\ ~killed /\ proc = "running"
  /\ \/ "bootcrash" \in Faults /\ written < 2 * (1 + extra)
     \/ "crash" \in Faults /\ written >= 2 * (1 + extra)
  /\ proc' = "dead"
  /\ UNCHANGED <<client, stream, extra, taken, written, hist, sent, killed>>

\* A signal of shutdown() ends it.
ReplTerminated ==
  /\ ~killed /\ proc = "running" /\ owner = "reaping"
  /\ proc' = "dead"
  /\ UNCHANGED <<client, stream, extra, taken, written, hist, sent, killed>>

-----------------------------------------------------------------------------

StartStep == StartRefused \/ StartSpawn \/ BootLine \/ BootKeepsReading \/ BootFails

ShutdownStep == ShutdownBegins \/ ShutdownSigpipe \/ ShutdownReaps

\* What follows the beginning of a call.
CallStep(c) == \/ CallSends(c) \/ CallSigpipe(c) \/ CallOnClosed(c)
               \/ CallLine(c) \/ CallKeepsReading(c) \/ CallFails(c)

ReplStep == ReplTakes \/ ReplWrites

Next ==
  \/ StartStep
  \/ Retire
  \/ ShutdownStep
  \/ \E c \in Caller : CallRefused(c) \/ CallBegins(c) \/ CallStep(c)
  \/ ReplStep
  \/ ReplDies
  \/ ReplTerminated
  \/ DeadlinePasses

Spec == Init /\ [][Next]_vars

\* The threads of the orchestrator run.  Nothing is said of the REPL.
ThreadFairness ==
  /\ WF_vars(StartStep)
  /\ WF_vars(ShutdownStep)
  /\ \A c \in Caller : WF_vars(CallStep(c))

\* In addition the REPL answers what it is sent and dies when it is killed.
ReplFairness == WF_vars(ReplStep) /\ WF_vars(ReplTerminated)

FairSpec == Spec /\ ThreadFairness /\ ReplFairness

-----------------------------------------------------------------------------
(* Properties *)

\* How far the replies may be out of step: a call never gets a reply from
\* the future, and is at most as many lines behind as reads had failed
\* before it, plus the lines printed before "ready.".
LagBounded ==
  \A p \in replies : /\ p.line <= p.call + extra
                     /\ p.call + extra <= p.line + p.slips + extra

\* Replies keep the order of the commands, and no line is returned twice:
\* a stale reply never overtakes, it only trails.
InOrder == \A p, q \in replies :
             /\ p.call < q.call => p.line < q.line
             /\ p.call = q.call => p.line = q.line

\* While one call is between its write and its read, no other call and no
\* start() or shutdown() touches the pipes.
Exclusive ==
  /\ \A c \in Caller : pc[c] = "reading" <=> mu = c
  /\ owner \in {"booting", "reaping"} => mu = Owner

\* A call that has begun returns, as long as the REPL answers or dies.
CallReturns ==
  \A c \in Caller : pc[c] # "ready" ~> (pc[c] = "ready" \/ killed)

\* shutdown() returns.
ShutdownReturns == owner = "closing" ~> (owner = "down" \/ killed)

\* start() returns.
StartReturns == owner = "booting" ~> (owner \in {"up", "down"} \/ killed)

\* The orchestrator outlives its REPL.
OrchestratorSurvives == ~killed

\* How far the call of each caller is, for ReplService.
StatusOf(c) == IF pc[c] = "ready" THEN "idle"
               ELSE IF pc[c] = "reading" /\ taken = sent THEN "executed"
               ELSE "called"

CallStatus == [c \in Caller |-> StatusOf(c)]

Answers == {<<p.call, p.line>> : p \in replies}

Service == INSTANCE ReplService WITH
  up <- proc = "running", status <- CallStatus, ran <- taken, answers <- Answers

\* Without late reads and without a banner, the client implements the
\* shared object of ReplService: each call that is answered was executed
\* once, between its beginning and its return, and has its own answer.
ImplementsService == Service!Spec
=============================================================================
