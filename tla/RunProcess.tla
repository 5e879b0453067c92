----------------------------- MODULE RunProcess -----------------------------
(***************************************************************************)
(* run_process (src/util.cpp): the parent runs a command and collects what *)
(* the child writes to its stdout and stderr, over two pipes.              *)
(*                                                                         *)
(* A stream is its number, 1 for stdout and 2 for stderr: the indexes 0    *)
(* and 1 of the code.  The child writes chunks, of which a pipe holds at   *)
(* most PipeCap.  A chunk is the stream it was written to: what is to be   *)
(* seen is in which buffer it ends up.                                     *)
(*                                                                         *)
(* pfds is built anew for every poll(), from the streams that are still    *)
(* open.  Its positions are used to index open_ and bufs, which are        *)
(* indexed by stream.  The model does the same.                            *)
(***************************************************************************)
EXTENDS Integers, Sequences

CONSTANTS
  MaxChunks,  \* bound on what the child writes to one stream
  PipeCap,    \* capacity of a pipe
  Faults      \* what may fail, a subset of FaultKind

FaultKind == {"poll",   \* poll(), with an error other than EINTR
              "read"}   \* ::read of an open descriptor, likewise

ASSUME RunProcessAssumption ==
  /\ MaxChunks \in Nat
  /\ PipeCap \in Nat \ {0}
  /\ Faults \subseteq FaultKind

Stream == {1, 2}

VARIABLES
  pc,       \* place of the parent
  pfds,     \* what the last poll() was asked to watch
  at,       \* position in pfds of the loop over it
  open,     \* the indexes k with open_[k]
  bufs,     \* the two buffers
  readEnd,  \* the streams whose read end the parent has not closed
  writeEnd, \* the streams whose write end the child has not closed
  pipe,     \* number of chunks in each pipe
  output,   \* number of chunks that the child's program writes to each
  toWrite,  \* number of chunks the child has yet to write to each
  child,    \* the child process
  gaveUp,   \* history: whether a failed poll() has ended the loop
  cut       \* history: the streams that an error of ::read has closed

history == <<gaveUp, cut>>
parent == <<pc, pfds, at, open, bufs, readEnd, history>>
others == <<writeEnd, output, toWrite, child>>
vars   == <<parent, pipe, others>>

\* The types of the variables.  The loop over pfds stays within it.
TypeOK ==
  /\ pc \in {"fork", "poll", "read", "wait", "done", "failed"}
  /\ pfds \in {<<>>, <<1>>, <<2>>, <<1, 2>>}
  /\ pc = "read" => at \in DOMAIN pfds
  /\ open \subseteq Stream
  /\ bufs \in [Stream -> Seq(Stream)]
  /\ readEnd \subseteq Stream /\ writeEnd \subseteq Stream
  /\ pipe \in [Stream -> 0..PipeCap]
  /\ output \in [Stream -> 0..MaxChunks] /\ toWrite \in [Stream -> 0..MaxChunks]
  /\ child \in {"none", "running", "exited", "reaped"}
  /\ gaveUp \in BOOLEAN /\ cut \subseteq Stream

Init ==
  /\ pc = "fork" /\ pfds = <<>> /\ at = 1
  /\ open = Stream
  /\ bufs = [k \in Stream |-> <<>>]
  /\ readEnd = {} /\ writeEnd = {}
  /\ pipe = [k \in Stream |-> 0]
  /\ output \in [Stream -> 0..MaxChunks] /\ toWrite = output
  /\ child = "none"
  /\ gaveUp = FALSE /\ cut = {}

-----------------------------------------------------------------------------
(* The parent *)

Forks ==
  /\ pc = "fork"
  /\ pc' = "poll" /\ readEnd' = Stream /\ writeEnd' = Stream /\ child' = "running"
  /\ UNCHANGED <<pfds, at, open, bufs, pipe, output, toWrite, history>>

\* pipe() or fork() fails: exit_code is -1.
ForkFails ==
  /\ pc = "fork"
  /\ pc' = "failed"
  /\ UNCHANGED <<pfds, at, open, bufs, readEnd, pipe, others, history>>

OnlyOpen(k) == IF k \in open THEN <<k>> ELSE <<>>

\* The streams that are open, stderr first.
WatchedBackwards == OnlyOpen(2) \o OnlyOpen(1)

Watched == OnlyOpen(1) \o OnlyOpen(2)

\* poll() returns, at the latest after five seconds; the code does not ask
\* which of the descriptors are ready.  After EINTR it is called again, and
\* so is ::read.
Polls ==
  /\ pc = "poll" /\ open # {}
  /\ pfds' = Watched /\ at' = 1
  /\ pc' = "read"
  /\ UNCHANGED <<open, bufs, readEnd, pipe, others, history>>

\* The loop is left, with what the buffers hold by now.
PollFails ==
  /\ pc = "poll" /\ open # {} /\ "poll" \in Faults
  /\ pc' = "wait" /\ readEnd' = {}
  /\ gaveUp' = TRUE
  /\ UNCHANGED <<pfds, at, open, bufs, pipe, others, cut>>

\* The loop goes on to a position that is not there.
AdvancePastEnd == IF at > Len(pfds) THEN pc' = "poll" /\ UNCHANGED at
                                    ELSE at' = at + 1 /\ UNCHANGED pc

Advance == IF at = Len(pfds) THEN pc' = "poll" /\ UNCHANGED at
                             ELSE at' = at + 1 /\ UNCHANGED pc

Reading(k) == pc = "read" /\ pfds[at] = k

\* One ::read takes some of the chunks.
ReadsData(k) ==
  /\ Reading(k) /\ k \in readEnd
  /\ \E n \in 1..pipe[k] :
       /\ bufs' = [bufs EXCEPT ![at] = @ \o [j \in 1..n |-> k]]
       /\ pipe' = [pipe EXCEPT ![k] = @ - n]
  /\ Advance
  /\ UNCHANGED <<pfds, open, readEnd, others, history>>

AtEnd(k) == k \in readEnd /\ pipe[k] = 0 /\ k \notin writeEnd

ReadsEof(k) ==
  /\ Reading(k) /\ AtEnd(k)
  /\ open' = open \ {at} /\ readEnd' = readEnd \ {k}
  /\ Advance
  /\ UNCHANGED <<pfds, bufs, pipe, others, history>>

\* The descriptor was closed by an earlier pass: EBADF.
ReadsClosed(k) ==
  /\ Reading(k) /\ k \notin readEnd
  /\ open' = open \ {at}
  /\ Advance
  /\ UNCHANGED <<pfds, bufs, readEnd, pipe, others, history>>

\* Any other error of ::read.  To the code it is an end.
ReadFails(k) ==
  /\ Reading(k) /\ k \in readEnd /\ "read" \in Faults
  /\ open' = open \ {at} /\ readEnd' = readEnd \ {k}
  /\ cut' = cut \cup {k}
  /\ Advance
  /\ UNCHANGED <<pfds, bufs, pipe, others, gaveUp>>

\* The loop ends with the first stream that ends.
LoopEndsEarly ==
  /\ pc = "poll" /\ open # Stream
  /\ pc' = "wait" /\ readEnd' = {}
  /\ UNCHANGED <<pfds, at, open, bufs, pipe, others, history>>

LoopEnds ==
  /\ pc = "poll" /\ open = {}
  /\ pc' = "wait" /\ readEnd' = {}
  /\ UNCHANGED <<pfds, at, open, bufs, pipe, others, history>>

Waits ==
  /\ pc = "wait" /\ child = "exited"
  /\ pc' = "done" /\ child' = "reaped"
  /\ UNCHANGED <<pfds, at, open, bufs, readEnd, pipe, writeEnd, output, toWrite, history>>

-----------------------------------------------------------------------------
(* The child *)

ChildWrites(k) ==
  /\ child = "running" /\ toWrite[k] > 0 /\ pipe[k] < PipeCap
  /\ k \in readEnd
  /\ toWrite' = [toWrite EXCEPT ![k] = @ - 1]
  /\ pipe' = [pipe EXCEPT ![k] = @ + 1]
  /\ UNCHANGED <<parent, writeEnd, output, child>>

\* Nobody can read what is written to k: SIGPIPE ends the child, or it
\* ignores the signal, and the chunk is lost.
ChildWritesInVain(k) ==
  /\ child = "running" /\ toWrite[k] > 0 /\ k \notin readEnd
  /\ \/ child' = "exited" /\ writeEnd' = {} /\ UNCHANGED toWrite
     \/ toWrite' = [toWrite EXCEPT ![k] = @ - 1] /\ UNCHANGED <<child, writeEnd>>
  /\ UNCHANGED <<parent, pipe, output>>

\* The child closes a stream it is done with, or exit() does: one stream
\* after the other.
ChildCloses(k) ==
  /\ child = "running" /\ toWrite[k] = 0
  /\ k \in writeEnd /\ writeEnd' = writeEnd \ {k}
  /\ UNCHANGED <<parent, pipe, output, toWrite, child>>

ChildExits ==
  /\ child = "running" /\ writeEnd = {}
  /\ child' = "exited"
  /\ UNCHANGED <<parent, pipe, writeEnd, output, toWrite>>

-----------------------------------------------------------------------------

ParentStep ==
  \/ Forks \/ ForkFails \/ Polls \/ PollFails \/ LoopEnds \/ Waits
  \/ \E k \in Stream : ReadsData(k) \/ ReadsEof(k) \/ ReadFails(k) \/ ReadsClosed(k)

ChildStep ==
  \/ ChildExits
  \/ \E k \in Stream : ChildWrites(k) \/ ChildWritesInVain(k) \/ ChildCloses(k)

Next == ParentStep \/ ChildStep

Spec == Init /\ [][Next]_vars

\* The parent runs, and a child that can go on does: it ends by itself.
FairSpec == Spec /\ WF_vars(ParentStep) /\ WF_vars(ChildStep)

-----------------------------------------------------------------------------
(* Properties *)

Chunks(n, k) == [j \in 1..n |-> k]

\* If run_process returns, and no poll() has failed, a buffer holds all that
\* the child has written to its stream, and nothing else, unless an error of
\* ::read has cut just this stream short: positions of pfds are taken for
\* streams on the way, but an error on one stream does not touch the other.
ResultWhole ==
  pc = "done" /\ ~gaveUp =>
    \A k \in Stream \ cut : bufs[k] = Chunks(output[k] - toWrite[k], k)

\* At all times, and whatever has failed, nothing of stdout comes into the
\* buffer of stderr.  What has come of stderr into that of stdout, which may
\* happen, comes after stdout; and then that is whole, or an error of ::read
\* has cut it short.
StdoutFirst ==
  /\ \A j \in DOMAIN bufs[2] : bufs[2][j] = 2
  /\ \E n \in 0..output[1] :
       /\ {i \in DOMAIN bufs[1] : bufs[1][i] = 1} = 1..n
       /\ Len(bufs[1]) > n => n = output[1] \/ 1 \in cut

\* run_process returns for a child that says nothing on stderr and no more
\* on stdout than the pipe holds, whatever fails on the way.  For others it
\* may not: the reads that follow poll() wait, and the end of stderr may go
\* unnoticed.
QuietReturns ==
  output[1] <= PipeCap /\ output[2] = 0 ~> pc \in {"done", "failed"}
=============================================================================
