# A TLA+ model of the LeanFFI orchestrator

The program under `src/` starts a pool of Pantograph REPLs, each in a directory
of its own, drives them through a pipeline of phases, and audits what it has
left on disk. This directory models its concurrent and stateful parts in TLA+,
and those of its algorithms that the rest relies on (JSON on the wire, hashes
of files, the choice of samples). It checks them with TLC, and proves with TLAPS
that what TLC has checked of safety, but for JSON, holds for any number of
threads, instances, sessions, processes and calls, and for all trees, contents
and names. File names below are relative to
`src/src/`.

1. [The system](#1-the-system)
2. [The modules, and how they correspond to the code](#2-the-modules-and-how-they-correspond-to-the-code)
3. [The runs](#3-the-runs)
4. [Bounds, fairness and abstractions](#4-bounds-fairness-and-abstractions)
5. [What is proved](#5-what-is-proved)
6. [Where the code and what is said of it differ](#6-where-the-code-and-what-is-said-of-it-differ)
7. [What is not modelled](#7-what-is-not-modelled)
8. [Plan](#8-plan)

## 1. The system

| Component | State | Operations | Hard because |
|---|---|---|---|
| `pantograph_bridge` (`PantographClient`) | `pid_`, two descriptors, `mu_`, `seqnum_`; the bytes in two pipes; the REPL process | `start`, `call` and typed helpers, `shutdown`, `is_alive` | calls check `pid_` without the mutex; replies are matched with commands by order only; timeouts, crashes, SIGPIPE |
| `orchestrator` | `pool_`, `total_evaluations_`, `stop_flag`, the workers | `init`, `run_pipeline` (phases 1 to 5), `worker_main`, `run_validation_and_emit`, `shutdown_all`, `run` | threads, atomic counters, a join that depends on other processes, failed spawns |
| `instance_manager` (`Instance`) | an instance directory, a client, four counters | `prepare`, `spawn`, `snapshot`, `restore`, `fork_into`, `destroy` | check and creation of a directory are separate; a session may end between the two |
| `evidence` | files under `evidence/` | `init`, `write` and its variants | files outlive the session that wrote them |
| `validation` | list of results | `run_all` and the `check_*` functions | reads files that other sessions wrote, or are writing |
| `util` | none | `run_process`; file, string, time and hash helpers | `run_process` has two pipes, a child and a poll loop |
| `scheduler` | queue, cursor, mutex | `set_pool`, `submit`, `try_assign`, `release` | loads change while they are read; the pool may be empty, or grow |
| `corpus_sampler` | `files_`, a random generator | `scan`, `sample` | files change during a scan; directories come in any order; equal files |
| `ffi_generator` | none | `generate` | names lose characters and may collide |
| `json_min` | none | `serialize`, `parse`, `set` | decides what a line of the protocol means |
| `sha256.h` | block buffer, length | `update`, `finish`, `hash` | boundaries of blocks |
| `logger`, `main` | a file; none | `event`; arguments | |

How they interact: `main` builds one `Orchestrator`. It owns `pool_`, a vector
of `Instance`; each `Instance` owns a `PantographClient`, which forks a REPL and
talks to it over two pipes, one command and one line of reply at a time. The
main thread uses the clients in phases 1, 2 and 4; in phase 3 one worker thread
per spawned instance does. The counters are shared atomics. `EvidenceStore` and
`Logger` are singletons that write files under `work_root`. The
`ValidationFramework` reads `work_root` back. Two runs of the orchestrator meet
in `work_root` only. The scheduler has a pointer to `pool_`; at this commit the
orchestrator hands it no item. Phases 1 and 2 take files from the
`CorpusSampler`; phase 2 has `FfiGenerator` make theorems of them. Whatever goes
to a REPL or comes from it passes through `json_min`.

What makes each part correct:

* client: a call gets the reply to its own command or fails; nobody else is at
  the pipes between its write and its read; calls and `shutdown` return;
* orchestrator: the counts it reports are those of the evaluations made, and
  success needs a REPL; workers keep to phase 3; no more processes than the
  cap, none left at the end; the pipeline ends;
* fleet of clients: an instance never signals or reaps the process of another
  one, nor another program (it may: `shutdown` sends SIGKILL also to a pid that
  it has just freed, see section 6), and no process is forgotten while it is
  there;
* `work_root`: what a session has made is whole, also if earlier sessions were
  killed or others run beside it; the checks pass for sessions that were left in
  peace, and do not pass for directories that were left half made;
* `run_process`: it returns, with each stream whole and in its own buffer;
* scheduler: a queue: in order, once, with an instance that exists; its policy
  is kept though loads and pool change;
* corpus: a seed determines the samples; hashes are those of contents, also if
  files change while they are read; samples
  spread; a theorem is refused only for a name that is taken;
* wire: the REPL finds the command that was meant, the caller the answer that
  was meant, and neither takes anything else for one.

## 2. The modules, and how they correspond to the code

`PROJECT.json` ("map") names the lines behind every definition.

**`ReplService`**: abstract. What `call` promises to the threads that use a
client: the REPL is a shared object, calls take effect one at a time, an
answered call was executed once, between its beginning and its return, and has
the answer to its own command; a call fails only when the REPL is down.

**`PantographBridge`**: the client, any number of threads in `call`, a thread
that starts it and shuts it down, the REPL and the pipes. An action is a stretch
of code between two points where another thread or the REPL can be seen:
`CallBegins` is the unlocked check and the seqnum (`pantograph_bridge.cpp`
168-178), `CallSends` is taking `mu_`, the write and entering the read, and so
on. The pipe of replies is a stream of half lines: a `::read` may end in the
middle of a line or cover several, and what it covers beyond the first newline
is dropped, as `read_one_line_blocking` does with its local buffer. `late` is
the deadline of the read in progress, seen only when a `::read` has returned.
`attached` is `pid_ > 0`. `ImplementsService` states the refinement of
`ReplService`.

**`Pipeline`**: `Orchestrator::run`: spawning under the cap, phases 1 and 2
call by call, the workers of phase 3 with their two counters, snapshots,
validation, shutdown, and the processes. A call is two steps, its write and its
return. An instance is `attached` (its client thinks it has a process) and
`running` (it has one): a step of the code that writes to an instance that is
attached and not running ends the orchestrator with SIGPIPE. `ReplSeesEof` is
what the inherited descriptors make of the end of the orchestrator: a REPL sees
the end of its stdin when those spawned after it have ended. In this module a
client is used by one thread at a time: the main thread while no worker is
there (`WorkersConfined`), and otherwise the worker at its position. Hence the
two-step call is adequate, and `PantographBridge` covers more than the program
uses.

**`WorkRoot`**: instance directories, snapshots and evidence, written by
sessions and read by the checks of the `ValidationFramework`. A directory is
made in two steps, its root and the rest, because a kill or another session may
come in between. Two of the checks list directories first (`ListsDirs`,
`ListsSnapshots`) and look into what they have listed afterwards
(`CheckIsolation`, `CheckSnapshots`), while other sessions go on. What is made
during a listing may be found or not. The looks into one directory after the
other are one step: nothing is ever taken out of a directory, so that they come
to what a single look does, at the time of the first that fails or else of the
last. `overlapped` remembers whether two sessions have run at a time.

**`RunProcess`**: `run_process`, with the positions of `pfds` used as indexes
of `open_` and `bufs`, as in the code. An error of `poll` leaves the loop
(`PollFails`), one of `::read` ends a stream (`ReadFails`); the history variables
`gaveUp` and `cut` remember them. The child may then write what nobody can read
(`ChildWritesInVain`): SIGPIPE ends it, or it goes on.

**`Fleet`**: the clients of all instances and the process table. A pid is free
when its process has been reaped and may be given to the next; `proc` numbers
the processes so that the model can tell them apart. `shutdown` is taken apart
at every signal and wait (`Newline`, `SendsSigterm`, `PollReaps`,
`SendsSigkill`, `Reaps`), the failed call at its `waitpid` (`CallFails`), and
`restore` and `destroy` are `shutdown` with a sequel (`then`). `strayed`
remembers every signal and every wait of an instance that has met a process
other than its own: the REPL of another instance, or a process of another
program.

**`WorkQueue`**: abstract. The queue that `scheduler.h` announces.

**`Scheduler`**: `submit` and `try_assign`. What `try_assign` does under `mu_`
is one step, except that the loop over the loads has a step for each instance
(`ScanReads`), with `Evaluates` in between. `given` is what it has returned.
`ImplementsQueue` states the refinement of `WorkQueue`: an item in the hand of
a scan is still the head of the queue.

**`Sha256`**: `update` and `finish` for blocks of any size. The compression
function appends the block to the hash, so that two hashes are equal just if
the padded messages are. `Digest` is the definition of FIPS 180-4 to compare
with: the blocks of the padded message. The length is written modulo
`256^LenSize` in both.

**`Corpus`**: `scan` (a step for each entry of a directory, and for each access
to a file), `sample`, and the two phases that use it. `todo` is the stack of the
recursive `walk`. `read_file` has a step for each `::read` of the stream
(`Opens`, `Reads`, `ReadEnds`), and another program may change the file between
any two: write to it, so that the next `::read` finds something else (`Writes`),
or put another file in its place or remove it, which a reader that has it open
does not notice (`Replaces`, `old`). A file is read twice, for its hash and for
its source. The sort at the end of `scan` gives any arrangement in the
order of paths, which is all that `std::sort` promises. `held` is what each file
has had in it since the scan began, `torn` says whether the file that is open
was written to after its first `::read`, and `hashed` is what was read for each
hash. The environment of the REPL is the set of
names that it has, at first those of its imports (`Imported`); a type is accepted or not. A name is a sequence of parts
(`Part`): characters, and what the code puts before and behind a name. A number
in a name is as many strokes, which like its digits tell it from all other
numbers and from a name with `_kernel` at the end.

**`JsonMin`**: `serialize` and `parse` as operators on texts.

**`Wire`**: one caller, one REPL, two pipes, over `JsonMin`: `Envelope`,
`Writes`, the read loop, and `Classify`, which makes a result of a reply. The
REPL answers in any form it may choose (`Replies`): escapes, `error` with and
without `desc`, a `desc` of another kind, other output on the line.

`Fleet`, `Scheduler`, `Corpus` and `Wire` each take one question out of the
composition: who has which pid, who gets which item, which names meet, what a
line says. What they assume of the others they say at their heads, and where it
is a property of another module they name it.

`MC*` modules are what TLC is run on. The theorems are in `PantographBridgeProofs`,
`PipelineProofs`, `FleetProofs`, `WorkRootProofs`, `RunProcessProofs`,
`SchedulerProofs` and `CorpusProofs`, each about the module of its name (the last
about `Sha256` too), and in `FoldTheorems`, which says of the folds of the
community modules what `PipelineProofs` and `CorpusProofs` need. Operators whose
comment describes another behaviour than the code's (`CallSendsTwice`, `ForkBare`, `JoinNobody`, ...) are
mutations: no action uses them; each stands for a plausible mistake that some
property finds when it is put in the place of the definition after it
("mutants" in `PROJECT.json`).

## 3. The runs

Runs that pass:

| Run | Instance | Properties | Shows |
|---|---|---|---|
| `bridge_safe` | 2 threads, 3 calls, all faults | `TypeOK`, `LagBounded`, `InOrder`, `Exclusive` | however badly the REPL behaves, replies trail and never overtake, and the pipes have one user |
| `bridge_live` | 3 threads, 3 calls, REPL may crash, fork may fail | `ImplementsService`, `CallReturns`, `ShutdownReturns` | a client with no late read and no banner is the shared object of `ReplService`, and no call or `shutdown` hangs while the REPL answers or dies |
| `pipeline` | 4 instances, cap 2, all faults | `TypeOK`, `CountsAgree`, `WorkersConfined`, `ProcessBound`, `SuccessNeedsRepl`, `Ends`, `NoOrphans` | counters, threads and processes agree, the pipeline ends and no process outlives it for ever |
| `root_safe` | 2 sessions, pools of 1 to 3, in sequence or overlapping, killed anywhere | `TypeOK`, `OwnDirsWhole`, `QuietChecksPass`, `AbandonedFails` | what a session made is whole; a quiet session is not failed for what earlier ones left; a half-made fork beyond the pools is never repaired, and fails `isolation_integrity` of all sessions that list `work_root` after it, for ever: `prepare` repairs only ids of the pool, the scan of phase 5 steps over all others |
| `process` | up to 4 chunks on each stream, pipes of 2, errors of `poll` and `::read` | `TypeOK`, `ResultWhole`, `StdoutFirst`, `QuietReturns` | what `run_process` returns is right, if it returns, but for what an error has cut off; and it returns for a quiet child |
| `scheduler` | 2 threads, 3 items, 2 instances, each policy | `TypeOK`, `ImplementsQueue`, `LeastWhenRead`, `RoundRobinEven`, `Drains` | the scheduler is a queue that loses items for an empty pool only; the instance chosen for its load had, when read, no more than any has later; turns are even from whenever the pool stops growing; nothing stays in the queue |
| `fleet` | 2 instances, 3 pids, 4 processes, all faults | `TypeOK`, `OwnSignals`, `EveryChildOwned` | pids that are kept too long are never used on the REPL of another instance, and of all signals and waits only a SIGKILL may meet another program; no process is forgotten |
| `corpus` | 3 files scanned, 4 contents, two lines to a `::read`, one change | `TypeOK`, `Reproducible`, `HashesContent`, `DrawsSpread`, `LostByClash` | the scan does not depend on `readdir`; a hash is of something the file has held, or, if it was written to between two reads, of a mixture of what it has held; samples spread; a test is lost by a clash of names only |
| `wire` | 2 calls, arguments of up to 2 of 8 characters | `TypeOK`, `Understood`, `Answered` | commands and replies mean on one side what they mean on the other, however the pipes split them |

The other runs are expected to find a violation; see section 6.

No run checks for deadlock: threads end, sessions end, and several of the
faults stop the system for good (a thread that waits for its own mutex, a
process that was killed). What must not stop is stated as liveness instead.

## 4. Bounds, fairness and abstractions

Bounds. `MaxCalls` counts calls of a client: a stale reply needs two calls, and
a lag of two needs three. `MaxTotal` keeps workers from beginning evaluations
for ever; four leave each worker between its two counters while another goes
round. `N > Cap` leaves instances that are never spawned, and with `nofork` the
spawned ones are not a prefix of the pool. `Samples` is one file in phases 1
and 2 of `Pipeline` (in phase 2: one generated test); samples share no state
but the counters there. `MaxId` leaves room for two forks of every session.
Pools of 2 and 3 let the pool of one session cover a fork of another.

`Scheduler`: `MaxItems` 3 lets the pool grow, and a turn be skipped, between two
items without a name; one load step for each instance is enough for a load that
is read before or after it changes. `Fleet`: a pid that is kept too long needs
a second instance to get it and a third pid for other programs; `MaxStarts` 4
lets both instances be restored. `Corpus`: 2 of the files are in the root and
one below; contents are empty, longer than what is kept, fill a block or not,
and may be equal; a content of four lines takes two reads, and one change is
enough to fall between them or between any two accesses; the
declarations have names that collide after cleaning, with a fallback, and with
an imported name. Blocks
of 3 with 1 byte of length have the boundaries of 64 and 8: contents of
0, 2 and 4 lines end before, at and after the place of the length. The caps of
2 and 3 draws let a phase stop at its cap and go on past the last new content.
`Wire`: the eight characters are one of each kind that a codec treats apart; two
of them can follow each other; two calls show that nothing is left over.

Fairness. `ThreadFairness` says that a thread that can run does. Weak fairness
is enough for `std::mutex`, which is not fair, because the number of calls is
bounded: whoever competes for it is at last gone. `ReplFairness` says that the
REPL answers what it is sent, dies of SIGKILL and ends at the end of its stdin.
It is an assumption about Pantograph, not about this code; `pipeline_budget`
does without it and shows what the code then fails to do. A child of
`run_process` is assumed to end by itself when nobody stops it. A
crash and a deadline have no fairness: they may never come. In `Pipeline` the
loop of phase 3 is left at any time: time passes and the evaluation target may
be anything. In `Scheduler` the constructor of the orchestrator sets the pool
(`SetPool`), and some thread keeps asking for items (`AssignStep`); that a thread
with the mutex goes on is part of the latter. Nobody has to submit.

Abstractions. One banner line stands for any number of lines before `ready.`. A
command is written in one step: commands beyond the capacity of a pipe (64 KiB)
while the REPL writes are not covered. The calls of phases 1 and 2 have two
outcomes, ok or not. Snapshot ids are distinct. Files are always written when
the code tries to. In `WorkRoot` it does not matter which instances are alive,
only how many. `WorkRoot` forgets what a session had in memory when it ends. The
random generator may give any file (`Corpus`). A text is a sequence of bytes,
but a word, a number, a literal and the four digits of an escape are each one
symbol (`JsonMin`): none of them contains a character that has a meaning. In
`Wire` nobody dies or is late, in `Corpus` a REPL answers or there is none: these
are the subjects of `PantographBridge` and `Pipeline`.

## 5. What is proved

The theorems hold for all values of the constants that meet the assumption of
the module (`BridgeAssumption`, `PipelineAssumption`, ...): any set of threads,
instances or sessions, any caps and bounds, any set of faults. TLC evaluates
each assumption in a run. Nothing else is assumed, except where it is said.

Of the properties below few are inductive. Each module of proofs defines the
invariant that is (`IndInv`) and proves that it holds at first, that each action
keeps it, with a step for every action, and that it implies the properties.
`TypeCorrect` is `Spec => []TypeOK` (`CorpusTypes` in `CorpusProofs`).

**`PantographBridgeProofs`**:

* `MutualExclusion`: `Spec => []Exclusive`;
* `LagIsBounded`: `Spec => []LagBounded`;
* `RepliesInOrder`: `Spec => []InOrder`;
* `ClientImplementsService`: assuming that `late` and `banner` are not among
  the faults, `Spec => ImplementsService`.

`LagBounded` and `InOrder` speak of all replies ever returned. What makes them
inductive is a balance: a read that succeeds brings the client past one end of a
line, a read that fails is a slip, and a command is sent only by a call whose
read follows; so the ends of lines the client is past and the slips together are
never fewer than the commands sent (`Backlog`). On the other side the REPL is
never ahead of the commands it was sent, and the client never ahead of the REPL
(`Streams`). Between the two lies the line that a read can return.
`ClientImplementsService` then maps every action to one of `ReplService` or to a
stutter.

**`PipelineProofs`**:

* `CountersAgree`: `Spec => []CountsAgree`;
* `WorkersStayConfined`: `Spec => []WorkersConfined`;
* `ProcessesBounded`: `Spec => []ProcessBound`;
* `SuccessesNeedRepl`: `Spec => []SuccessNeedsRepl`.

The cap is looked at before a REPL is spawned, and one that is spawned counts,
so that no more are attached than were counted (`Capped`). Whoever waits for an
answer, or has had one, is attached until the shutdown (`Answered`): no failure
in phases 1 to 5 detaches a client. Where the main thread may
be in each phase is `MainPlaces`, and `Unlaunched` says that threads are made in
order. The counters are sums over instances; `FoldTheorems` proves that such a
sum is a number, is 0 if all its values are, and goes up by one with any of
them. `SumFunction` is a fold whose order is that of a `CHOOSE`; the proof
compares the sums over all subsets of the domain, each with those over the
subsets that have one element less (`SubsetInductive`).

**`FleetProofs`**:

* `SignalsStayOwn`: `Spec => []OwnSignals`;
* `ChildrenOwned`: `Spec => []EveryChildOwned`.

Two clients may well have the same pid, since a client whose failed call has
reaped the REPL keeps it, and another REPL may get it. What must never happen is that this client
comes to its signals: whoever is inside a call, or in a `shutdown` past its
first write, has a process of its own at its pid, or no REPL is there
(`Engaged`). Until the poll of `shutdown` no pid of such a client is free, so
that SIGTERM meets no other program; after it, SIGKILL may (`OwnSignals` is part
of the invariant). Processes are told apart by their numbers (`Numbered`,
`Distinct`), and one that is not reaped is known to the client that started it
(`Owned`).

**`WorkRootProofs`**:

* `OwnDirsStayWhole`: `Spec => []OwnDirsWhole`;
* `QuietPasses`: `Spec => []QuietChecksPass`;
* `AbandonedForksFail`: `Spec => AbandonedFails`, a temporal property.

A directory without its parts, or a snapshot without its file, has a session at
work on it, or some session was killed (`HalfMade`, `HalfSnapped`); a session
that prepares has made all directories up to its place in the loop (`Made`,
`InLoops`); and unless sessions have overlapped, one at most is at work
(`Alone`). What a session has listed was there (`Listed`). So at the checks of a
session in peace nothing is half made, and the checks behind it have passed
(`PassesSoFar`). For `AbandonedFails` a directory that is beyond the pools, half
made, and that no session has in hand stays so (`Caught`): only the session that
has made its root would go on to the rest, `prepare` does not come that far, and
`fork_into` keeps away from what exists. A session that lists after that has it
in its list.

**`RunProcessProofs`**:

* `ReturnsWhole`: `Spec => []ResultWhole`;
* `StraysFollow`: `Spec => []StdoutFirst`.

Positions in `pfds` are used as numbers of streams. They differ only when stderr
is watched alone. Then stdout is closed, the end of stderr is taken for that of
stdout, and the loop is not left any more unless `poll` fails (`Watching`).
`Placed` says what is in each of the buffers, and `Ended` that a stream that was
closed has been read to its end, if no error has cut it short. This needs to
know why the child has ended: SIGPIPE ends it early only after an error has
closed one stream, and then nothing of the other can be in the wrong buffer.

**`SchedulerProofs`**:

* `ChoiceIsLeast`: `Spec => []LeastWhenRead`;
* `TurnsAreEven`: `Spec => []RoundRobinEven`;
* `SchedulerImplementsQueue`: `Spec => ImplementsQueue`.

A scan that has come to the end of the pool must have an instance if there is
one, and the least of the loads it has read. What makes this inductive is
`ScanSound`: at every place of the scan, the least load so far is a lower bound
of what the instances behind it have *now*, because loads only grow. `GivenOld`
says that an answer was given when the pool was no larger than today, so that an
instance that joins disturbs no answer. `RoundRobinEven` needs to know where the
turns have come (`Even`): since the pool has its size, every instance has had
the same number of items, and those from some instance up to the cursor, around
the pool, one more; the cursor itself never stops growing and is not reset with
the pool. The refinement maps the item in the hand of the holder of `mu_` to the
head of what is pending: the pop at the beginning of a scan is a stutter, its
end is the delivery.

**`CorpusProofs`**:

* `SamplesSpread`: `Spec => []DrawsSpread`;
* `HashesAreDigests`: `Spec => []HashesContent`;
* `LossesAreClashes`: `Spec => []LostByClash`;
* `ScanReproducible`: `Spec => []Reproducible`;
* `HashIsDigest`: `Hash(data) = Digest(data)` for all `data`, and `UpdateTwice`.

A draw takes a new hash as long as there is one, and none afterwards. For this
only hashes of files are avoided, and the files do not change after the scan
(`Drawing`), where the sort only rearranges them.

The other four properties follow from one invariant, `Inv`, and from what the
hash is.

* `UpdateFeeds`, `UpdateTwice`, `HashIsDigest`: `update()` in closed form. It compresses the whole blocks of what the buffer had and the
  data, keeps the rest, and adds to the count (`Fed`). That the loop computes
  this is shown for every function that meets the equation of `Absorb`, along
  the length of the data (`LoopsFeed`), and such a function exists
  (`FeedingLoops`). Hence two calls are one with both data; the zeros of
  `PadZeros` fill the gap up to the place of the length (`PadsFill`), which is
  the least number that FIPS 180-4 allows (`LeastZeros`); and the length, taken
  before, is that of the data.
* `HashesAreDigests`: what a file has in it is among
  what it has held, which only grows (`Hashed`). What has been read of a file is
  how it begins, unless it was written to since the first `::read`; and each
  line of it was at its place anyway (`Reading`).
* `LossesAreClashes`: a name of the environment is that
  of an import, of a run, of a test so far or of the fallback of one (`Named`). The name of a
  fallback is none of the first kind, and if it is that of another fallback, the
  two tests have the same name. They are of different draws, because
  `generate()` makes no name twice (`GenerateTests`).
* `ScanReproducible`: as long as nobody changes a
  file, there is a set of directories that the walk has come to; what is in one
  of them is still to be seen, in one place only, or is left out, gone into or
  collected once (`Walked`). When the stack is empty this set is closed under
  going down, so that it is all that can be reached (`WalkFinds`). The files
  have different paths and are sorted, hence strictly.
* `CorpusTypes`: from the types in all of these and from
  `FoldLeftType`.

They assume a tree (`TreeAssumption`): nothing is in two directories. With
symbolic links to directories the walk may come to a file by two paths, or not
end. TLC evaluates `TypeOK` and the four properties on the run `corpus`; `Walked`
is below a quantifier over all sets, and only proved.

**`FoldTheorems`** has induction and recursion in the form the provers can use:
what is to be shown of all numbers, or of all subsets of a finite set, is that
they are in a set, and a step is a function, so that no theorem takes an
operator (`NatInductive`, `SubsetInductive`, `SubsetRecursive`). From these come
the type of a fold (`FoldLeftType`) and what `SumFunction` computes. A proof about
a recursive function `f` of the model unfolds the `CHOOSE` that `f` is.

Not proved, but checked by TLC:

* all liveness (`CallReturns`, `ShutdownReturns`, `Ends`, `NoOrphans`,
  `QuietReturns`, `Drains`): it needs fairness and `ENABLED`, which the proof
  system does not treat;
* everything of `Wire`: `JsonMin` is made of recursive operators, in whose
  presence the provers lose arithmetic.

## 6. Where the code and what is said of it differ

| Run | What the code does |
|---|---|
| `bridge_start` | `start` calls `shutdown` with `mu_` held: it waits for itself |
| `bridge_survives` | a write to a REPL that has died ends the orchestrator (SIGPIPE) |
| `pipeline_budget` | `join` waits for a worker inside a call, however late it is: the deadline of a call is not looked at inside the blocking `::read` |

`PROJECT.json` ("findings") quotes the lines. More differences have no run of
their own; the properties above are stated around them.

* After a late read every later call of the client returns the reply to an
  earlier command: `seqnum` is sent and never compared. `pantograph_bridge.h:43`
  has "one command line ... one response line". `LagBounded` says how far behind
  a reply can be.
* `orchestrator.cpp:369` has the workers of phase 3 "across active instances";
  they are at positions 0 to `spawned - 1` of `pool_`, which after a failed spawn
  are other instances. `SuccessNeedsRepl` is what is left.
* `random_lean_file_executed` passes on files of another session, or of a file
  that failed; `main_task.md:140-143` asks of each cycle to execute one.
* `orchestrator.cpp:313` says of the fallback "always succeeds". It fails when
  its name is taken. `LostByClash` says when that is.
* `orchestrator.cpp:196` says "via the instance the scheduler picks"; it is the
  first one that is alive.
* `scheduler.h:39` has `try_assign` return false "if empty"; under ROUND_ROBIN it
  also does when the pool is empty, and the item is lost (`Drop` of `WorkQueue`).
* `scheduler.cpp:64` gives "lower load instances" to items with a priority; the
  offset is the same for all instances, so that the priority changes nothing
  (`LeastWhenRead` holds of both kinds of item alike).
* `instance_manager.cpp:105-106` says itself that `restore` starts afresh and
  brings no environment back.
* `run_process` does not return for many children that write to stderr. If
  stdout ends in a pass of the loop in which stderr does not, position 0 of
  `pfds` is stderr from then on, its end clears the flag of stdout, and the
  loop spins for ever. And the reads after `poll` (commented "non-blocking
  read") do block: parent and child can wait for each other. `QuietReturns` is
  what is left.
* An error of `poll` or of `::read` cuts the result of `run_process` short, and
  the result does not say so: `exit_code` is that of the child. `ResultWhole`
  says which streams are whole all the same.
* `pantograph_bridge.cpp:122` has "send SIGTERM if still alive"; `shutdown`
  looks at nothing before it sends its signals. After the poll has reaped the
  process its pid is free, and SIGKILL (line 130), sent all the same, may meet a
  process of another program that has got it. `OwnSignals` says that this is the
  only thing that can go astray.
* Overlapping sessions can fork into a directory that another one has just
  made, between `dir_exists` and `ensure_dir` of `fork_into`: both then count
  it as their own fork. Both find it whole (`OwnDirsWhole`).
* `isolation_integrity` lists the directories before it looks into them: beside
  a fork that another session makes after the listing, and never completes, it
  may pass. `AbandonedFails` speaks of sessions that have yet to list.
* The hash of a file that is written to while it is read may be that of a text
  that the file has never held. `HashesContent` says what the text is then. The
  source that is kept is read anew, and need not be what was hashed.
* A reply with a `desc` that is no string ends `call` with an exception that
  nobody catches (`Throws` of `Wire`); `Answered` says that nothing else does.

## 7. What is not modelled

* `logger`: it appends lines that nothing reads.
* time: names made of milliseconds (`orchestrator.cpp:33`, `evidence.cpp:39`,
  `instance_manager.cpp:59`) are taken as distinct, and how long something takes
  is not said.
* the environment that a `restore` should bring back: the code does not try to.
* two users of a client with a `shutdown` between them: `PantographBridge` has it
  for one client, but its `waitpid(-1)` needs several (`Fleet` takes one user at a
  time for granted, which the program keeps to).
* symbolic links to directories in the corpus; directories that come and go
  during a scan. When exactly `readdir` returns an entry that is made during a
  listing of `work_root`: it is listed or not.
* of `read_file`, errors of `::read` once the file is open.
* of `json_min`: digits and their precision, indentation, nesting that is too
  deep for the stack. Of `sha256.h`: the compression of a block. Of
  `ffi_generator`: the regular expression, and what becomes of a type.
* the helpers of `util` for strings and time, which are pure.
* checks that depend on the clock or the build tree: `evaluation_throughput`,
  `runtime_budget`, `pantograph_dependency`.
* the arguments of `main`; `benchmark` and `memory-check`, which print a line.

## 8. Plan

The modules of the plan exist, every safety property that a run checks outside
`Wire` has its theorem, and liveness stays with TLC. What could come next:

1. `JsonMin` by recursive functions on positions of a text in place of recursive
   operators, as in `Sha256`; then that `parse` undoes `serialize` could be proved
   along the structure of values, and `Understood` with it;
2. a tree with links, in `Corpus`: which of its properties are left;
3. several users of a client in `Fleet` (see section 7).
