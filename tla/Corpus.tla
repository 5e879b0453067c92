------------------------------- MODULE Corpus -------------------------------
(***************************************************************************)
(* The Lean files of phases 1 and 2: CorpusSampler scans a tree and draws  *)
(* files (src/corpus_sampler.cpp), FfiGenerator makes theorems of them     *)
(* (src/ffi_generator.cpp), and the orchestrator adds them to the          *)
(* environment of a REPL (src/orchestrator.cpp).                           *)
(*                                                                         *)
(* A file is a number, in the order of rel_path.  Its bytes are its lines, *)
(* numbers too, each a declaration.  Other programs may change files while *)
(* the tree is scanned, and while a file is read, which takes one ::read   *)
(* for each Buffer lines.  Replies are the own ones (see PantographBridge);  *)
(* a REPL that dies ends both phases at its next call (see Pipeline).      *)
(***************************************************************************)
EXTENDS Sha256, TLC

CONSTANTS
  File,       \* the files
  Dir,        \* the directories
  Top,        \* root_
  Entries,    \* of each directory
  Lean,       \* the files whose name ends with .lean
  Skipped,    \* the directories that are never scanned, by their names
  Content,    \* what may be in a file
  Disks,      \* what may be on disk at first, a content for each file
  Gone,       \* in place of the content of a file that is not there
  Buffer,     \* the lines that one ::read takes at most (a streambuf)
  Head256,    \* the lines that are kept of a file that has more
  Part,       \* what names are made of
  Imported,   \* the names that the environment has from its imports
  DeclOf,     \* the declaration in each line: name, whether typed, whether the proof is simple
  SampleCap,  \* the most files that phase 1 takes (64)
  GenerateCap,\* the most files that phase 2 takes (48)
  MaxPerFile, \* the most tests of one file (2)
  MaxEdits    \* bound on the changes of files during a scan

\* The lines that there are.
Line == UNION {Range(c) : c \in Content}

\* A name is made of characters and of what the code puts around one.
Name == Seq(Part)

ASSUME CorpusAssumption ==
  /\ File \subseteq Nat \ {0} /\ Top \in Dir /\ File \cap Dir = {}
  /\ Skipped \subseteq Dir /\ Lean \subseteq File
  /\ {"leanffi_run_source_", "leanffi_trivial_", "1", "_kernel"} \subseteq Part
  /\ Content \subseteq Seq(Nat) /\ \A l \in Line : DeclOf[l].name \in Name
  /\ Imported \subseteq Name /\ Buffer \in Nat \ {0}
  /\ Gone \notin Content /\ Disks \subseteq [File -> Content \cup {Gone}]
  /\ Head256 \in Nat /\ SampleCap \in Nat /\ GenerateCap \in Nat
  /\ MaxPerFile \in Nat /\ MaxEdits \in Nat

\* A tree: nothing is in two directories, as it would be with links to them.
ASSUME TreeAssumption ==
  /\ Entries \in [Dir -> SUBSET (File \cup Dir)]
  /\ \A d, e \in Dir : Top \notin Entries[d] /\ (d # e => Entries[d] \cap Entries[e] = {})

VARIABLES
  disk,      \* what is in each file
  held,      \* history: all that has been in it since the scan began
  edits,     \* number of changes since
  todo,      \* for each walk() that is active, the entries that it has yet to see
  entry,     \* the file that the innermost is at: what is known of it
  reading,   \* whether read_file has that file open
  old,       \* if it has been replaced since, what it holds
  text,      \* what has been read of it
  torn,      \* history: whether it has been written to since the first ::read
  files,     \* files_
  phase,     \* of the orchestrator
  live,      \* whether there is an instance that is alive
  draws,     \* number of calls of sample() in the phase
  avoid,     \* the hashes of what they returned
  tests,     \* the names of the tests of the file that are still to be added
  declared,  \* the names that the environment of the REPL has
  tried,     \* history: the tests so far, each with its draw
  lost,      \* history: the positions of those that were refused twice
  hashed     \* history: what was read of which file for a hash

changes  == <<disk, held, edits>>
reader   == <<reading, old, text, torn>>
scanVars == <<changes, todo, entry, reader, files, hashed>>
testVars == <<tests, declared, tried, lost>>
vars     == <<scanVars, phase, live, draws, avoid, testVars>>

NoEntry == [path |-> 0, large |-> FALSE, hash |-> <<>>]

Hashes == {files[k].hash : k \in DOMAIN files}

\* The types of the variables.  Files of other kinds are not looked into, and
\* sources and tests are bounded (but for a file that grows during the scan).
TypeOK ==
  /\ disk \in [File -> Content \cup {Gone}] /\ held \in [File -> SUBSET (Content \cup {Gone})]
  /\ edits \in 0..MaxEdits
  /\ reading \in BOOLEAN /\ old \in Content \cup {Gone} /\ text \in Seq(Line) /\ torn \in BOOLEAN
  /\ hashed \subseteq [path : Lean, text : Seq(Line), torn : BOOLEAN]
  /\ todo \in Seq(SUBSET (File \cup Dir))
  /\ entry = NoEntry \/ entry \in [path : Lean, large : BOOLEAN, hash : Seq(Seq(Nat))]
  /\ files \in Seq([path : Lean, hash : Seq(Seq(Nat)), source : Seq(Line)])
  /\ edits = 0 => \A k \in DOMAIN files : Len(files[k].source) <= Head256
  /\ phase \in {"scan", "sample", "generate", "end"} /\ live \in BOOLEAN
  /\ draws \in Nat /\ avoid \subseteq Hashes
  /\ tests \in Seq(Name) /\ Len(tests) <= Max({MaxPerFile, 1})
  /\ declared \subseteq Name /\ tried \in Seq([name : Name, draw : Nat])
  /\ lost \subseteq DOMAIN tried

Init ==
  /\ disk \in Disks /\ held = [n \in File |-> {disk[n]}] /\ edits = 0
  /\ todo = <<Entries[Top]>> /\ entry = NoEntry /\ files = <<>>
  /\ reading = FALSE /\ old = Gone /\ text = <<>> /\ torn = FALSE /\ hashed = {}
  /\ phase = "scan" /\ live \in BOOLEAN
  /\ draws = 0 /\ avoid = {}
  /\ tests = <<>> /\ declared = Imported /\ tried = <<>> /\ lost = {}

-----------------------------------------------------------------------------
(* scan().  readdir gives the entries of a directory in any order. *)

Walking(n) == phase = "scan" /\ entry = NoEntry /\ todo # <<>> /\ n \in Last(todo)

\* The innermost walk() is through with n.
Ticked(n) == Append(Front(todo), Last(todo) \ {n})

\* A directory that is skipped for its name, a file that is not there any
\* more, a file of another kind.
Passes(n) ==
  /\ Walking(n)
  /\ n \in Skipped \/ n \in File \ Lean \/ (n \in File /\ disk[n] = Gone)
  /\ todo' = Ticked(n)
  /\ UNCHANGED <<changes, entry, reader, files, hashed, phase, live, draws, avoid, testVars>>

Descends(n) ==
  /\ Walking(n) /\ n \in Dir \ Skipped
  /\ todo' = Append(Ticked(n), Entries[n])
  /\ UNCHANGED <<changes, entry, reader, files, hashed, phase, live, draws, avoid, testVars>>

Ascends ==
  /\ phase = "scan" /\ entry = NoEntry /\ todo # <<>> /\ Last(todo) = {}
  /\ todo' = Front(todo)
  /\ UNCHANGED <<changes, entry, reader, files, hashed, phase, live, draws, avoid, testVars>>

Stats(n) ==
  /\ Walking(n) /\ n \in Lean /\ disk[n] # Gone
  /\ todo' = Ticked(n)
  /\ entry' = [path |-> n, large |-> Len(disk[n]) > Head256, hash |-> <<>>]
  /\ UNCHANGED <<changes, reader, files, hashed, phase, live, draws, avoid, testVars>>

-----------------------------------------------------------------------------
(* read_file *)

TextOf(c) == IF c = Gone THEN <<>> ELSE c

\* As if the file were opened anew for each part of it.
OpenedByPath == disk[entry.path]

\* What the open file holds now.
Opened  == IF old # Gone THEN old ELSE disk[entry.path]
Current == TextOf(Opened)

Opens ==
  /\ entry # NoEntry /\ ~reading /\ disk[entry.path] # Gone
  /\ reading' = TRUE
  /\ UNCHANGED <<changes, todo, entry, old, text, torn, files, hashed, phase, live, draws, avoid, testVars>>

\* One ::read, from where the last one has ended.
Reads ==
  /\ reading /\ Len(text) < Len(Current)
  /\ text' = text \o SubSeq(Current, Len(text) + 1, Min({Len(text) + Buffer, Len(Current)}))
  /\ UNCHANGED <<changes, todo, entry, reading, old, torn, files, hashed, phase, live, draws, avoid, testVars>>

\* A ::read that finds nothing more, or a file that cannot be opened: it is
\* empty.
ReadEnds ==
  /\ entry # NoEntry
  /\ IF reading THEN Len(text) >= Len(Current) ELSE disk[entry.path] = Gone
  /\ reading' = FALSE /\ old' = Gone /\ text' = <<>> /\ torn' = FALSE

\* sha256_of_file reads the file for itself.  A hash is never empty.
Hashing ==
  /\ ReadEnds /\ entry.hash = <<>>
  /\ entry' = [entry EXCEPT !.hash = Hash(text)]
  /\ hashed' = hashed \cup {[path |-> entry.path, text |-> text, torn |-> torn]}
  /\ UNCHANGED <<changes, todo, files, phase, live, draws, avoid, testVars>>

\* Sources of any size.
CollectsWhole ==
  /\ ReadEnds /\ entry.hash # <<>>
  /\ files' = Append(files, [path |-> entry.path, hash |-> entry.hash, source |-> text])
  /\ entry' = NoEntry
  /\ UNCHANGED <<changes, todo, hashed, phase, live, draws, avoid, testVars>>

\* The source is read once more.
Collects ==
  /\ ReadEnds /\ entry.hash # <<>>
  /\ LET src == IF entry.large THEN SubSeq(text, 1, Min({Head256, Len(text)})) ELSE text
     IN  files' = Append(files, [path |-> entry.path, hash |-> entry.hash, source |-> src])
  /\ entry' = NoEntry
  /\ UNCHANGED <<changes, todo, hashed, phase, live, draws, avoid, testVars>>

ByPath(a, b) == a.path < b.path

\* The files stay in the order of readdir.
ScansUnsorted ==
  /\ phase = "scan" /\ entry = NoEntry /\ todo = <<>>
  /\ phase' = "sample"
  /\ UNCHANGED <<scanVars, live, draws, avoid, testVars>>

Scanned ==
  /\ phase = "scan" /\ entry = NoEntry /\ todo = <<>>
  /\ \E p \in Bijection(DOMAIN files, DOMAIN files) :
       /\ \A j, k \in DOMAIN files : j < k => ~ByPath(files[p[k]], files[p[j]])
       /\ files' = [k \in DOMAIN files |-> files[p[k]]]
  /\ phase' = "sample"
  /\ UNCHANGED <<changes, todo, entry, reader, hashed, live, draws, avoid, testVars>>

-----------------------------------------------------------------------------
(* Other programs *)

Edits(n, c) ==
  /\ phase = "scan" /\ edits < MaxEdits /\ disk[n] # c
  /\ disk' = [disk EXCEPT ![n] = c] /\ held' = [held EXCEPT ![n] = @ \cup {c}]
  /\ edits' = edits + 1
  /\ UNCHANGED <<todo, entry, reading, text, files, hashed, phase, live, draws, avoid, testVars>>

\* The file that read_file has open is the one that is at n.
OpenAt(n) == reading /\ entry.path = n /\ old = Gone

\* The file at n is written to, or truncated.
Writes(n, c) ==
  /\ disk[n] # Gone /\ c # Gone
  /\ Edits(n, c)
  /\ torn' = (torn \/ (OpenAt(n) /\ text # <<>>))
  /\ UNCHANGED old

\* Another file takes the place of the one at n, or it is removed, or made.
\* Who has it open goes on with the old one, which nobody changes any more.
Replaces(n, c) ==
  /\ Edits(n, c)
  /\ old' = IF OpenAt(n) THEN disk[n] ELSE old
  /\ UNCHANGED torn

-----------------------------------------------------------------------------
(* sample() *)

\* The files whose hash is not to be avoided.
Preferred == {k \in DOMAIN files : files[k].hash \notin avoid}

\* Preference and fallback the wrong way round.
PoolAvoidedFirst == IF Preferred # DOMAIN files THEN DOMAIN files \ Preferred ELSE Preferred

Pool == IF Preferred # {} THEN Preferred ELSE DOMAIN files

\* rng_ may be at any number: any file of the pool is drawn.
Draws(k) == /\ k \in Pool
            /\ draws' = draws + 1 /\ avoid' = avoid \cup {files[k].hash}

\* Samples are left to take in a phase that takes at most cap.
More(cap) == draws < Min({cap, Len(files)})

-----------------------------------------------------------------------------
(* Phase 1: of its calls, one changes the environment. *)

\* A number in a name, which tells it from all others, as so many strokes.
Number(i) == [j \in 1..i |-> "1"]

RunSource(i) == <<"leanffi_run_source_">> \o Number(i)

\* Without a target the loop ends after its first draw.
SampleRuns ==
  /\ phase = "sample" /\ More(SampleCap)
  /\ draws = 0 \/ live
  /\ \E k \in DOMAIN files : Draws(k)
  /\ declared' = IF live THEN declared \cup {RunSource(draws)} ELSE declared
  /\ UNCHANGED <<scanVars, phase, live, tests, tried, lost>>

PhaseOver(cap) == ~More(cap) \/ (draws > 0 /\ ~live)

SamplesDone ==
  /\ phase = "sample" /\ PhaseOver(SampleCap)
  /\ phase' = "generate" /\ draws' = 0 /\ avoid' = {}
  /\ UNCHANGED <<scanVars, live, testVars>>

-----------------------------------------------------------------------------
(* Phase 2 *)

\* clean_ident, for names that the regular expression lets through.
Clean(name) ==
  FoldLeft(LAMBDA out, c : IF c \in {"'", "."} THEN out ELSE Append(out, c), <<>>, name)

Usable(l) == DeclOf[l].typed /\ DeclOf[l].simple

\* generate() without its set of names.
GenerateAll(source) ==
  FoldLeft(LAMBDA out, l :
             IF Len(out) < MaxPerFile /\ Usable(l) THEN Append(out, Clean(DeclOf[l].name)) ELSE out,
           <<>>, source)

\* generate(): the names of the tests.  seen has just these names.
Generate(source) ==
  FoldLeft(LAMBDA out, l :
             IF Len(out) < MaxPerFile /\ Usable(l) /\ Clean(DeclOf[l].name) \notin Range(out)
             THEN Append(out, Clean(DeclOf[l].name)) ELSE out,
           <<>>, source)

Trivial(i) == <<"leanffi_trivial_">> \o Number(i)
Kernel(name) == Append(name, "_kernel")

Generates ==
  /\ phase = "generate" /\ tests = <<>> /\ More(GenerateCap)
  /\ draws = 0 \/ live
  /\ \E k \in DOMAIN files :
       /\ Draws(k)
       /\ tests' = IF ~live THEN <<>>
                   ELSE IF Generate(files[k].source) # <<>> THEN Generate(files[k].source)
                   ELSE <<Trivial(draws)>>
  /\ UNCHANGED <<scanVars, phase, live, declared, tried, lost>>

\* The next test is done.
Tries ==
  /\ phase = "generate" /\ tests # <<>>
  /\ tests' = Tail(tests)
  /\ tried' = Append(tried, [name |-> Head(tests), draw |-> draws])
  /\ UNCHANGED <<scanVars, phase, live, draws, avoid>>

\* env_add under the own name: the kernel accepts the type, and the name is
\* new.
AddsTest ==
  /\ Tries
  /\ Head(tests) \notin declared
  /\ declared' = declared \cup {Head(tests)}
  /\ UNCHANGED lost

\* The fallback, after a type that the kernel refuses or a name that it has.
AddsKernel ==
  /\ Tries
  /\ Head(tests) \in declared \/ Head(tests) # Trivial(draws - 1)
  /\ Kernel(Head(tests)) \notin declared
  /\ declared' = declared \cup {Kernel(Head(tests))}
  /\ UNCHANGED lost

Loses ==
  /\ Tries
  /\ Head(tests) \in declared \/ Head(tests) # Trivial(draws - 1)
  /\ Kernel(Head(tests)) \in declared
  /\ lost' = lost \cup {Len(tried')}
  /\ UNCHANGED declared

GeneratesDone ==
  /\ phase = "generate" /\ tests = <<>> /\ PhaseOver(GenerateCap)
  /\ phase' = "end"
  /\ UNCHANGED <<scanVars, live, draws, avoid, testVars>>

-----------------------------------------------------------------------------

Next ==
  \/ \E n \in File \cup Dir : Passes(n) \/ Descends(n) \/ Stats(n)
  \/ Ascends \/ Opens \/ Reads \/ Hashing \/ Collects \/ Scanned
  \/ \E n \in Lean, c \in Content \cup {Gone} : Writes(n, c) \/ Replaces(n, c)
  \/ SampleRuns \/ SamplesDone
  \/ Generates \/ AddsTest \/ AddsKernel \/ Loses \/ GeneratesDone

Spec == Init /\ [][Next]_vars

-----------------------------------------------------------------------------
(* Properties *)

\* The directories that are scanned: what is in all sets of directories that
\* have the top one and those that one of them leads to.
LeadsTo(d) == (Entries[d] \cap Dir) \ Skipped
Closed(D)  == Top \in D /\ \A d \in D : LeadsTo(d) \subseteq D
Reached    == {d \in Dir : \A D \in SUBSET Dir : Closed(D) => d \in D}

\* The Lean files of the tree when nobody changes it.
Found == {n \in Lean : disk[n] # Gone /\ \E d \in Reached : n \in Entries[d]}

Kept(c) == SubSeq(c, 1, Min({Head256, Len(c)}))

\* What scan() finds is a function of the tree, whatever the order in which
\* readdir lists it: each file once, by its path, with the digest of all of
\* it.  So a seed determines what is drawn.
Reproducible ==
  edits = 0 /\ phase # "scan" =>
    /\ Range(files) = {[path |-> n, hash |-> Digest(disk[n]), source |-> Kept(disk[n])] : n \in Found}
    /\ \A j, k \in DOMAIN files : j < k => files[j].path < files[k].path

\* Every line of t was at its place in the file when that held one of H.
Spliced(t, H) == \A j \in DOMAIN t : \E c \in H : j \in DOMAIN TextOf(c) /\ t[j] = TextOf(c)[j]

\* Also when files are changed during the scan, a hash in the evidence is the
\* digest of something that the file has held since, or of nothing if it has
\* gone, even if the file has been replaced while it was read.  Only if the
\* file was written to between two reads of it may the digest be one of
\* something it has never held: a mixture, each line of which was there.
HashesContent ==
  \A k \in DOMAIN files : \E h \in hashed :
    /\ h.path = files[k].path /\ files[k].hash = Digest(h.text)
    /\ Spliced(h.text, held[h.path])
    /\ h.torn \/ \E c \in held[h.path] : h.text = TextOf(c)

\* A phase draws as many different contents as it can: none is drawn again
\* before all have been drawn, also if files are equal.
DrawsSpread ==
  phase # "scan" => Cardinality(avoid) = Min({draws, Cardinality(Hashes)})

\* The fallback fails too only if the names really clash: there was a test of
\* the same name from an earlier draw, or one that had the name of the
\* fallback, or an import has that name.
LostByClash ==
  \A p \in lost :
     \/ Kernel(tried[p].name) \in Imported
     \/ \E q \in 1 .. p - 1 :
          \/ tried[q].name = tried[p].name /\ tried[q].draw # tried[p].draw
          \/ tried[q].name = Kernel(tried[p].name)
=============================================================================
