--------------------------- MODULE RunProcessProofs ---------------------------
(***************************************************************************)
(* Proofs about RunProcess, for every amount of output and every capacity  *)
(* of the pipes.                                                           *)
(*                                                                         *)
(* The buffers are right although they are indexed by positions of pfds,   *)
(* because a position is another number than its stream only in <<2>>: and *)
(* once stderr is watched alone, stdout has come to its end, open_[1] can  *)
(* no longer be cleared, and only a failed poll() lets run_process return  *)
(* (Watching).  That end is the end of what the child had to say, unless   *)
(* stdout was cut short: a child is killed by what it writes in vain only  *)
(* after an error has closed the other stream, and then nothing strays     *)
(* (Ended).                                                                *)
(***************************************************************************)
EXTENDS RunProcess, SequenceTheorems, TLAPS

\* What poll() watches and what is open.  A stream whose end went unnoticed
\* is open though its read end is closed: that is stderr, watched alone.
Watching ==
  /\ pc \in {"fork", "failed"} <=> child = "none"
  /\ child = "none" => open = Stream /\ pfds = <<>> /\ cut = {}
  /\ gaveUp => pc \in {"wait", "done"}
  /\ pc \in {"wait", "done"} => open = {} \/ gaveUp
  /\ pfds = <<2>> => open = {2}
  /\ pc = "read" /\ pfds = <<1>> => open = {1}
  /\ pc = "read" /\ pfds = <<1, 2>> => 2 \in open /\ (at = 1 => open = Stream)
  /\ child # "none" =>
       /\ readEnd \subseteq open /\ readEnd \cap cut = {}
       /\ ~gaveUp => \A k \in open \ readEnd : k = 2 /\ pfds = <<2>>

\* The parent has not stopped to read k before its end.
Whole(k) == ~gaveUp /\ k \notin cut

\* A stream that the child has closed has been written, and one that the
\* parent has closed has been read, to its end.
Ended ==
  /\ \A k \in Stream :
       /\ child = "none" => pipe[k] = 0 /\ toWrite[k] = output[k]
       /\ child = "running" /\ k \notin writeEnd => toWrite[k] = 0
       /\ child # "none" /\ k \notin readEnd /\ Whole(k) => pipe[k] = 0 /\ k \notin writeEnd
       /\ toWrite[k] + pipe[k] <= output[k]
  /\ child \in {"exited", "reaped"} /\ ~gaveUp /\ cut = {} => \A k \in Stream : toWrite[k] = 0

\* The buffers b and c hold m chunks of stdout and n of stderr: those of
\* stdout come first in b, and what follows them there is missing in c.
InPlace(b, c, m, n) ==
  /\ Len(b) + Len(c) = m + n /\ m <= Len(b)
  /\ \A j \in 1 .. Len(b) : b[j] = IF j <= m THEN 1 ELSE 2
  /\ \A j \in 1 .. Len(c) : c[j] = 2

\* Number of chunks of stream k that have left its pipe or never came into it.
Gone(k) == output[k] - toWrite[k] - pipe[k]

\* The m chunks of stdout and the n of stderr that the buffers hold are what
\* has left the pipes, and nothing follows stdout in its own buffer before
\* stderr is watched alone.
Filled(m, n) ==
  /\ InPlace(bufs[1], bufs[2], m, n)
  /\ m <= Gone(1)
  /\ Whole(1) => m = Gone(1)
  /\ Whole(2) => n = Gone(2)
  /\ m < Len(bufs[1]) => pfds = <<2>> /\ (m = output[1] \/ 1 \in cut)

Placed == \E m, n \in Nat : Filled(m, n)

IndInv == TypeOK /\ Watching /\ Ended /\ Placed

-----------------------------------------------------------------------------
(* Facts *)

\* c is b with n chunks of stream k at its end.
Added(b, c, n, k) ==
  /\ Len(c) = Len(b) + n
  /\ \A j \in 1 .. Len(c) : c[j] = IF j <= Len(b) THEN b[j] ELSE k

\* What one ::read adds to a buffer.
LEMMA Appended ==
  ASSUME NEW b \in Seq(Stream), NEW n \in Nat, NEW k \in Stream,
         NEW c, c = b \o [j \in 1 .. n |-> k]
  PROVE  c \in Seq(Stream) /\ Added(b, c, n, k)
<1>1. [j \in 1 .. n |-> k] \in Seq(Stream) /\ Len([j \in 1 .. n |-> k]) = n
  OBVIOUS
<1> QED
  BY <1>1 DEF Added

\* The buffers hold what was read also after more has come into the first ...
LEMMA PlacedFirst ==
  ASSUME NEW b \in Seq(Stream), NEW c \in Seq(Stream), NEW d \in Seq(Stream),
         NEW r \in Int, NEW q \in Int, NEW n \in Nat, NEW k, InPlace(b, d, r, q), Added(b, c, n, k)
  PROVE  /\ k = 2 => InPlace(c, d, r, q + n)
         /\ k = 1 /\ ~(r < Len(b)) => InPlace(c, d, r + n, q) /\ ~(r + n < Len(c))
<1>1. Len(b) \in Nat /\ Len(d) \in Nat /\ Len(c) = Len(b) + n
  BY DEF Added
<1>2. Len(b) + Len(d) = r + q /\ r <= Len(b)
  BY DEF InPlace
<1>3. ASSUME NEW j \in 1 .. Len(c)
      PROVE  c[j] = IF j <= r THEN 1 ELSE IF j <= Len(b) THEN 2 ELSE k
  <2>1. CASE j <= Len(b)
    <3>1. j \in 1 .. Len(b) /\ c[j] = b[j]
      BY <1>1, <2>1 DEF Added
    <3> QED
      BY <2>1, <3>1 DEF InPlace
  <2>2. CASE ~(j <= Len(b))
    BY <1>1, <1>2, <2>2 DEF Added
  <2> QED
    BY <2>1, <2>2
<1>4. CASE k = 2
  <2>1. Len(c) + Len(d) = r + (q + n) /\ r <= Len(c)
    <3>1. \A x, y \in Nat : x + y = r + q => (x + n) + y = r + (q + n)
      OBVIOUS
    <3>2. \A x \in Nat : r <= x => r <= x + n
      OBVIOUS
    <3>3. Len(c) + Len(d) = r + (q + n)
      BY <1>1, <1>2, <3>1
    <3> QED
      BY <1>1, <1>2, <3>2, <3>3
  <2>2. \A j \in 1 .. Len(c) : c[j] = IF j <= r THEN 1 ELSE 2
    BY <1>3, <1>4
  <2> QED
    BY <1>4, <2>1, <2>2 DEF InPlace
<1>5. CASE k = 1 /\ ~(r < Len(b))
  <2>1. r = Len(b)
    BY <1>1, <1>2, <1>5
  <2>2. \A j \in 1 .. Len(c) : c[j] = 1 /\ j <= r + n
    BY <1>1, <1>3, <1>5, <2>1
  <2>3. r + n <= Len(c) /\ ~(r + n < Len(c))
    BY <1>1, <2>1
  <2>4. Len(c) + Len(d) = (r + n) + q
    <3>1. Len(d) = q
      BY <1>1, <1>2, <2>1
    <3> QED
      BY <1>1, <2>1, <3>1
  <2> QED
    BY <1>5, <2>2, <2>3, <2>4 DEF InPlace
<1> QED
  BY <1>4, <1>5

\* ... or the second.
LEMMA PlacedSecond ==
  ASSUME NEW b \in Seq(Stream), NEW c \in Seq(Stream), NEW d \in Seq(Stream),
         NEW r \in Int, NEW q \in Int, NEW n \in Nat, InPlace(d, b, r, q), Added(b, c, n, 2)
  PROVE  InPlace(d, c, r, q + n)
<1>1. Len(b) \in Nat /\ Len(d) \in Nat /\ Len(c) = Len(b) + n
  BY DEF Added
<1>2. ASSUME NEW j \in 1 .. Len(c) PROVE c[j] = 2
  <2>1. c[j] = IF j <= Len(b) THEN b[j] ELSE 2
    BY DEF Added
  <2>2. j <= Len(b) => j \in 1 .. Len(b)
    BY <1>1
  <2> QED
    BY <2>1, <2>2 DEF InPlace
<1>3. Len(d) + Len(b) = r + q
  BY DEF InPlace
<1>4. \A x, y \in Nat : x + y = r + q => x + (y + n) = r + (q + n)
  OBVIOUS
<1>5. Len(d) + Len(c) = r + (q + n)
  BY <1>1, <1>3, <1>4
<1> QED
  BY <1>2, <1>5 DEF InPlace

\* What is gone is a number.
LEMMA GoneInt ==
  ASSUME TypeOK
  PROVE  Gone(1) \in Int /\ Gone(2) \in Int
<1>1. \A k \in Stream : output[k] \in Int /\ toWrite[k] \in Int /\ pipe[k] \in Int
  BY RunProcessAssumption DEF TypeOK
<1> QED
  BY <1>1 DEF Gone, Stream

\* stderr is watched alone.
StderrAlone == pfds = <<2>>

\* Buffers that are left alone keep what they hold, whatever becomes of the
\* child, as long as no stream becomes whole.
LEMMA SamePlaced ==
  ASSUME Placed, UNCHANGED <<bufs, output>>, Gone(1) \in Int, Gone(1)' \in Int,
         Gone(1) <= Gone(1)',
         \A k \in Stream : Whole(k)' => Whole(k) /\ Gone(k)' = Gone(k),
         StderrAlone => StderrAlone', cut \subseteq cut'
  PROVE  Placed'
<1>1. PICK m \in Nat, n \in Nat : Filled(m, n)
  BY DEF Placed
<1>2. InPlace(bufs'[1], bufs'[2], m, n)
  BY <1>1 DEF Filled
<1>3. m <= Gone(1)'
  BY <1>1 DEF Filled
<1>4. (Whole(1)' => m = Gone(1)') /\ (Whole(2)' => n = Gone(2)')
  BY <1>1 DEF Filled, Stream
<1>5. m < Len(bufs'[1]) => pfds' = <<2>> /\ (m = output'[1] \/ 1 \in cut')
  BY <1>1 DEF Filled, StderrAlone
<1> QED
  BY <1>2, <1>3, <1>4, <1>5 DEF Placed, Filled

\* Where the loop over pfds may be.
LEMMA AtFacts ==
  ASSUME TypeOK, pc = "read"
  PROVE  \/ pfds = <<1>> /\ Len(pfds) = 1 /\ at = 1 /\ pfds[at] = 1
         \/ pfds = <<2>> /\ Len(pfds) = 1 /\ at = 1 /\ pfds[at] = 2
         \/ pfds = <<1, 2>> /\ Len(pfds) = 2 /\ at \in {1, 2} /\ pfds[at] = at
<1>1. pfds \in {<<1>>, <<2>>, <<1, 2>>}
  BY DEF TypeOK
<1>2. CASE pfds = <<1>>
  BY <1>2 DEF TypeOK
<1>3. CASE pfds = <<2>>
  BY <1>3 DEF TypeOK
<1>4. CASE pfds = <<1, 2>>
  BY <1>4 DEF TypeOK
<1> QED
  BY <1>1, <1>2, <1>3, <1>4

\* poll() watches what is open.
LEMMA WatchedFacts ==
  ASSUME TypeOK, open # {}
  PROVE  /\ open = {1} => Watched = <<1>>
         /\ open = {2} => Watched = <<2>>
         /\ open = Stream => Watched = <<1, 2>>
         /\ open \in {{1}, {2}, Stream}
<1>1. open \in {{1}, {2}, Stream}
  BY DEF TypeOK, Stream
<1>2. CASE open = {1}
  BY <1>2 DEF Watched, OnlyOpen, Stream
<1>3. CASE open = {2}
  BY <1>3 DEF Watched, OnlyOpen, Stream
<1>4. CASE open = Stream
  <2>1. Watched = <<1>> \o <<2>>
    BY <1>4 DEF Watched, OnlyOpen, Stream
  <2>2. <<1>> \o <<2>> = <<1, 2>>
    <3> DEFINE w == <<1>> \o <<2>>
    <3>1. /\ w \in Seq({1, 2}) /\ Len(w) = 2 /\ w[1] = 1 /\ w[2] = 2
          /\ <<1, 2>> \in Seq({1, 2}) /\ Len(<<1, 2>>) = 2
      OBVIOUS
    <3>2. \A j \in 1 .. Len(w) : w[j] = <<1, 2>>[j]
      BY <3>1
    <3> HIDE DEF w
    <3> QED
      BY <3>1, <3>2, SeqEqual DEF w
  <2> QED
    BY <1>4, <2>1, <2>2 DEF Stream
<1> QED
  BY <1>1, <1>2, <1>3, <1>4

-----------------------------------------------------------------------------
(* Steps of the parent *)

\* The step is over, or the loop over pfds goes on to its next position.
LEMMA AdvanceFacts ==
  ASSUME TypeOK, pc = "read", Advance
  PROVE  \/ pc' = "poll"
         \/ pc' = "read" /\ pfds = <<1, 2>> /\ at = 1 /\ at' = 2
<1>1. CASE Len(pfds) = 1 /\ at = 1
  BY <1>1 DEF Advance
<1>2. CASE pfds = <<1, 2>> /\ Len(pfds) = 2 /\ at \in {1, 2}
  BY <1>2 DEF Advance
<1> QED
  BY <1>1, <1>2, AtFacts

\* fork(), or its failure.
LEMMA ForkNext ==
  ASSUME IndInv, Forks \/ ForkFails
  PROVE  IndInv'
<1> USE DEF IndInv, others, history
<1>1. TypeOK'
  BY DEF TypeOK, Forks, ForkFails
<1>2. Watching'
  BY DEF TypeOK, Watching, Forks, ForkFails
<1>3. Ended'
  BY DEF TypeOK, Watching, Ended, Whole, Forks, ForkFails
<1>4. UNCHANGED <<bufs, pfds, output, pipe, toWrite, gaveUp, cut>>
  BY DEF Forks, ForkFails
<1>5. Placed'
  BY <1>4, GoneInt, SamePlaced DEF Gone, Whole, StderrAlone
<1> QED
  BY <1>1, <1>2, <1>3, <1>5

\* poll() is asked again.
LEMMA PollNext ==
  ASSUME IndInv, Polls
  PROVE  IndInv'
<1> USE DEF IndInv, others, history
<1>1. /\ pc = "poll" /\ pc' = "read" /\ at' = 1 /\ open # {}
      /\ UNCHANGED <<open, bufs, readEnd, pipe, writeEnd, output, toWrite, child, gaveUp, cut>>
  BY DEF Polls
<1>2. \/ open = {1} /\ pfds' = <<1>> /\ pfds # <<2>>
      \/ open = {2} /\ pfds' = <<2>>
      \/ open = Stream /\ pfds' = <<1, 2>> /\ pfds # <<2>>
  BY <1>1, WatchedFacts DEF Polls, Watching, Stream
<1>3. pfds' \in {<<1>>, <<2>>, <<1, 2>>} /\ 1 \in DOMAIN pfds'
  BY <1>2
<1>4. TypeOK'
  BY <1>1, <1>3 DEF TypeOK
<1>5. Watching'
  <2>1. CASE open = {1} /\ pfds' = <<1>> /\ pfds # <<2>>
    BY <1>1, <2>1 DEF Watching
  <2>2. CASE open = {2} /\ pfds' = <<2>>
    BY <1>1, <2>2 DEF Watching
  <2>3. CASE open = Stream /\ pfds' = <<1, 2>> /\ pfds # <<2>>
    BY <1>1, <2>3 DEF Watching, Stream
  <2> QED
    BY <1>2, <2>1, <2>2, <2>3
<1>6. Ended'
  BY <1>1 DEF Ended, Whole
<1>7. Placed'
  <2>1. pfds = <<2>> => pfds' = <<2>>
    BY <1>2 DEF Watching, Stream
  <2> QED
    BY <1>1, <2>1, GoneInt, SamePlaced DEF Gone, Whole, StderrAlone
<1> QED
  BY <1>4, <1>5, <1>6, <1>7

\* Data comes into the buffer at the position of the stream.
LEMMA DataNext ==
  ASSUME IndInv, NEW k \in Stream, ReadsData(k)
  PROVE  IndInv'
<1> USE DEF IndInv, others, history
<1>1. /\ pc = "read" /\ pfds[at] = k /\ k \in readEnd /\ Advance
      /\ UNCHANGED <<pfds, open, readEnd, writeEnd, output, toWrite, child, gaveUp, cut>>
  BY DEF ReadsData, Reading
<1>2. PICK n \in 1 .. pipe[k] : /\ bufs' = [bufs EXCEPT ![at] = @ \o [j \in 1 .. n |-> k]]
                                /\ pipe' = [pipe EXCEPT ![k] = @ - n]
  BY DEF ReadsData
<1>3. n \in Nat /\ n <= pipe[k] /\ at \in Stream
  BY <1>1, AtFacts DEF TypeOK, Stream
<1>4. bufs'[at] \in Seq(Stream) /\ Added(bufs[at], bufs'[at], n, k)
  <2>1. bufs'[at] = bufs[at] \o [j \in 1 .. n |-> k] /\ bufs[at] \in Seq(Stream)
    BY <1>2, <1>3 DEF TypeOK
  <2> QED
    BY <1>3, <2>1, Appended
<1>5. \A l \in Stream \ {at} : bufs'[l] = bufs[l]
  BY <1>2, <1>3 DEF TypeOK
<1>6. TypeOK'
  <2>1. bufs' \in [Stream -> Seq(Stream)]
    BY <1>2, <1>3, <1>4 DEF TypeOK
  <2>2. pipe' \in [Stream -> 0 .. PipeCap]
    <3>1. pipe[k] - n \in 0 .. PipeCap
      <4>1. pipe[k] \in 0 .. PipeCap
        BY DEF TypeOK
      <4> QED
        BY <1>3, <4>1, RunProcessAssumption
    <3> QED
      BY <1>2, <3>1 DEF TypeOK
  <2>3. pc' \in {"poll", "read"} /\ (pc' = "read" => at' \in DOMAIN pfds')
    BY <1>1, AdvanceFacts
  <2> QED
    BY <1>1, <2>1, <2>2, <2>3 DEF TypeOK
<1>7. child # "none" /\ ~gaveUp
  BY <1>1 DEF Watching
<1>8. Watching'
  BY <1>1, <1>7, AdvanceFacts DEF Watching
<1>9. \A l \in Stream : pipe'[l] = IF l = k THEN pipe[l] - n ELSE pipe[l]
  BY <1>2, <1>3 DEF TypeOK
<1>10. \A l \in Stream : pipe[l] \in Nat /\ toWrite[l] \in Nat /\ output[l] \in Nat
  BY RunProcessAssumption DEF TypeOK
<1>11. Ended'
  BY <1>1, <1>3, <1>7, <1>9, <1>10 DEF Ended, Whole
<1>12. Placed'
  <2>1. PICK m \in Nat, q \in Nat : Filled(m, q)
    BY DEF Placed
  <2>2. /\ bufs[1] \in Seq(Stream) /\ bufs[2] \in Seq(Stream)
        /\ bufs'[1] \in Seq(Stream) /\ bufs'[2] \in Seq(Stream)
    BY <1>6 DEF TypeOK, Stream
  <2>3. /\ Gone(1)' = IF k = 1 THEN Gone(1) + n ELSE Gone(1)
        /\ Gone(2)' = IF k = 2 THEN Gone(2) + n ELSE Gone(2)
        /\ Gone(1) \in Int /\ Gone(2) \in Int
    BY <1>1, <1>3, <1>9, <1>10 DEF Gone, Stream
  <2>4. Whole(1)' = Whole(1) /\ Whole(2)' = Whole(2)
    BY <1>1 DEF Whole
  <2>5. InPlace(bufs[1], bufs[2], m, q) /\ m \in Int /\ q \in Int
    BY <2>1 DEF Filled
  <2>6. CASE pfds = <<2>> /\ at = 1 /\ k = 2
    <3>1. bufs'[2] = bufs[2] /\ Added(bufs[1], bufs'[1], n, 2)
      BY <1>4, <1>5, <2>6 DEF Stream
    <3>2. InPlace(bufs'[1], bufs[2], m, q + n)
      BY <1>3, <2>2, <2>5, <3>1, PlacedFirst
    <3>3. m = output[1] \/ 1 \in cut
      <4> SUFFICES ASSUME Whole(1) PROVE m = output[1]
        BY <1>7, <2>6 DEF Watching, Whole
      <4>1. 1 \notin readEnd /\ cut = {} /\ Whole(1)
        BY <1>1, <1>7, <2>6 DEF Watching, TypeOK, Whole, Stream
      <4>2. pipe[1] = 0 /\ 1 \notin writeEnd
        BY <1>7, <4>1 DEF Ended, Stream
      <4>3. toWrite[1] = 0
        BY <1>7, <4>1, <4>2 DEF Ended, TypeOK, Stream
      <4> QED
        BY <1>10, <2>1, <4>1, <4>2, <4>3 DEF Filled, Gone, Stream
    <3>4. Filled(m, q + n)'
      BY <1>1, <2>1, <2>3, <2>4, <2>6, <3>1, <3>2, <3>3 DEF Filled
    <3> QED
      BY <1>3, <3>4 DEF Placed
  <2>7. CASE pfds # <<2>> /\ at = 1 /\ k = 1
    <3>1. bufs'[2] = bufs[2] /\ Added(bufs[1], bufs'[1], n, 1)
      BY <1>4, <1>5, <2>7 DEF Stream
    <3>2. ~(m < Len(bufs[1]))
      BY <2>1, <2>7 DEF Filled
    <3>3. InPlace(bufs'[1], bufs[2], m + n, q) /\ ~(m + n < Len(bufs'[1]))
      BY <1>3, <2>2, <2>5, <3>1, <3>2, PlacedFirst
    <3>4. Filled(m + n, q)'
      BY <1>3, <2>1, <2>3, <2>4, <2>7, <3>1, <3>3 DEF Filled
    <3> QED
      BY <1>3, <3>4 DEF Placed
  <2>8. CASE pfds # <<2>> /\ at = 2 /\ k = 2
    <3>1. bufs'[1] = bufs[1] /\ Added(bufs[2], bufs'[2], n, 2)
      BY <1>4, <1>5, <2>8 DEF Stream
    <3>2. InPlace(bufs[1], bufs'[2], m, q + n)
      BY <1>3, <2>2, <2>5, <3>1, PlacedSecond
    <3>3. Filled(m, q + n)'
      BY <1>1, <2>1, <2>3, <2>4, <2>8, <3>1, <3>2 DEF Filled
    <3> QED
      BY <1>3, <3>3 DEF Placed
  <2>9. \/ pfds = <<2>> /\ at = 1 /\ k = 2
        \/ pfds # <<2>> /\ at = 1 /\ k = 1
        \/ pfds # <<2>> /\ at = 2 /\ k = 2
    BY <1>1, AtFacts
  <2> QED
    BY <2>6, <2>7, <2>8, <2>9
<1> QED
  BY <1>6, <1>8, <1>11, <1>12

\* A stream ends, fails, or is found closed.
LEMMA EndNext ==
  ASSUME IndInv, NEW k \in Stream, ReadsEof(k) \/ ReadFails(k) \/ ReadsClosed(k)
  PROVE  IndInv'
<1> USE DEF IndInv, others, history
<1>1. /\ pc = "read" /\ pfds[at] = k /\ Advance /\ open' = open \ {at}
      /\ UNCHANGED <<pfds, bufs, pipe, writeEnd, output, toWrite, child, gaveUp>>
  BY DEF ReadsEof, ReadFails, ReadsClosed, Reading
<1>2. child # "none" /\ ~gaveUp
  BY <1>1 DEF Watching
<1>3. readEnd' = readEnd \ {k}
  BY DEF ReadsEof, ReadFails, ReadsClosed
<1>4. \/ cut' = cut /\ (Whole(k) => pipe[k] = 0 /\ k \notin writeEnd)
      \/ cut' = cut \cup {k}
  BY <1>2 DEF ReadsEof, AtEnd, ReadFails, ReadsClosed, Ended
<1>5. TypeOK'
  <2>1. pc' \in {"poll", "read"} /\ (pc' = "read" => at' \in DOMAIN pfds')
    BY <1>1, AdvanceFacts
  <2> QED
    BY <1>1, <1>3, <1>4, <2>1 DEF TypeOK
<1>6. \/ pc' = "poll"
      \/ pc' = "read" /\ at = 1 /\ at' = 2
  BY <1>1, AdvanceFacts
<1>7. readEnd' \cap cut' = {}
  BY <1>2, <1>3, <1>4 DEF Watching
<1>8. Watching'
  <2> USE DEF Stream
  <2>1. CASE pfds = <<2>> /\ at = 1
    <3>1. open = {2} /\ open' = {2} /\ pc' = "poll"
      BY <1>1, <2>1, AdvanceFacts DEF Watching
    <3> QED
      BY <1>1, <1>2, <1>3, <1>7, <2>1, <3>1 DEF Watching
  <2>2. CASE pfds = <<1>> /\ at = 1 /\ k = 1 /\ pfds # <<2>>
    <3>1. open = {1} /\ open' = {} /\ pc' = "poll"
      BY <1>1, <2>2, AdvanceFacts DEF Watching
    <3> QED
      BY <1>1, <1>2, <1>3, <1>7, <2>2, <3>1 DEF Watching
  <2>3. CASE pfds = <<1, 2>> /\ at = k /\ pfds # <<2>> /\ pfds # <<1>>
    <3>1. readEnd = open
      BY <1>2, <2>3 DEF Watching
    <3>2. 2 \in open /\ (at = 1 => open = Stream)
      BY <1>1, <2>3 DEF Watching
    <3> QED
      BY <1>1, <1>2, <1>3, <1>6, <1>7, <2>3, <3>1, <3>2 DEF Watching
  <2> QED
    BY <1>1, <2>1, <2>2, <2>3, AtFacts
<1>9. \A l \in Stream : Whole(l)' => Whole(l) /\ (l = k => pipe[k] = 0 /\ k \notin writeEnd)
  BY <1>1, <1>4 DEF Whole
<1>10. Ended'
  BY <1>1, <1>2, <1>3, <1>4, <1>9 DEF Ended
<1>11. Placed'
  BY <1>1, <1>4, <1>9, GoneInt, SamePlaced DEF Gone, StderrAlone
<1> QED
  BY <1>5, <1>8, <1>10, <1>11

\* The loop ends, or is left, and the child is waited for.
LEMMA WaitNext ==
  ASSUME IndInv, PollFails \/ LoopEnds \/ Waits
  PROVE  IndInv'
<1> USE DEF IndInv, others, history
<1>1. /\ UNCHANGED <<pfds, at, open, bufs, pipe, writeEnd, output, toWrite, cut>>
      /\ child # "none" /\ child' # "none" /\ readEnd' \subseteq readEnd
      /\ gaveUp => gaveUp'
      /\ ~gaveUp' => open = {}
      /\ pc' \in {"wait", "done"}
  BY DEF PollFails, LoopEnds, Waits, Watching
<1>2. child' = child \/ (child = "exited" /\ child' = "reaped")
  <2>1. PollFails \/ LoopEnds => child' = child
    BY DEF PollFails, LoopEnds
  <2>2. Waits => child = "exited" /\ child' = "reaped"
    BY DEF Waits
  <2> QED
    BY <2>1, <2>2
<1>3. TypeOK'
  BY <1>1 DEF TypeOK, PollFails, LoopEnds, Waits
<1>4. Watching'
  BY <1>1, <1>2 DEF Watching
<1>5. Ended'
  <2>1. ~gaveUp' => readEnd' = readEnd
    BY <1>1 DEF Watching
  <2> QED
    BY <1>1, <1>2, <2>1 DEF Ended, Whole
<1>6. Placed'
  BY <1>1, GoneInt, SamePlaced DEF Gone, Whole, StderrAlone
<1> QED
  BY <1>3, <1>4, <1>5, <1>6

-----------------------------------------------------------------------------
(* Steps of the child *)

\* The child writes, in vain or not, closes a stream or exits.
LEMMA ChildNext ==
  ASSUME IndInv, ChildStep
  PROVE  IndInv'
<1> USE DEF IndInv, parent, history
<1>1. /\ UNCHANGED <<pc, pfds, at, open, bufs, readEnd, output, gaveUp, cut>>
      /\ child = "running" /\ child' \in {"running", "exited"}
  BY DEF ChildStep, ChildExits, ChildWrites, ChildWritesInVain, ChildCloses
<1>2. Watching'
  BY <1>1 DEF Watching
<1>3. \A l \in Stream : pipe[l] \in Nat /\ toWrite[l] \in Nat /\ output[l] \in Nat
  BY RunProcessAssumption DEF TypeOK
<1>4. CASE ChildExits
  <2>1. UNCHANGED <<pipe, writeEnd, toWrite>> /\ writeEnd = {}
    BY <1>4 DEF ChildExits
  <2>2. TypeOK' /\ Ended'
    BY <1>1, <2>1 DEF TypeOK, Ended, Whole
  <2>3. Gone(1)' = Gone(1) /\ Gone(2)' = Gone(2)
    BY <1>1, <2>1 DEF Gone
  <2>4. Placed'
    BY <1>1, <2>3, GoneInt, SamePlaced DEF Whole, Stream, StderrAlone
  <2> QED
    BY <1>2, <2>2, <2>4
<1>5. ASSUME NEW k \in Stream, ChildWrites(k) PROVE TypeOK' /\ Ended' /\ Placed'
  <2>1. /\ toWrite[k] > 0 /\ pipe[k] < PipeCap /\ k \in readEnd
        /\ writeEnd' = writeEnd /\ child' = child
        /\ toWrite' = [toWrite EXCEPT ![k] = @ - 1] /\ pipe' = [pipe EXCEPT ![k] = @ + 1]
    BY <1>5 DEF ChildWrites
  <2>2. \A l \in Stream :
          /\ toWrite'[l] = IF l = k THEN toWrite[l] - 1 ELSE toWrite[l]
          /\ pipe'[l] = IF l = k THEN pipe[l] + 1 ELSE pipe[l]
    BY <2>1 DEF TypeOK
  <2>3. TypeOK'
    <3>1. toWrite[k] - 1 \in 0 .. MaxChunks
      <4>1. toWrite[k] \in 0 .. MaxChunks
        BY DEF TypeOK
      <4> QED
        BY <2>1, <4>1, RunProcessAssumption
    <3>2. pipe[k] + 1 \in 0 .. PipeCap
      <4>1. pipe[k] \in 0 .. PipeCap
        BY DEF TypeOK
      <4> QED
        BY <2>1, <4>1, RunProcessAssumption
    <3> QED
      BY <1>1, <2>1, <3>1, <3>2 DEF TypeOK
  <2>4. Ended'
    <3>1. k \in writeEnd
      BY <1>1, <1>3, <2>1 DEF Ended
    <3> QED
      BY <1>1, <1>3, <2>1, <2>2, <3>1 DEF Ended, Whole
  <2>5. Gone(1)' = Gone(1) /\ Gone(2)' = Gone(2)
    BY <1>1, <1>3, <2>2 DEF Gone, Stream
  <2>6. Placed'
    BY <1>1, <2>5, GoneInt, SamePlaced DEF Whole, Stream, StderrAlone
  <2> QED
    BY <2>3, <2>4, <2>6
<1>6. ASSUME NEW k \in Stream, ChildWritesInVain(k) PROVE TypeOK' /\ Ended' /\ Placed'
  <2>1. toWrite[k] > 0 /\ k \notin readEnd /\ pipe' = pipe
    BY <1>6 DEF ChildWritesInVain
  <2>2. k \in writeEnd /\ ~Whole(k)
    BY <1>1, <1>3, <2>1 DEF Ended
  <2>3. CASE child' = "exited" /\ writeEnd' = {} /\ UNCHANGED toWrite
    <3>1. TypeOK' /\ Ended'
      BY <1>1, <2>1, <2>2, <2>3 DEF TypeOK, Ended, Whole
    <3> QED
      BY <1>1, <2>1, <2>3, <3>1, GoneInt, SamePlaced DEF Gone, Whole, StderrAlone
  <2>4. CASE toWrite' = [toWrite EXCEPT ![k] = @ - 1] /\ UNCHANGED <<child, writeEnd>>
    <3>1. \A l \in Stream : toWrite'[l] = IF l = k THEN toWrite[l] - 1 ELSE toWrite[l]
      BY <2>4 DEF TypeOK
    <3>2. toWrite[k] - 1 \in 0 .. MaxChunks
      <4>1. toWrite[k] \in 0 .. MaxChunks
        BY DEF TypeOK
      <4> QED
        BY <2>1, <4>1, RunProcessAssumption
    <3>3. TypeOK'
      BY <1>1, <2>1, <2>4, <3>2 DEF TypeOK
    <3>4. Ended'
      BY <1>1, <1>3, <2>1, <2>2, <2>4, <3>1 DEF Ended, Whole
    <3>5. /\ Gone(1) <= Gone(1)' /\ Gone(1)' \in Int
          /\ \A l \in Stream : Whole(l) => Gone(l)' = Gone(l)
      BY <1>1, <1>3, <2>1, <2>2, <3>1 DEF Gone, Stream
    <3>6. Placed'
      BY <1>1, <3>5, GoneInt, SamePlaced DEF Whole, StderrAlone
    <3> QED
      BY <3>3, <3>4, <3>6
  <2> QED
    BY <1>6, <2>3, <2>4 DEF ChildWritesInVain
<1>7. ASSUME NEW k \in Stream, ChildCloses(k) PROVE TypeOK' /\ Ended' /\ Placed'
  <2>1. toWrite[k] = 0 /\ writeEnd' = writeEnd \ {k} /\ UNCHANGED <<pipe, toWrite, child>>
    BY <1>7 DEF ChildCloses
  <2>2. TypeOK' /\ Ended'
    BY <1>1, <2>1 DEF TypeOK, Ended, Whole
  <2> QED
    BY <1>1, <2>1, <2>2, GoneInt, SamePlaced DEF Gone, Whole, StderrAlone
<1> QED
  BY <1>2, <1>4, <1>5, <1>6, <1>7 DEF ChildStep

-----------------------------------------------------------------------------
(* Invariance *)

\* Nothing has been written or read at first.
LEMMA InitInv == Init => IndInv
<1> SUFFICES ASSUME Init PROVE IndInv
  OBVIOUS
<1> USE RunProcessAssumption DEF Init, Stream
<1>1. TypeOK
  <2>1. <<>> \in Seq(Stream) /\ 0 \in 0 .. PipeCap
    OBVIOUS
  <2>2. bufs \in [Stream -> Seq(Stream)] /\ pipe \in [Stream -> 0 .. PipeCap]
    BY <2>1
  <2> QED
    BY <2>2 DEF TypeOK
<1>2. Watching /\ Ended
  BY DEF Watching, Ended
<1>3. Placed
  <2>1. Gone(1) = 0 /\ Gone(2) = 0
    BY DEF Gone
  <2>2. bufs[1] = <<>> /\ bufs[2] = <<>> /\ Len(bufs[1]) = 0 /\ Len(bufs[2]) = 0
    OBVIOUS
  <2>3. Filled(0, 0)
    BY <2>1, <2>2 DEF Filled, InPlace
  <2> QED
    BY <2>3 DEF Placed
<1> QED
  BY <1>1, <1>2, <1>3 DEF IndInv

\* The inductive invariant holds of every state that is reached.
THEOREM Invariance == Spec => []IndInv
<1>1. IndInv /\ [Next]_vars => IndInv'
  <2> SUFFICES ASSUME IndInv, [Next]_vars PROVE IndInv'
    OBVIOUS
  <2>1. CASE ParentStep
    BY <2>1, ForkNext, PollNext, DataNext, EndNext, WaitNext DEF ParentStep
  <2>2. CASE ChildStep
    BY <2>2, ChildNext
  <2>3. CASE UNCHANGED vars
    <3> USE <2>3 DEF vars, parent, others, history, IndInv
    <3>1. TypeOK' /\ Watching' /\ Ended'
      BY DEF TypeOK, Watching, Ended, Whole
    <3>2. Placed'
      BY GoneInt, SamePlaced DEF Gone, Whole, StderrAlone
    <3> QED
      BY <3>1, <3>2
  <2> QED
    BY <2>1, <2>2, <2>3 DEF Next
<1> QED
  BY InitInv, <1>1, PTL DEF Spec

\* The variables keep their types, and the loop stays within pfds.
THEOREM TypeCorrect == Spec => []TypeOK
BY Invariance, PTL DEF IndInv

\* What run_process returns, if no poll() has failed, is what the child has
\* written to the streams whose reads have not failed, in the right buffers.
THEOREM ReturnsWhole == Spec => []ResultWhole
<1>1. ASSUME IndInv, pc = "done", ~gaveUp, NEW k \in Stream \ cut
      PROVE  bufs[k] = Chunks(output[k] - toWrite[k], k)
  <2> USE <1>1 DEF IndInv
  <2>1. open = {} /\ child # "none" /\ pfds # <<2>> /\ k \notin readEnd /\ Whole(k)
    BY DEF Watching, Whole
  <2>2. PICK m \in Nat, n \in Nat : Filled(m, n)
    BY DEF Placed
  <2>3. bufs[1] \in Seq(Stream) /\ bufs[2] \in Seq(Stream)
    BY DEF TypeOK, Stream
  <2>4. Len(bufs[1]) = m /\ Len(bufs[2]) = n
    <3>1. Len(bufs[1]) \in Nat /\ Len(bufs[2]) \in Nat
      BY <2>3
    <3>2. Len(bufs[1]) + Len(bufs[2]) = m + n /\ m <= Len(bufs[1]) /\ ~(m < Len(bufs[1]))
      BY <2>1, <2>2 DEF Filled, InPlace
    <3>3. Len(bufs[1]) = m
      BY <3>1, <3>2
    <3> QED
      BY <3>1, <3>2, <3>3
  <2>5. /\ \A j \in 1 .. Len(bufs[1]) : bufs[1][j] = 1
        /\ \A j \in 1 .. Len(bufs[2]) : bufs[2][j] = 2
    BY <2>2, <2>4 DEF Filled, InPlace
  <2>6. pipe[k] = 0 /\ output[k] \in Nat /\ toWrite[k] \in Nat
    BY <2>1, RunProcessAssumption DEF Ended, TypeOK
  <2> DEFINE w == output[k] - toWrite[k]
  <2>7. Len(bufs[k]) = w /\ w \in Nat
    <3>1. Gone(k) = w
      BY <2>6 DEF Gone
    <3>2. Len(bufs[k]) = Gone(k)
      BY <2>1, <2>2, <2>4 DEF Filled, Stream
    <3> QED
      BY <2>2, <2>4, <3>1, <3>2 DEF Stream
  <2> HIDE DEF w
  <2>8. bufs[k] \in Seq(Stream) /\ (\A j \in 1 .. Len(bufs[k]) : bufs[k][j] = k)
    BY <2>3, <2>5 DEF Stream
  <2>9. Chunks(w, k) \in Seq(Stream) /\ Len(Chunks(w, k)) = w
    BY <2>7 DEF Chunks
  <2>10. \A j \in 1 .. Len(bufs[k]) : bufs[k][j] = Chunks(w, k)[j]
    BY <2>7, <2>8 DEF Chunks
  <2>11. bufs[k] = Chunks(w, k)
    BY <2>7, <2>8, <2>9, <2>10, SeqEqual
  <2> QED
    BY <2>11 DEF w
<1>2. IndInv => ResultWhole
  BY <1>1 DEF ResultWhole
<1> QED
  BY <1>2, Invariance, PTL

\* What strays into the buffer of stdout comes after stdout, whatever fails.
THEOREM StraysFollow == Spec => []StdoutFirst
<1>1. ASSUME IndInv PROVE StdoutFirst
  <2> USE <1>1 DEF IndInv
  <2>1. PICK m \in Nat, n \in Nat : Filled(m, n)
    BY DEF Placed
  <2>2. /\ bufs[1] \in Seq(Stream) /\ bufs[2] \in Seq(Stream)
        /\ Len(bufs[1]) \in Nat /\ DOMAIN bufs[1] = 1 .. Len(bufs[1])
        /\ DOMAIN bufs[2] = 1 .. Len(bufs[2])
    BY DEF TypeOK, Stream
  <2>3. \A j \in DOMAIN bufs[2] : bufs[2][j] = 2
    BY <2>1, <2>2 DEF Filled, InPlace
  <2>4. m \in 0 .. output[1]
    <3>1. output[1] \in Nat /\ toWrite[1] \in Nat /\ pipe[1] \in Nat
      BY RunProcessAssumption DEF TypeOK, Stream
    <3> QED
      BY <2>1, <3>1 DEF Filled, Gone
  <2>5. {i \in DOMAIN bufs[1] : bufs[1][i] = 1} = 1 .. m
    <3>1. m <= Len(bufs[1]) /\ (\A i \in 1 .. Len(bufs[1]) : bufs[1][i] = 1 <=> i <= m)
      BY <2>1 DEF Filled, InPlace
    <3> QED
      BY <2>2, <3>1
  <2>6. Len(bufs[1]) > m => m = output[1] \/ 1 \in cut
    BY <2>1, <2>2 DEF Filled
  <2> QED
    BY <2>3, <2>4, <2>5, <2>6 DEF StdoutFirst
<1> QED
  BY <1>1, Invariance, PTL
=============================================================================
