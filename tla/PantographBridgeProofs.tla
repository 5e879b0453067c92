---------------------- MODULE PantographBridgeProofs ----------------------
(***************************************************************************)
(* Proofs about PantographBridge, for every set of callers, every number   *)
(* of calls and every choice of faults.                                    *)
(*                                                                         *)
(* LagBounded and InOrder speak of the past (replies).  What makes them    *)
(* inductive is a count kept over the whole life of the client: every read *)
(* that succeeds moves the client past one line end, every read that fails *)
(* is a slip, so the lines the client is past and the slips together are   *)
(* at least the commands sent (Backlog), while the REPL is never ahead of  *)
(* the commands it was sent (Streams).                                     *)
(***************************************************************************)
EXTENDS PantographBridge, TLAPS

\* start() has returned TRUE.
Booted == \/ owner \in {"up", "reaping", "down"}
          \/ owner = "closing" /\ mu # Owner

\* What Owner's place in its code says about the rest.
Lifecycle ==
  /\ attached <=> owner \in {"booting", "up", "closing", "reaping"}
  /\ mu = Owner => owner \in {"booting", "closing", "reaping"}
  /\ owner \in {"fresh", "unstarted"} =>
        /\ mu = Nobody /\ proc = "none" /\ extra = 0 /\ taken = 0 /\ written = 0
        /\ consumed = 0 /\ start = 0
  /\ ~Booted => sent = 0 /\ slips = 0 /\ replies = {}

\* The REPL is never ahead of its input, nor the client of its input.
Streams ==
  /\ taken <= sent
  /\ written <= Due
  /\ consumed <= written
  /\ start <= consumed

\* Lines passed and reads failed account for every command sent.
Backlog ==
  /\ Booted /\ (\A c \in Caller : pc[c] # "reading")
        => sent + 1 <= consumed \div 2 + slips
  /\ \A c \in Caller : pc[c] = "reading" =>
        /\ Booted
        /\ sent > 0 /\ slot[c] = sent
        /\ sent <= start \div 2 + slips

\* Where the recorded replies lie.
Recorded ==
  /\ \A p \in replies : p.call <= sent /\ p.line < consumed \div 2
  /\ \A c \in Caller : pc[c] = "reading" =>
        \A p \in replies : p.call < sent /\ p.line < start \div 2

IndInv ==
  /\ TypeOK
  /\ Exclusive
  /\ Lifecycle
  /\ Streams
  /\ Backlog
  /\ Recorded
  /\ LagBounded
  /\ InOrder

-----------------------------------------------------------------------------
(* Reads *)

\* What a ::read of the client may leave behind: it never moves backwards,
\* nor past what was written, and the read in progress keeps its start.
LEMMA ReadFacts ==
  ASSUME TypeOK, Streams
  PROVE  /\ ReadsLine => /\ consumed' \in Nat /\ start' = start /\ late' = late
                         /\ consumed <= consumed' /\ consumed' <= written
                         /\ start \div 2 < consumed' \div 2
         /\ KeepsReading => /\ consumed' \in Nat /\ start' = start /\ late' = late
                            /\ consumed <= consumed' /\ consumed' <= written
         /\ ReadFails => /\ consumed' \in Nat /\ start' = start /\ late' = late
                         /\ consumed <= consumed' /\ consumed' <= written
<1>1. ASSUME NEW n \in Available, Consume(n)
      PROVE  /\ n \in Nat /\ consumed' = consumed + n /\ consumed' \in Nat
             /\ start' = start /\ late' = late
             /\ consumed <= consumed' /\ consumed' <= written
  BY <1>1 DEF TypeOK, Streams, Available, Consume
<1>2. ASSUME NEW n \in Available, Consume(n), LineEnds(n)
      PROVE  start \div 2 < consumed' \div 2
  BY <1>1, <1>2 DEF LineEnds, TypeOK
<1>3. AtEof /\ UNCHANGED stream =>
        /\ consumed' \in Nat /\ start' = start /\ late' = late
        /\ consumed <= consumed' /\ consumed' <= written
  BY DEF TypeOK, Streams, stream
<1> QED
  BY <1>1, <1>2, <1>3 DEF ReadsLine, ReadsPart, KeepsReading, ReadFails

-----------------------------------------------------------------------------
(* Types *)

LEMMA TypeInit == Init => TypeOK
<1> SUFFICES ASSUME Init PROVE TypeOK
  OBVIOUS
<1> USE BridgeAssumption DEF Init, OwnerStates, CallerStates, Results
<1>1. slot \in [Caller -> Nat] /\ pc \in [Caller -> CallerStates]
  OBVIOUS
<1>2. result \in [Caller -> Results]
  OBVIOUS
<1>3. /\ mu \in Caller \cup {Owner, Nobody}
      /\ owner \in OwnerStates /\ seqnum \in 0..MaxCalls
      /\ extra \in 0..1 /\ sent \in Nat /\ taken \in Nat
  OBVIOUS
<1>4. /\ written \in Nat /\ consumed \in Nat /\ start \in Nat
      /\ slips \in Nat
      /\ replies \subseteq [call : Nat, line : Nat, slips : Nat]
      /\ proc \in {"none", "running", "dead", "reaped"}
  OBVIOUS
<1>5. attached \in BOOLEAN /\ late \in BOOLEAN /\ killed \in BOOLEAN
  OBVIOUS
<1> QED
  BY <1>1, <1>2, <1>3, <1>4, <1>5 DEF TypeOK

\* Streams is needed for the reads to stay within the naturals.
LEMMA TypeNext == TypeOK /\ Streams /\ [Next]_vars => TypeOK'
<1> SUFFICES ASSUME TypeOK, Streams, [Next]_vars PROVE TypeOK'
  OBVIOUS
<1> USE BridgeAssumption DEF TypeOK, client, stream, repl, hist,
        OwnerStates, CallerStates, Results
<1>1. CASE StartRefused
  BY <1>1 DEF StartRefused
<1>2. CASE StartSpawn
  <2>1. extra' \in 0..1 /\ start' \in Nat /\ late' \in BOOLEAN
    BY <1>2 DEF StartSpawn, OpenRead
  <2> QED
    BY <1>2, <2>1 DEF StartSpawn
<1>3. CASE BootLine
  BY <1>3, ReadFacts DEF BootLine
<1>4. CASE BootKeepsReading
  BY <1>4, ReadFacts DEF BootKeepsReading
<1>5. CASE BootFails
  BY <1>5, ReadFacts DEF BootFails
<1>6. CASE Retire
  BY <1>6 DEF Retire
<1>7. CASE ShutdownBegins
  BY <1>7 DEF ShutdownBegins
<1>8. CASE ShutdownSigpipe
  BY <1>8 DEF ShutdownSigpipe
<1>9. CASE ShutdownReaps
  BY <1>9 DEF ShutdownReaps
<1>10. ASSUME NEW c \in Caller, CallRefused(c) PROVE TypeOK'
  BY <1>10 DEF CallRefused
<1>11. ASSUME NEW c \in Caller, CallBegins(c) PROVE TypeOK'
  BY <1>11 DEF CallBegins
<1>12. ASSUME NEW c \in Caller, CallSends(c) PROVE TypeOK'
  <2>1. slot' \in [Caller -> Nat] /\ sent' \in Nat
    BY <1>12 DEF CallSends
  <2>2. start' \in Nat /\ late' \in BOOLEAN
    BY <1>12 DEF CallSends, OpenRead
  <2> QED
    BY <1>12, <2>1, <2>2 DEF CallSends
<1>13. ASSUME NEW c \in Caller, CallSigpipe(c) PROVE TypeOK'
  BY <1>13 DEF CallSigpipe
<1>14. ASSUME NEW c \in Caller, CallOnClosed(c) PROVE TypeOK'
  BY <1>14 DEF CallOnClosed
<1>15. ASSUME NEW c \in Caller, CallLine(c) PROVE TypeOK'
  <2>1. consumed' \in Nat /\ start' = start /\ late' = late
    BY <1>15, ReadFacts DEF CallLine
  <2>2. replies' \subseteq [call : Nat, line : Nat, slips : Nat]
    BY <1>15 DEF CallLine, ReadLine
  <2> QED
    BY <1>15, <2>1, <2>2 DEF CallLine, Returns
<1>16. ASSUME NEW c \in Caller, CallKeepsReading(c) PROVE TypeOK'
  BY <1>16, ReadFacts DEF CallKeepsReading
<1>17. ASSUME NEW c \in Caller, CallFails(c) PROVE TypeOK'
  BY <1>17, ReadFacts DEF CallFails, Returns
<1>18. CASE ReplTakes
  BY <1>18 DEF ReplTakes
<1>19. CASE ReplWrites
  BY <1>19 DEF ReplWrites
<1>20. CASE ReplDies
  BY <1>20 DEF ReplDies
<1>21. CASE ReplTerminated
  BY <1>21 DEF ReplTerminated
<1>22. CASE DeadlinePasses
  BY <1>22 DEF DeadlinePasses
<1>23. CASE UNCHANGED vars
  BY <1>23 DEF vars
<1> QED
  BY <1>1, <1>2, <1>3, <1>4, <1>5, <1>6, <1>7, <1>8, <1>9, <1>10, <1>11,
     <1>12, <1>13, <1>14, <1>15, <1>16, <1>17, <1>18, <1>19, <1>20, <1>21,
     <1>22, <1>23
  DEF Next, StartStep, ShutdownStep, CallStep, ReplStep

-----------------------------------------------------------------------------
(* The mutex and the life of the client *)

LEMMA ControlInit == Init => Exclusive /\ Lifecycle
BY BridgeAssumption DEF Init, Exclusive, Lifecycle, Booted

\* A reader holds the mutex of a client that has started.
LEMMA ReaderFacts ==
  ASSUME TypeOK, Exclusive, Lifecycle, NEW c \in Caller, Reading(c)
  PROVE  /\ mu = c /\ c # Owner /\ c # Nobody /\ Booted
         /\ \A d \in Caller : pc[d] = "reading" => d = c
<1>1. pc[c] = "reading"
  BY DEF Reading
<1>2. mu = c /\ c # Owner /\ c # Nobody
  BY <1>1, BridgeAssumption DEF Exclusive
<1>3. owner \notin {"fresh", "unstarted", "booting"}
  BY <1>2 DEF Exclusive, Lifecycle
<1>4. Booted
  BY <1>2, <1>3 DEF Booted, TypeOK, OwnerStates
<1> QED
  BY <1>2, <1>4 DEF Exclusive

LEMMA ControlNext ==
  TypeOK /\ Streams /\ Exclusive /\ Lifecycle /\ [Next]_vars => Exclusive' /\ Lifecycle'
<1> SUFFICES ASSUME TypeOK, Streams, Exclusive, Lifecycle, [Next]_vars
             PROVE  Exclusive' /\ Lifecycle'
  OBVIOUS
<1> USE BridgeAssumption DEF TypeOK, Exclusive, Lifecycle, Booted,
        client, stream, repl, hist
<1>1. CASE StartRefused
  BY <1>1 DEF StartRefused
<1>2. CASE StartSpawn
  BY <1>2 DEF StartSpawn
<1>3. CASE BootLine
  BY <1>3 DEF BootLine
<1>4. CASE BootKeepsReading
  BY <1>4 DEF BootKeepsReading
<1>5. CASE BootFails
  BY <1>5 DEF BootFails
<1>6. CASE Retire
  BY <1>6 DEF Retire
<1>7. CASE ShutdownBegins
  BY <1>7 DEF ShutdownBegins, ClosingLocked
<1>8. CASE ShutdownSigpipe
  BY <1>8 DEF ShutdownSigpipe
<1>9. CASE ShutdownReaps
  BY <1>9 DEF ShutdownReaps
<1>10. ASSUME NEW c \in Caller, CallRefused(c) PROVE Exclusive' /\ Lifecycle'
  BY <1>10 DEF CallRefused
<1>11. ASSUME NEW c \in Caller, CallBegins(c) PROVE Exclusive' /\ Lifecycle'
  BY <1>11 DEF CallBegins
<1>12. ASSUME NEW c \in Caller, CallSends(c) PROVE Exclusive' /\ Lifecycle'
  BY <1>12 DEF CallSends, Locked
<1>13. ASSUME NEW c \in Caller, CallSigpipe(c) PROVE Exclusive' /\ Lifecycle'
  BY <1>13 DEF CallSigpipe
<1>14. ASSUME NEW c \in Caller, CallOnClosed(c) PROVE Exclusive' /\ Lifecycle'
  BY <1>14 DEF CallOnClosed, Locked
<1>15. ASSUME NEW c \in Caller, CallLine(c) PROVE Exclusive' /\ Lifecycle'
  <2>1. mu = c /\ c # Owner /\ c # Nobody /\ Booted
    BY <1>15, ReaderFacts DEF CallLine
  <2>2. Exclusive'
    BY <1>15, <2>1 DEF CallLine, Returns
  <2>3. Lifecycle'
    BY <1>15, <2>1 DEF CallLine, Returns
  <2> QED
    BY <2>2, <2>3
<1>16. ASSUME NEW c \in Caller, CallKeepsReading(c) PROVE Exclusive' /\ Lifecycle'
  BY <1>16 DEF CallKeepsReading, Reading
<1>17. ASSUME NEW c \in Caller, CallFails(c) PROVE Exclusive' /\ Lifecycle'
  <2>1. mu = c /\ c # Owner /\ c # Nobody /\ Booted
    BY <1>17, ReaderFacts DEF CallFails
  <2>2. Exclusive'
    BY <1>17, <2>1 DEF CallFails, Returns
  <2>3. Lifecycle'
    BY <1>17, <2>1 DEF CallFails, Returns
  <2> QED
    BY <2>2, <2>3
<1>18. CASE ReplTakes
  BY <1>18 DEF ReplTakes
<1>19. CASE ReplWrites
  BY <1>19 DEF ReplWrites
<1>20. CASE ReplDies
  BY <1>20 DEF ReplDies
<1>21. CASE ReplTerminated
  BY <1>21 DEF ReplTerminated
<1>22. CASE DeadlinePasses
  BY <1>22 DEF DeadlinePasses
<1>23. CASE UNCHANGED vars
  BY <1>23 DEF vars
<1> QED
  BY <1>1, <1>2, <1>3, <1>4, <1>5, <1>6, <1>7, <1>8, <1>9, <1>10, <1>11,
     <1>12, <1>13, <1>14, <1>15, <1>16, <1>17, <1>18, <1>19, <1>20, <1>21,
     <1>22, <1>23
  DEF Next, StartStep, ShutdownStep, CallStep, ReplStep

-----------------------------------------------------------------------------
(* The streams and what they have to do with the commands                  *)

LEMMA StreamsInit == Init => Streams /\ Backlog /\ Recorded /\ LagBounded /\ InOrder
BY DEF Init, Streams, Backlog, Recorded, LagBounded, InOrder, Booted, Due

\* Steps that neither read, nor write, nor begin or end a call or start().
\* (Owner may move between the states in which the client has started.)
Quiet == /\ UNCHANGED <<extra, taken, written, consumed, start, sent, hist, slot>>
         /\ Booted' => Booted
         /\ Booted => Booted'
         /\ \A c \in Caller : pc[c] = "reading" <=> pc'[c] = "reading"
         /\ proc' = "running" => proc = "running"
         /\ owner' = "down" => owner = "down" \/ proc' # "running"
         /\ late' = late \/ "late" \in Faults

LEMMA QuietSteps ==
  ASSUME TypeOK, Exclusive, Lifecycle, [Next]_vars
  PROVE  \/ Quiet
         \/ StartSpawn \/ BootLine \/ BootKeepsReading \/ BootFails
         \/ \E c \in Caller : \/ CallSends(c) \/ CallLine(c)
                              \/ CallKeepsReading(c) \/ CallFails(c)
         \/ ReplStep
<1> USE DEF TypeOK, Booted, Quiet, client, stream, repl, hist, CallerStates
<1>1. CASE StartRefused
  BY <1>1 DEF StartRefused
<1>2. CASE Retire
  <2>1. mu # Owner
    BY <1>2 DEF Retire, Lifecycle
  <2> QED
    BY <1>2, <2>1 DEF Retire
<1>3. CASE ShutdownBegins
  BY <1>3, BridgeAssumption DEF ShutdownBegins, ClosingLocked
<1>4. CASE ShutdownSigpipe
  BY <1>4 DEF ShutdownSigpipe
<1>5. CASE ShutdownReaps
  BY <1>5 DEF ShutdownReaps
<1>6. ASSUME NEW c \in Caller, CallRefused(c) PROVE Quiet
  BY <1>6 DEF CallRefused
<1>7. ASSUME NEW c \in Caller, CallBegins(c) PROVE Quiet
  BY <1>7 DEF CallBegins
<1>8. ASSUME NEW c \in Caller, CallSigpipe(c) PROVE Quiet
  BY <1>8 DEF CallSigpipe
<1>9. ASSUME NEW c \in Caller, CallOnClosed(c) PROVE Quiet
  BY <1>9 DEF CallOnClosed, Locked
<1>10. CASE ReplDies
  BY <1>10 DEF ReplDies
<1>11. CASE ReplTerminated
  BY <1>11 DEF ReplTerminated
<1>12. CASE DeadlinePasses
  BY <1>12 DEF DeadlinePasses
<1>13. CASE UNCHANGED vars
  BY <1>13 DEF vars
<1> QED
  BY <1>1, <1>2, <1>3, <1>4, <1>5, <1>6, <1>7, <1>8, <1>9, <1>10, <1>11,
     <1>12, <1>13
  DEF Next, StartStep, ShutdownStep, CallStep

LEMMA StreamsNext ==
  TypeOK /\ Exclusive /\ Lifecycle /\ Streams /\ [Next]_vars => Streams'
<1> SUFFICES ASSUME TypeOK, Exclusive, Lifecycle, Streams, [Next]_vars
             PROVE  Streams'
  OBVIOUS
<1> USE DEF TypeOK, Streams, Due, client, stream, repl, hist
<1>1. CASE Quiet
  BY <1>1 DEF Quiet
<1>2. CASE StartSpawn
  <2>1. taken = 0 /\ written = 0 /\ consumed = 0
    BY <1>2 DEF StartSpawn, Lifecycle
  <2>2. extra' \in 0..1 /\ start' = consumed
    BY <1>2 DEF StartSpawn, OpenRead
  <2> QED
    <3>1. taken' = 0 /\ written' = 0 /\ consumed' = 0 /\ start' = 0 /\ sent' = sent
      BY <1>2, <2>1, <2>2 DEF StartSpawn
    <3>2. written' <= 2 * (1 + extra' + taken')
      <4>1. extra' = 0 \/ extra' = 1
        BY <2>2
      <4> QED
        BY <3>1, <4>1
    <3> QED
      BY <3>1, <3>2
<1>3. CASE BootLine
  BY <1>3, ReadFacts DEF BootLine
<1>4. CASE BootKeepsReading
  BY <1>4, ReadFacts DEF BootKeepsReading
<1>5. CASE BootFails
  BY <1>5, ReadFacts DEF BootFails
<1>6. ASSUME NEW c \in Caller, CallSends(c) PROVE Streams'
  BY <1>6 DEF CallSends, OpenRead
<1>7. ASSUME NEW c \in Caller, CallLine(c) PROVE Streams'
  BY <1>7, ReadFacts DEF CallLine
<1>8. ASSUME NEW c \in Caller, CallKeepsReading(c) PROVE Streams'
  BY <1>8, ReadFacts DEF CallKeepsReading
<1>9. ASSUME NEW c \in Caller, CallFails(c) PROVE Streams'
  BY <1>9, ReadFacts DEF CallFails
<1>10. CASE ReplStep
  BY <1>10 DEF ReplStep, ReplTakes, ReplWrites
<1> QED
  BY <1>1, <1>2, <1>3, <1>4, <1>5, <1>6, <1>7, <1>8, <1>9, <1>10, QuietSteps

\* The ways in which a read adds to the count.
LEMMA CountFirst ==
  ASSUME NEW to \in Nat, 1 <= to \div 2
  PROVE  0 + 1 <= to \div 2 + 0
OBVIOUS

LEMMA CountLine ==
  ASSUME NEW n \in Nat, NEW from \in Nat, NEW to \in Nat, NEW k \in Nat,
         n <= from \div 2 + k, from \div 2 < to \div 2
  PROVE  n + 1 <= to \div 2 + k
OBVIOUS

LEMMA CountSlip ==
  ASSUME NEW n \in Nat, NEW from \in Nat, NEW to \in Nat, NEW k \in Nat,
         n <= from \div 2 + k, from <= to
  PROVE  n + 1 <= to \div 2 + (k + 1)
OBVIOUS

\* Each line end the client has passed, but the first, and each slip stand
\* for one command sent.
LEMMA BacklogNext ==
  TypeOK /\ Exclusive /\ Lifecycle /\ Streams /\ Backlog /\ [Next]_vars
    => Backlog'
<1> SUFFICES ASSUME TypeOK, Exclusive, Lifecycle, Streams, Backlog, [Next]_vars
             PROVE  Backlog'
  OBVIOUS
<1> USE DEF TypeOK, client, stream, repl, hist
<1>1. CASE Quiet
  BY <1>1 DEF Quiet, Backlog
<1>2. CASE StartSpawn
  BY <1>2 DEF StartSpawn, Backlog, Booted, Lifecycle, Exclusive
<1>3. CASE BootLine
  <2>1. sent = 0 /\ slips = 0
    BY <1>3 DEF BootLine, Lifecycle, Booted
  <2>2. \A c \in Caller : pc[c] # "reading"
    BY <1>3, BridgeAssumption DEF BootLine, Exclusive
  <2>3. 1 <= consumed' \div 2
    BY <1>3, ReadFacts DEF BootLine
  <2> QED
    <3>1. pc' = pc /\ sent' = 0 /\ slips' = 0 /\ consumed' \in Nat
      BY <1>3, <2>1, ReadFacts DEF BootLine
    <3> QED
      <4>1. sent' + 1 <= consumed' \div 2 + slips'
        BY <2>1, <2>3, <3>1, CountFirst
      <4> QED
        BY <2>2, <3>1, <4>1 DEF Backlog
<1>4. CASE BootKeepsReading
  BY <1>4, ReadFacts, BridgeAssumption DEF BootKeepsReading, Backlog, Booted, Exclusive
<1>5. CASE BootFails
  <2>1. mu = Owner /\ mu' = Owner /\ owner' = "closing"
    BY <1>5 DEF BootFails, Exclusive
  <2>2. ~Booted'
    BY <2>1 DEF Booted
  <2>3. \A c \in Caller : pc'[c] # "reading"
    BY <1>5, <2>1, BridgeAssumption DEF BootFails, Exclusive
  <2> QED
    BY <2>2, <2>3 DEF Backlog
<1>6. ASSUME NEW c \in Caller, CallSends(c) PROVE Backlog'
  <2>1. Booted /\ \A d \in Caller : pc[d] # "reading"
    BY <1>6, BridgeAssumption
    DEF CallSends, Locked, Exclusive, Booted, Lifecycle
  <2>2. sent + 1 <= consumed \div 2 + slips
    BY <2>1 DEF Backlog
  <2>3. /\ sent' = sent + 1 /\ start' = consumed /\ slips' = slips
        /\ slot'[c] = sent + 1 /\ pc'[c] = "reading"
    BY <1>6 DEF CallSends, OpenRead
  <2>4. \A d \in Caller : pc'[d] = "reading" => d = c
    BY <1>6, <2>1 DEF CallSends
  <2>5. Booted'
    BY <1>6, <2>1, BridgeAssumption DEF CallSends, Booted
  <2> QED
    BY <2>2, <2>3, <2>4, <2>5 DEF Backlog
<1>7. ASSUME NEW c \in Caller, CallLine(c) PROVE Backlog'
  <2>1. Booted /\ \A d \in Caller : pc[d] = "reading" => d = c
    BY <1>7, ReaderFacts DEF CallLine
  <2>2. sent <= start \div 2 + slips
    BY <1>7 DEF CallLine, Reading, Backlog
  <2>3. sent' = sent /\ slips' = slips /\ start \div 2 < consumed' \div 2
        /\ consumed' \in Nat
    BY <1>7, ReadFacts DEF CallLine
  <2>4. \A d \in Caller : pc'[d] # "reading"
    BY <1>7, <2>1 DEF CallLine, Returns
  <2>5. sent' + 1 <= consumed' \div 2 + slips'
    BY <2>2, <2>3, CountLine
  <2> QED
    BY <2>4, <2>5 DEF Backlog
<1>8. ASSUME NEW c \in Caller, CallKeepsReading(c) PROVE Backlog'
  <2>1. /\ start' = start
        /\ UNCHANGED <<pc, slot, sent, slips, owner, mu>>
    BY <1>8, ReadFacts DEF CallKeepsReading
  <2>2. pc[c] = "reading"
    BY <1>8 DEF CallKeepsReading, Reading
  <2> QED
    BY <2>1, <2>2 DEF Backlog, Booted
<1>9. ASSUME NEW c \in Caller, CallFails(c) PROVE Backlog'
  <2>1. Booted /\ \A d \in Caller : pc[d] = "reading" => d = c
    BY <1>9, ReaderFacts DEF CallFails
  <2>2. sent <= start \div 2 + slips
    BY <1>9 DEF CallFails, Reading, Backlog
  <2>3. /\ sent' = sent /\ slips' = slips + 1
        /\ consumed' \in Nat /\ consumed <= consumed'
    BY <1>9, ReadFacts DEF CallFails
  <2>4. \A d \in Caller : pc'[d] # "reading"
    BY <1>9, <2>1 DEF CallFails, Returns
  <2>5. sent' + 1 <= consumed' \div 2 + slips'
    <3>1. start <= consumed'
      BY <2>3 DEF Streams
    <3> QED
      BY <2>2, <2>3, <3>1, CountSlip
  <2> QED
    BY <2>4, <2>5 DEF Backlog
<1>10. CASE ReplStep
  BY <1>10 DEF ReplStep, ReplTakes, ReplWrites, Backlog, Booted
<1> QED
  BY <1>1, <1>2, <1>3, <1>4, <1>5, <1>6, <1>7, <1>8, <1>9, <1>10, QuietSteps

-----------------------------------------------------------------------------
(* Replies *)

Log == Recorded /\ LagBounded /\ InOrder

LEMMA HalfNat == ASSUME NEW n \in Nat PROVE n \div 2 \in Nat
OBVIOUS

\* A line that was written belongs to a command that was taken.
LEMMA LineTaken ==
  ASSUME NEW from \in Nat, NEW to \in Nat, NEW n \in Nat,
         from \div 2 < to \div 2, to <= 2 * (1 + n)
  PROVE  from \div 2 <= n
OBVIOUS

\* A step that adds no reply and moves nothing back keeps the log in order.
LEMMA LogKept ==
  ASSUME TypeOK, Streams, Log,
         replies' = replies, extra' = extra,
         sent' \in Nat, sent <= sent', consumed' \in Nat, consumed <= consumed',
         \A c \in Caller : pc'[c] = "reading" =>
            \A p \in replies : p.call < sent' /\ p.line < start' \div 2
  PROVE  Log'
<1>1. \A p \in replies : p.call <= sent' /\ p.line < consumed' \div 2
  <2> SUFFICES ASSUME NEW p \in replies
               PROVE  p.call <= sent' /\ p.line < consumed' \div 2
    OBVIOUS
  <2>1. p.call \in Nat /\ p.line \in Nat
    BY DEF TypeOK
  <2>2. p.call <= sent /\ p.line < consumed \div 2
    BY DEF Log, Recorded
  <2> QED
    BY <2>1, <2>2 DEF TypeOK
<1>2. Recorded'
  BY <1>1 DEF Recorded
<1>3. LagBounded' /\ InOrder'
  BY DEF Log, LagBounded, InOrder
<1> QED
  BY <1>2, <1>3 DEF Log

LEMMA LogNext ==
  TypeOK /\ Exclusive /\ Lifecycle /\ Streams /\ Backlog /\ Log /\ [Next]_vars
    => Log'
<1> SUFFICES ASSUME TypeOK, Exclusive, Lifecycle, Streams, Backlog, Log, [Next]_vars
             PROVE  Log'
  OBVIOUS
<1>0. TypeOK'
  BY TypeNext
<1>1. CASE Quiet
  <2>1. /\ replies' = replies /\ extra' = extra /\ sent' = sent
        /\ consumed' = consumed /\ start' = start
        /\ \A c \in Caller : pc[c] = "reading" <=> pc'[c] = "reading"
    BY <1>1 DEF Quiet, hist
  <2>2. \A c \in Caller : pc'[c] = "reading" =>
           \A p \in replies : p.call < sent' /\ p.line < start' \div 2
    BY <2>1 DEF Log, Recorded
  <2> QED
    BY <2>1, <2>2, LogKept DEF TypeOK
<1>2. CASE StartSpawn
  <2>1. replies = {} /\ replies' = {}
    BY <1>2 DEF StartSpawn, Lifecycle, Booted, hist
  <2> QED
    BY <2>1 DEF Log, Recorded, LagBounded, InOrder
<1>3. CASE BootLine \/ BootKeepsReading \/ BootFails
  <2>1. replies = {} /\ replies' = {}
    BY <1>3 DEF BootLine, BootKeepsReading, BootFails, Lifecycle, Booted, hist
  <2> QED
    BY <2>1 DEF Log, Recorded, LagBounded, InOrder
<1>4. ASSUME NEW c \in Caller, CallSends(c) PROVE Log'
  <2>1. /\ replies' = replies /\ extra' = extra /\ sent' = sent + 1
        /\ consumed' = consumed /\ start' = consumed
    BY <1>4 DEF CallSends, OpenRead, hist, repl
  <2>2. \A p \in replies : p.call < sent' /\ p.line < start' \div 2
    <3> SUFFICES ASSUME NEW p \in replies
                 PROVE  p.call < sent' /\ p.line < start' \div 2
      OBVIOUS
    <3>1. p.call \in Nat /\ p.call <= sent /\ p.line < consumed \div 2
      BY DEF TypeOK, Log, Recorded
    <3> QED
      BY <2>1, <3>1 DEF TypeOK
  <2> QED
    BY <2>1, <2>2, LogKept DEF TypeOK
<1>5. ASSUME NEW c \in Caller, CallLine(c) PROVE Log'
  <2> DEFINE r == [call |-> slot[c], line |-> ReadLine, slips |-> slips]
  <2>1. replies' = replies \cup {r} /\ sent' = sent /\ extra' = extra /\ slips' = slips
    BY <1>5 DEF CallLine, repl
  <2>2. /\ slot[c] = sent /\ sent > 0 /\ sent <= start \div 2 + slips
        /\ \A p \in replies : p.call < sent /\ p.line < start \div 2
    BY <1>5 DEF CallLine, Reading, Backlog, Log, Recorded
  <2>3. /\ consumed' \in Nat /\ consumed <= consumed' /\ consumed' <= written
        /\ start \div 2 < consumed' \div 2
    BY <1>5, ReadFacts DEF CallLine
  <2>4. r.call = sent /\ r.line = start \div 2 /\ r.slips = slips
    BY <2>2 DEF ReadLine
  <2>5. \A d \in Caller : pc'[d] # "reading"
    BY <1>5, ReaderFacts DEF CallLine, Returns, TypeOK
  <2>6. Recorded'
    <3>0. sent \in Nat /\ start \div 2 \in Nat /\ consumed' \div 2 \in Nat
      BY <2>3, HalfNat DEF TypeOK
    <3>1. \A p \in replies : p.call <= sent /\ p.line < consumed' \div 2
      <4> SUFFICES ASSUME NEW p \in replies
                   PROVE  p.call <= sent /\ p.line < consumed' \div 2
        OBVIOUS
      <4>1. p.call \in Nat /\ p.line \in Nat
        BY DEF TypeOK
      <4> QED
        BY <2>2, <2>3, <3>0, <4>1
    <3>2. r.call <= sent /\ r.line < consumed' \div 2
      BY <2>3, <2>4, <3>0
    <3> HIDE DEF r
    <3> QED
      BY <2>1, <2>5, <3>1, <3>2 DEF Recorded
  <2>7. LagBounded'
    <3>1. start \div 2 <= sent + extra
      <4>1. consumed' <= 2 * (1 + (sent + extra))
        BY <2>3 DEF Streams, Due, TypeOK
      <4>2. start \in Nat /\ sent + extra \in Nat
        BY DEF TypeOK
      <4> QED
        BY <2>3, <4>1, <4>2, LineTaken
    <3>2. sent + extra <= start \div 2 + slips + extra
      BY <2>2 DEF TypeOK
    <3> HIDE DEF r
    <3> QED
      BY <2>1, <2>4, <3>1, <3>2 DEF Log, LagBounded
  <2>8. InOrder'
    <3>1. \A p \in replies : p.call < r.call /\ p.line < r.line
      BY <2>2, <2>4
    <3>2. \A p \in replies : p.call \in Nat /\ p.line \in Nat
      BY DEF TypeOK
    <3>3. r.call \in Nat /\ r.line \in Nat
      BY <2>4 DEF TypeOK
    <3> HIDE DEF r
    <3> QED
      BY <2>1, <3>1, <3>2, <3>3 DEF Log, InOrder
  <2> QED
    BY <2>6, <2>7, <2>8 DEF Log
<1>6. ASSUME NEW c \in Caller, CallKeepsReading(c) PROVE Log'
  <2>1. /\ replies' = replies /\ extra' = extra /\ sent' = sent /\ pc' = pc
        /\ consumed' \in Nat /\ consumed <= consumed' /\ start' = start
    BY <1>6, ReadFacts DEF CallKeepsReading, hist, repl, client
  <2>2. \A d \in Caller : pc'[d] = "reading" =>
           \A p \in replies : p.call < sent' /\ p.line < start' \div 2
    BY <2>1 DEF Log, Recorded
  <2> QED
    BY <2>1, <2>2, LogKept DEF TypeOK
<1>7. ASSUME NEW c \in Caller, CallFails(c) PROVE Log'
  <2>1. /\ replies' = replies /\ extra' = extra /\ sent' = sent
        /\ consumed' \in Nat /\ consumed <= consumed'
    BY <1>7, ReadFacts DEF CallFails
  <2>2. \A d \in Caller : pc'[d] # "reading"
    BY <1>7, ReaderFacts DEF CallFails, Returns, TypeOK
  <2> QED
    BY <2>1, <2>2, LogKept DEF TypeOK
<1>8. CASE ReplStep
  <2>1. /\ replies' = replies /\ extra' = extra /\ sent' = sent /\ pc' = pc
        /\ consumed' = consumed /\ start' = start
    BY <1>8 DEF ReplStep, ReplTakes, ReplWrites, client, stream, hist
  <2>2. \A d \in Caller : pc'[d] = "reading" =>
           \A p \in replies : p.call < sent' /\ p.line < start' \div 2
    BY <2>1 DEF Log, Recorded
  <2> QED
    BY <2>1, <2>2, LogKept DEF TypeOK
<1> QED
  BY <1>1, <1>2, <1>3, <1>4, <1>5, <1>6, <1>7, <1>8, QuietSteps

-----------------------------------------------------------------------------
(* The invariants *)

THEOREM Invariance == Spec => []IndInv
<1>1. Init => IndInv
  BY TypeInit, ControlInit, StreamsInit DEF IndInv
<1>2. IndInv /\ [Next]_vars => IndInv'
  BY TypeNext, ControlNext, StreamsNext, BacklogNext, LogNext DEF IndInv, Log
<1> QED
  BY <1>1, <1>2, PTL DEF Spec

\* Every variable keeps its type in every behaviour of the client.
THEOREM TypeCorrect == Spec => []TypeOK
BY Invariance, PTL DEF IndInv

\* From the write of a command to the end of its read, and in start() and
\* shutdown(), the pipes belong to the thread that holds mu_.
THEOREM MutualExclusion == Spec => []Exclusive
BY Invariance, PTL DEF IndInv

\* However reads, deadlines and crashes interleave, a reply is late by at
\* most the reads that failed and the lines printed before "ready.", and
\* never early.
THEOREM LagIsBounded == Spec => []LagBounded
BY Invariance, PTL DEF IndInv

\* No line is delivered twice and no two calls are answered out of order.
THEOREM RepliesInOrder == Spec => []InOrder
BY Invariance, PTL DEF IndInv

-----------------------------------------------------------------------------
(* The client implements ReplService when no read is late and the REPL     *)
(* prints nothing before "ready.".                                         *)

Punctual == Faults \cap {"late", "banner"} = {}

\* Client and REPL are in step: between calls a running REPL has answered
\* everything and the client has read everything; a call reads from the
\* very beginning of its own line.
InStep ==
  /\ extra = 0 /\ late = FALSE
  /\ owner = "down" => proc # "running"
  /\ proc = "running" /\ Booted /\ (\A c \in Caller : pc[c] # "reading")
        => consumed = 2 * (1 + sent) /\ written = consumed /\ taken = sent
  /\ \A c \in Caller : pc[c] = "reading" => start = 2 * sent /\ sent <= taken + 1

LEMMA InStepInit == Init => InStep
BY DEF Init, InStep, Booted

\* A punctual read fails at the end of the stream only.
LEMMA PunctualFailure ==
  ASSUME InStep, ReadFails PROVE proc # "running" /\ UNCHANGED stream
BY DEF InStep, ReadFails, AtEof

LEMMA PastLine ==
  ASSUME NEW n \in Nat, NEW to \in Nat, n < to \div 2 PROVE 2 * (1 + n) <= to
OBVIOUS

\* A whole line read by c is all there is.
LEMMA PunctualLine ==
  ASSUME IndInv, InStep, NEW c \in Caller, CallLine(c)
  PROVE  /\ consumed' = 2 * (1 + sent) /\ written = 2 * (1 + sent)
         /\ taken = sent /\ start \div 2 = sent
<1>1. start = 2 * sent /\ sent \in Nat
  BY DEF CallLine, Reading, InStep, IndInv, TypeOK
<1>2. /\ consumed' \in Nat /\ consumed' <= written
      /\ start \div 2 < consumed' \div 2
  BY ReadFacts DEF CallLine, IndInv
<1>3. start \div 2 = sent
  BY <1>1
<1>4. 2 * (1 + sent) <= consumed'
  BY <1>1, <1>2, <1>3, PastLine
<1>5. /\ taken \in Nat /\ written \in Nat /\ written <= 2 * (1 + taken)
      /\ taken <= sent
  BY DEF IndInv, TypeOK, Streams, Due, InStep
<1> QED
  BY <1>1, <1>2, <1>3, <1>4, <1>5

LEMMA InStepNext ==
  ASSUME Punctual, IndInv, InStep, [Next]_vars PROVE InStep'
<1> USE DEF IndInv, TypeOK, client, stream, repl, hist
<1>2. CASE StartSpawn
  <2>1. \A c \in Caller : pc'[c] # "reading"
    BY <1>2, BridgeAssumption DEF StartSpawn, Exclusive, Lifecycle
  <2>2. extra' = 0
    BY <1>2 DEF Punctual, StartSpawn
  <2> QED
    BY <1>2, <2>1, <2>2 DEF StartSpawn, OpenRead, InStep, Booted
<1>3. CASE BootLine
  <2>1. sent = 0 /\ taken = 0 /\ \A c \in Caller : pc[c] # "reading"
    BY <1>3, BridgeAssumption DEF BootLine, Lifecycle, Booted, Streams, Exclusive
  <2>2. consumed' \in Nat /\ consumed' <= written /\ 0 < consumed' \div 2 /\ late' = late
    BY <1>3, ReadFacts DEF BootLine
  <2>3. written <= 2
    BY <2>1 DEF Streams, Due, InStep
  <2>4. 2 * (1 + 0) <= consumed'
    BY <2>2, PastLine
  <2>5. consumed' = 2 /\ written = 2
    BY <2>2, <2>3, <2>4
  <2> QED
    BY <1>3, <2>1, <2>2, <2>5 DEF BootLine, InStep
<1>4. CASE BootKeepsReading
  <2>1. ~Booted' /\ \A c \in Caller : pc'[c] # "reading"
    BY <1>4, BridgeAssumption DEF BootKeepsReading, Booted, Exclusive
  <2>2. late' = late
    BY <1>4, ReadFacts DEF BootKeepsReading
  <2> QED
    BY <1>4, <2>1, <2>2 DEF BootKeepsReading, InStep
<1>5. CASE BootFails
  <2>1. ~Booted' /\ \A c \in Caller : pc'[c] # "reading"
    BY <1>5, BridgeAssumption DEF BootFails, Booted, Exclusive
  <2>2. late' = late
    BY <1>5, ReadFacts DEF BootFails
  <2> QED
    BY <1>5, <2>1, <2>2 DEF BootFails, InStep
<1>6. ASSUME NEW c \in Caller, CallSends(c) PROVE InStep'
  <2>1. Booted /\ \A d \in Caller : pc[d] # "reading"
    BY <1>6, BridgeAssumption DEF CallSends, Locked, Exclusive, Booted, Lifecycle
  <2>2. consumed = 2 * (1 + sent) /\ taken = sent
    BY <1>6, <2>1 DEF CallSends, InStep
  <2>3. start' = 2 * sent' /\ sent' <= taken' + 1 /\ late' = FALSE
    BY <1>6, <2>2 DEF CallSends, OpenRead
  <2>4. pc'[c] = "reading"
    BY <1>6 DEF CallSends
  <2> QED
    BY <1>6, <2>3, <2>4 DEF CallSends, InStep
<1>7. ASSUME NEW c \in Caller, CallLine(c) PROVE InStep'
  <2>1. \A d \in Caller : pc'[d] # "reading"
    BY <1>7, ReaderFacts DEF CallLine, Returns
  <2>2. late' = late
    BY <1>7, ReadFacts DEF CallLine
  <2> QED
    BY <1>7, <2>1, <2>2, PunctualLine DEF CallLine, Returns, InStep
<1>8. ASSUME NEW c \in Caller, CallKeepsReading(c) PROVE InStep'
  <2>1. start' = start /\ late' = late /\ pc' = pc /\ pc[c] = "reading"
    BY <1>8, ReadFacts DEF CallKeepsReading, Reading
  <2> QED
    BY <1>8, <2>1 DEF CallKeepsReading, InStep
<1>9. ASSUME NEW c \in Caller, CallFails(c) PROVE InStep'
  <2>1. \A d \in Caller : pc'[d] # "reading"
    BY <1>9, ReaderFacts DEF CallFails, Returns
  <2>2. proc # "running" /\ late' = late
    BY <1>9, PunctualFailure DEF CallFails
  <2>3. proc' # "running"
    BY <1>9, <2>2 DEF CallFails
  <2> QED
    BY <1>9, <2>1, <2>2, <2>3 DEF CallFails, Returns, InStep
<1>10. CASE ReplTakes
  <2>1. ~(Booted /\ \A c \in Caller : pc[c] # "reading")
    BY <1>10 DEF ReplTakes, InStep
  <2> QED
    BY <1>10, <2>1 DEF ReplTakes, InStep, Booted
<1>11. CASE ReplWrites
  <2>1. ~(Booted /\ \A c \in Caller : pc[c] # "reading")
    BY <1>11 DEF ReplWrites, InStep, Due
  <2> QED
    BY <1>11, <2>1 DEF ReplWrites, InStep, Booted
<1>12. CASE Quiet
  <2>1. late' = late
    BY <1>12 DEF Quiet, Punctual
  <2> QED
    BY <1>12, <2>1 DEF Quiet, InStep
<1> QED
  BY <1>2, <1>3, <1>4, <1>5, <1>6, <1>7, <1>8, <1>9, <1>10, <1>11, <1>12, QuietSteps
  DEF ReplStep

\* Steps that leave what ReplService sees alone.
LEMMA Stutters ==
  ASSUME TypeOK, TypeOK',
         (proc' = "running") <=> (proc = "running"),
         pc' = pc, taken' = taken, replies' = replies,
         sent' = sent
  PROVE  UNCHANGED Service!svars
BY DEF Service!svars, CallStatus, StatusOf, Answers

\* A step of one caller changes the status of no other.
LEMMA OthersKeep ==
  ASSUME NEW c \in Caller,
         \A d \in Caller : d # c => StatusOf(d)' = StatusOf(d)
  PROVE  CallStatus' = [CallStatus EXCEPT ![c] = StatusOf(c)']
BY DEF CallStatus

LEMMA CallersKeep ==
  ASSUME TypeOK, NEW c \in Caller, NEW s, pc' = [pc EXCEPT ![c] = s],
         NEW d \in Caller, d # c,
         (taken' = taken /\ sent' = sent) \/ pc[d] # "reading"
  PROVE  StatusOf(d)' = StatusOf(d)
<1>1. pc'[d] = pc[d]
  BY DEF TypeOK
<1> QED
  BY <1>1 DEF StatusOf

LEMMA ServiceInit == Init => Service!Init
BY DEF Init, Service!Init, CallStatus, StatusOf, Answers

\* Every step of the client is a step of ReplService or none at all.
LEMMA ServiceNext ==
  ASSUME Punctual, IndInv, InStep, [Next]_vars
  PROVE  [Service!Next]_Service!svars
<1> USE DEF IndInv
<1>0. TypeOK'
  BY TypeNext
<1>1. CASE StartSpawn
  <2>1. proc # "running" /\ proc' = "running" /\ UNCHANGED <<pc, taken, sent, replies>>
    BY <1>1 DEF StartSpawn, Lifecycle, hist
  <2>2. UNCHANGED <<CallStatus, taken, Answers>>
    BY <2>1 DEF CallStatus, StatusOf, Answers
  <2> QED
    BY <2>1, <2>2 DEF Service!Next, Service!Open
<1>2. CASE ReplDies \/ ReplTerminated
  <2>1. /\ proc = "running" /\ proc' # "running"
        /\ UNCHANGED <<pc, taken, sent, replies>>
    BY <1>2 DEF ReplDies, ReplTerminated, hist, client
  <2>2. UNCHANGED <<CallStatus, taken, Answers>>
    BY <2>1 DEF CallStatus, StatusOf, Answers
  <2> QED
    BY <2>1, <2>2 DEF Service!Next, Service!Close
<1>3. ASSUME NEW c \in Caller, CallBegins(c) PROVE Service!Next
  <2>1. /\ pc[c] = "ready" /\ pc' = [pc EXCEPT ![c] = "queued"]
        /\ UNCHANGED <<proc, taken, sent, replies>>
    BY <1>3 DEF CallBegins, hist, repl
  <2>2. CallStatus[c] = "idle" /\ StatusOf(c)' = "called"
    BY <2>1 DEF CallStatus, StatusOf, TypeOK
  <2>3. \A d \in Caller : d # c => StatusOf(d)' = StatusOf(d)
    BY <2>1, CallersKeep
  <2>4. CallStatus' = [CallStatus EXCEPT ![c] = "called"]
    BY <2>2, <2>3, OthersKeep
  <2>5. UNCHANGED <<proc, taken, Answers>>
    BY <2>1 DEF Answers
  <2> QED
    BY <2>2, <2>4, <2>5 DEF Service!Next, Service!Invoke
<1>4. ASSUME NEW c \in Caller, CallSends(c) PROVE UNCHANGED Service!svars
  <2>1. Booted /\ \A d \in Caller : pc[d] # "reading"
    BY <1>4, BridgeAssumption DEF CallSends, Locked, Exclusive, Booted, Lifecycle, TypeOK, OwnerStates
  <2>2. taken = sent /\ pc[c] = "queued"
    BY <1>4, <2>1 DEF CallSends, Locked, InStep
  <2>3. /\ pc' = [pc EXCEPT ![c] = "reading"] /\ sent' = sent + 1
        /\ UNCHANGED <<proc, taken, replies>>
    BY <1>4 DEF CallSends, hist, repl
  <2>4. taken' # sent'
    BY <2>2, <2>3 DEF TypeOK
  <2>5. StatusOf(c) = "called" /\ StatusOf(c)' = "called"
    BY <2>2, <2>3, <2>4 DEF StatusOf, TypeOK
  <2>6. \A d \in Caller : d # c => StatusOf(d)' = StatusOf(d)
    BY <2>1, <2>3, CallersKeep
  <2>7. CallStatus' = CallStatus
    BY <2>5, <2>6 DEF CallStatus
  <2> QED
    BY <2>3, <2>7 DEF Service!svars, Answers
<1>5. ASSUME NEW c \in Caller, CallOnClosed(c) PROVE Service!Next
  <2>1. /\ pc[c] = "queued" /\ pc' = [pc EXCEPT ![c] = "ready"]
        /\ UNCHANGED <<proc, taken, sent, replies>>
    BY <1>5 DEF CallOnClosed, Locked, hist, repl
  <2>2. proc # "running"
    BY <1>5 DEF CallOnClosed, Lifecycle, InStep, TypeOK, OwnerStates
  <2>3. CallStatus[c] = "called" /\ StatusOf(c)' = "idle"
    BY <2>1 DEF CallStatus, StatusOf, TypeOK
  <2>4. \A d \in Caller : d # c => StatusOf(d)' = StatusOf(d)
    BY <2>1, CallersKeep
  <2>5. CallStatus' = [CallStatus EXCEPT ![c] = "idle"]
    BY <2>3, <2>4, OthersKeep
  <2>6. UNCHANGED <<proc, taken, Answers>>
    BY <2>1 DEF Answers
  <2> QED
    BY <2>2, <2>3, <2>5, <2>6 DEF Service!Next, Service!Fail
<1>6. ASSUME NEW c \in Caller, CallLine(c) PROVE Service!Next
  <2>1. /\ pc[c] = "reading" /\ pc' = [pc EXCEPT ![c] = "ready"]
        /\ UNCHANGED <<proc, taken, sent>>
    BY <1>6 DEF CallLine, Reading, Returns, repl
  <2>2. taken = sent /\ start \div 2 = sent /\ slot[c] = sent
    BY <1>6, <2>1, PunctualLine DEF Backlog
  <2>3. CallStatus[c] = "executed" /\ StatusOf(c)' = "idle"
    BY <2>1, <2>2 DEF CallStatus, StatusOf, TypeOK
  <2>4. \A d \in Caller : d # c => StatusOf(d)' = StatusOf(d)
    BY <2>1, CallersKeep
  <2>5. CallStatus' = [CallStatus EXCEPT ![c] = "idle"]
    BY <2>3, <2>4, OthersKeep
  <2>6. Answers' = Answers \cup {<<taken, taken>>}
    <3> DEFINE r == [call |-> slot[c], line |-> ReadLine, slips |-> slips]
    <3>0. replies' = replies \cup {r} /\ r.call = taken /\ r.line = taken
      BY <1>6, <2>2 DEF CallLine, ReadLine
    <3> HIDE DEF r
    <3>1. Answers' = {<<p.call, p.line>> : p \in replies \cup {r}}
      BY <3>0 DEF Answers
    <3>2. \A x : x \in Answers' <=> x \in Answers \/ x = <<taken, taken>>
      BY <3>0, <3>1, Zenon DEF Answers
    <3> QED
      BY <3>2
  <2> QED
    BY <2>1, <2>3, <2>5, <2>6 DEF Service!Next, Service!Answer
<1>7. ASSUME NEW c \in Caller, CallFails(c) PROVE Service!Next
  <2>1. /\ pc[c] = "reading" /\ pc' = [pc EXCEPT ![c] = "ready"]
        /\ UNCHANGED <<taken, sent, replies>>
    BY <1>7 DEF CallFails, Reading, Returns
  <2>2. proc # "running" /\ proc' # "running"
    BY <1>7, PunctualFailure DEF CallFails
  <2>3. CallStatus[c] # "idle" /\ StatusOf(c)' = "idle"
    BY <2>1 DEF CallStatus, StatusOf, TypeOK
  <2>4. \A d \in Caller : d # c => StatusOf(d)' = StatusOf(d)
    BY <2>1, CallersKeep
  <2>5. CallStatus' = [CallStatus EXCEPT ![c] = "idle"]
    BY <2>3, <2>4, OthersKeep
  <2>6. UNCHANGED <<taken, Answers>>
    BY <2>1 DEF Answers
  <2> QED
    BY <2>2, <2>3, <2>5, <2>6 DEF Service!Next, Service!Fail
<1>8. CASE ReplTakes
  <2>1. /\ proc = "running" /\ taken < sent /\ taken' = taken + 1
        /\ UNCHANGED <<pc, proc, sent, replies>>
    BY <1>8 DEF ReplTakes, client, hist
  <2>2. Booted
    BY <2>1 DEF Lifecycle, TypeOK
  <2>3. PICK c \in Caller : pc[c] = "reading"
    BY <2>1, <2>2 DEF InStep, TypeOK
  <2>4. \A d \in Caller : pc[d] = "reading" => d = c
    BY <2>3 DEF Exclusive
  <2>5. taken' = sent
    BY <2>1, <2>3 DEF InStep, TypeOK
  <2>6. CallStatus[c] = "called" /\ StatusOf(c)' = "executed"
    BY <2>1, <2>3, <2>5 DEF CallStatus, StatusOf, TypeOK
  <2>7. \A d \in Caller : d # c => /\ StatusOf(d)' = StatusOf(d)
                                 /\ StatusOf(d) # "executed"
    BY <2>1, <2>4 DEF StatusOf
  <2>8. CallStatus' = [CallStatus EXCEPT ![c] = "executed"]
    BY <2>6, <2>7, OthersKeep
  <2>9. UNCHANGED <<proc, Answers>>
    BY <2>1 DEF Answers
  <2> QED
    <3>1. \A d \in Caller : CallStatus[d] # "executed"
      BY <2>6, <2>7 DEF CallStatus
    <3> QED
      BY <2>1, <2>6, <2>8, <2>9, <3>1 DEF Service!Next, Service!Execute
<1>9. \/ UNCHANGED Service!svars
      \/ StartSpawn \/ ReplDies \/ ReplTerminated \/ ReplTakes
      \/ \E c \in Caller : \/ CallBegins(c) \/ CallSends(c) \/ CallOnClosed(c)
                           \/ CallLine(c) \/ CallFails(c)
  <2> USE <1>0, Stutters DEF client, stream, repl, hist
  <2>1. CASE StartRefused
    BY <2>1 DEF StartRefused
  <2>2. CASE BootLine
    BY <2>2 DEF BootLine
  <2>3. CASE BootKeepsReading
    BY <2>3 DEF BootKeepsReading
  <2>4. CASE BootFails
    BY <2>4 DEF BootFails
  <2>5. CASE Retire
    BY <2>5 DEF Retire
  <2>6. CASE ShutdownBegins
    BY <2>6 DEF ShutdownBegins
  <2>7. CASE ShutdownSigpipe
    BY <2>7 DEF ShutdownSigpipe
  <2>8. CASE ShutdownReaps
    BY <2>8 DEF ShutdownReaps
  <2>9. ASSUME NEW c \in Caller, CallRefused(c) \/ CallSigpipe(c) \/ CallKeepsReading(c)
        PROVE  UNCHANGED Service!svars
    BY <2>9 DEF CallRefused, CallSigpipe, CallKeepsReading
  <2>10. CASE ReplWrites
    BY <2>10 DEF ReplWrites
  <2>11. CASE DeadlinePasses
    BY <2>11 DEF DeadlinePasses
  <2>12. CASE UNCHANGED vars
    BY <2>12 DEF vars
  <2> QED
    BY <2>1, <2>2, <2>3, <2>4, <2>5, <2>6, <2>7, <2>8, <2>9, <2>10, <2>11, <2>12
    DEF Next, StartStep, ShutdownStep, CallStep, ReplStep
<1> QED
  BY <1>1, <1>2, <1>3, <1>4, <1>5, <1>6, <1>7, <1>8, <1>9

\* With a REPL that is in time and prints nothing before "ready.", call()
\* is a linearizable operation on a shared REPL: one command, one answer,
\* its own, whatever the threads do and wherever the REPL crashes.
THEOREM ClientImplementsService ==
  ASSUME Punctual PROVE Spec => ImplementsService
<1>1. Init => Service!Init /\ InStep
  BY ServiceInit, InStepInit
<1>2. IndInv /\ InStep /\ [Next]_vars => InStep' /\ [Service!Next]_Service!svars
  BY InStepNext, ServiceNext
<1>3. Spec => []IndInv
  BY Invariance
<1> QED
  BY <1>1, <1>2, <1>3, PTL DEF Spec, ImplementsService, Service!Spec
=============================================================================
