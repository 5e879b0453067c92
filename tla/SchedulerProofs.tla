--------------------------- MODULE SchedulerProofs ---------------------------
(***************************************************************************)
(* Proofs about Scheduler, for every set of threads, every number of items *)
(* and instances and every bound on the loads.                             *)
(*                                                                         *)
(* TypeOK is not inductive: that a scan ends with an instance, and with a  *)
(* load it has read, follows from what the scan has kept of the instances  *)
(* behind it (ScanSound).  Loads only grow, so that what has been read     *)
(* stays a lower bound.  That ROUND_ROBIN is even is no invariant by       *)
(* itself either: Even says where around the pool the turns have come.     *)
(***************************************************************************)
EXTENDS Scheduler, SequenceTheorems, FiniteSetTheorems, TLAPS

\* The load that the scan has kept, without the offset of DAG_AWARE.
Kept == best - Offset(hand[1])

\* A scan is for an item without a name.  It has an instance as soon as it
\* has passed one, and none of those has had less evaluations.
ScanSound ==
  mu # Nobody =>
    /\ hand[1].want = NoInst
    /\ at = 0 => chosen = NoInst /\ best = Infinite
    /\ at > 0 => chosen \in 0 .. at - 1 /\ Kept \in 0..MaxLoad
    /\ \A j \in 0 .. at - 1 : Kept <= load[j]

\* The instances behind an answer are in the pool.
GivenOld == \A k \in DOMAIN given : given[k].of <= pool

IndInv == TypeOK /\ ScanSound /\ GivenOld /\ LeastWhenRead

-----------------------------------------------------------------------------
(* Types *)

\* Offset is 0 or 1.
LEMMA OffsetRange == \A x : Offset(x) \in {0, 1}
  BY DEF Offset

\* The head of a queue that is not empty.
LEMMA QueueHead ==
  ASSUME TypeOK, q # <<>>
  PROVE  /\ Head(q) \in Item /\ Tail(q) \in Seq(Item)
         /\ q = <<Head(q)>> \o Tail(q)
  BY HeadTailProperties DEF TypeOK

\* The item of a scan, and the place of the scan.
LEMMA InHand ==
  ASSUME TypeOK, mu # Nobody
  PROVE  /\ hand[1] \in Item /\ hand = <<hand[1]>>
         /\ at \in Nat /\ pool \in Nat /\ at <= pool
<1>1. hand \in Seq(Item) /\ Len(hand) = 1
  BY DEF TypeOK
<1>2. hand[1] \in Item /\ hand = <<hand[1]>>
  BY <1>1
<1>3. pool \in 0..MaxPool /\ at \in 0..pool
  BY DEF TypeOK
<1> QED
  BY <1>2, <1>3, SchedulerAssumption

\* What an answer is made of.
LEMMA GivesType ==
  ASSUME TypeOK, NEW x \in Item, NEW i \in NoInst .. MaxPool - 1, NEW l \in 0..MaxLoad,
         Gives(x, i, l)
  PROVE  given' \in Seq(Answer)
<1>1. pool \in 0..MaxPool /\ given \in Seq(Answer)
  BY DEF TypeOK
<1>2. [item |-> x, inst |-> i, of |-> pool, seen |-> l] \in Answer
  BY <1>1 DEF Answer
<1> QED
  BY <1>1, <1>2, AppendProperties DEF Gives

\* The first state has the types.
LEMMA TypeInit == Init => TypeOK
<1> SUFFICES ASSUME Init PROVE TypeOK
  OBVIOUS
<1> USE SchedulerAssumption DEF Init
<1>1. load \in [Inst -> 0..MaxLoad]
  OBVIOUS
<1>2. q \in Seq(Item) /\ hand \in Seq(Item) /\ given \in Seq(Answer)
  OBVIOUS
<1>3. best \in 0 .. MaxLoad + 2 /\ chosen \in NoInst .. pool - 1
  BY DEF Infinite, NoInst
<1>4. pool \in 0..MaxPool /\ at \in 0..pool /\ submitted \in 0..MaxItems /\ cursor \in Nat
  OBVIOUS
<1>5. mu = Nobody /\ hand = <<>> /\ policy \in SchedulePolicy /\ attached \in BOOLEAN
  OBVIOUS
<1> QED
  BY <1>1, <1>2, <1>3, <1>4, <1>5 DEF TypeOK

\* The types after a step that gives an item away, or none, at once.
LEMMA AssignTypes ==
  ASSUME TypeOK
  PROVE  /\ AssignNamed => TypeOK'
         /\ AssignRoundRobin => TypeOK'
         /\ RoundRobinLoses => TypeOK'
<1> USE SchedulerAssumption
<1>1. CASE AssignNamed
  <2> DEFINE i == IF Head(q).want \in Ids THEN Head(q).want ELSE NoInst
  <2>1. q # <<>> /\ q' = Tail(q) /\ Gives(Head(q), i, 0)
    BY <1>1 DEF AssignNamed, Ready
  <2>2. i \in NoInst .. MaxPool - 1
    <3>1. pool \in Nat /\ pool <= MaxPool
      BY DEF TypeOK
    <3>2. Ids \subseteq NoInst .. MaxPool - 1 /\ NoInst \in NoInst .. MaxPool - 1
      BY <3>1 DEF Ids, NoInst
    <3> QED
      BY <3>2
  <2>3. q' \in Seq(Item) /\ given' \in Seq(Answer)
    <3> HIDE DEF i
    <3> QED
      BY <2>1, <2>2, QueueHead, GivesType
  <2> QED
    BY <1>1, <2>3 DEF AssignNamed, scan, TypeOK
<1>2. CASE AssignRoundRobin
  <2>1. q # <<>> /\ q' = Tail(q) /\ Gives(Head(q), cursor % pool, 0)
    BY <1>2 DEF AssignRoundRobin, Turns, Ready
  <2>2. cursor % pool \in NoInst .. MaxPool - 1
    BY <1>2 DEF AssignRoundRobin, TypeOK, NoInst
  <2>3. q' \in Seq(Item) /\ given' \in Seq(Answer)
    BY <2>1, <2>2, QueueHead, GivesType
  <2> QED
    BY <1>2, <2>3 DEF AssignRoundRobin, scan, TypeOK
<1>3. CASE RoundRobinLoses
  <2>1. q' \in Seq(Item)
    BY <1>3, QueueHead DEF RoundRobinLoses, Turns, Ready
  <2> QED
    BY <1>3, <2>1 DEF RoundRobinLoses, scan, TypeOK
<1> QED
  BY <1>1, <1>2, <1>3

\* The types after a step of a scan.
LEMMA ScanTypes ==
  ASSUME TypeOK, ScanSound, NEW t \in Thread
  PROVE  /\ ScanBegins(t) => TypeOK'
         /\ ScanReads(t) => TypeOK'
         /\ ScanEnds(t) => TypeOK'
<1> USE SchedulerAssumption
<1>1. CASE ScanBegins(t)
  <2>1. /\ q # <<>> /\ mu' = t /\ hand' = <<Head(q)>> /\ q' = Tail(q)
        /\ at' = 0 /\ best' = Infinite /\ chosen' = NoInst
        /\ UNCHANGED <<policy, attached, pool, load, cursor, submitted, given>>
    BY <1>1 DEF ScanBegins, Ready
  <2>2. q' \in Seq(Item) /\ Head(q) \in Item
    BY <2>1, QueueHead
  <2>3. hand' \in Seq(Item) /\ Len(hand') = 1 /\ mu' # Nobody
    BY <2>1, <2>2
  <2>4. at' \in 0..pool /\ best' \in 0 .. MaxLoad + 2 /\ chosen' \in NoInst .. pool - 1
    BY <2>1 DEF TypeOK, Infinite, NoInst
  <2> QED
    BY <2>1, <2>2, <2>3, <2>4 DEF TypeOK
<1>2. CASE ScanReads(t)
  <2> DEFINE l == load[at] + Offset(hand[1])
  <2>1. /\ mu # Nobody /\ at < pool /\ at' = at + 1
        /\ IF l < best THEN best' = l /\ chosen' = at ELSE UNCHANGED <<best, chosen>>
        /\ UNCHANGED <<policy, attached, pool, load, mu, q, cursor, submitted, hand, given>>
    BY <1>2 DEF ScanReads
  <2>2. at \in Inst /\ at \in Nat /\ pool \in Nat
    <3>1. at \in Nat /\ pool \in Nat /\ pool \in 0..MaxPool
      BY <2>1, InHand DEF TypeOK
    <3> QED
      BY <2>1, <3>1 DEF Inst
  <2>3. l \in 0 .. MaxLoad + 1
    BY <2>2, OffsetRange DEF TypeOK
  <2>4. best' \in 0 .. MaxLoad + 2 /\ chosen' \in NoInst .. pool - 1 /\ at' \in 0..pool
    <3> HIDE DEF l
    <3> QED
      BY <2>1, <2>2, <2>3 DEF TypeOK, NoInst
  <2> QED
    BY <2>1, <2>4 DEF TypeOK
<1>3. CASE ScanEnds(t)
  <2> DEFINE l == IF chosen = NoInst THEN 0 ELSE best - Offset(hand[1])
  <2>1. /\ mu # Nobody /\ mu = t /\ at = pool /\ Gives(hand[1], chosen, l)
        /\ mu' = Nobody /\ hand' = <<>>
        /\ at' = 0 /\ best' = Infinite /\ chosen' = NoInst
        /\ UNCHANGED <<policy, attached, pool, load, q, cursor, submitted>>
    BY <1>3 DEF ScanEnds
  <2>2. l \in 0..MaxLoad
    BY <2>1, InHand DEF ScanSound, Kept
  <2>3. chosen \in NoInst .. MaxPool - 1
    BY DEF TypeOK, NoInst
  <2>4. given' \in Seq(Answer)
    <3> HIDE DEF l
    <3> QED
      BY <2>1, <2>2, <2>3, InHand, GivesType
  <2>5. at' \in 0..pool /\ best' \in 0 .. MaxLoad + 2 /\ chosen' \in NoInst .. pool - 1
    BY <2>1 DEF TypeOK, Infinite, NoInst
  <2>6. hand' \in Seq(Item)
    BY <2>1
  <2> QED
    BY <2>1, <2>4, <2>5, <2>6 DEF TypeOK
<1> QED
  BY <1>1, <1>2, <1>3

\* ScanSound is needed for the load that a scan returns.
LEMMA TypeNext == TypeOK /\ ScanSound /\ [Next]_vars => TypeOK'
<1> SUFFICES ASSUME TypeOK, ScanSound, [Next]_vars PROVE TypeOK'
  OBVIOUS
<1> USE SchedulerAssumption
<1>1. CASE SetPool
  BY <1>1 DEF SetPool, scan, TypeOK
<1>2. CASE PoolGrows
  <2>1. pool \in Nat /\ pool' \in 0..MaxPool /\ pool' = pool + 1
    BY <1>2 DEF PoolGrows, TypeOK
  <2>2. at \in 0..pool' /\ chosen \in NoInst .. pool' - 1
    BY <2>1 DEF TypeOK, NoInst
  <2> QED
    BY <1>2, <2>1, <2>2 DEF PoolGrows, scan, TypeOK
<1>3. ASSUME NEW i \in Inst, Evaluates(i) PROVE TypeOK'
  <2>1. load' \in [Inst -> 0..MaxLoad]
    BY <1>3 DEF Evaluates, TypeOK
  <2> QED
    BY <1>3, <2>1 DEF Evaluates, scan, TypeOK
<1>4. ASSUME NEW want \in NoInst..MaxPool, NEW prio \in {0, 1}, Submit(want, prio)
      PROVE  TypeOK'
  <2>1. submitted' \in 1..MaxItems
    BY <1>4 DEF Submit, TypeOK
  <2>2. [no |-> submitted', want |-> want, prio |-> prio] \in Item
    BY <2>1 DEF Item
  <2>3. q' \in Seq(Item)
    BY <1>4, <2>2, AppendProperties DEF Submit, TypeOK
  <2> QED
    BY <1>4, <2>1, <2>3 DEF Submit, scan, TypeOK
<1>5. CASE AssignStep
  BY <1>5, AssignTypes, ScanTypes DEF AssignStep
<1>6. CASE UNCHANGED vars
  BY <1>6 DEF vars, scan, TypeOK
<1> QED
  BY <1>1, <1>2, <1>3, <1>4, <1>5, <1>6 DEF Next

-----------------------------------------------------------------------------
(* The scan *)

\* No scan and no answer yet.
LEMMA ScanInit == Init => ScanSound /\ GivenOld /\ LeastWhenRead
  BY DEF Init, ScanSound, GivenOld, LeastWhenRead

\* Steps that leave the scan alone: loads grow, if they change.
LEMMA ScanKept ==
  ASSUME TypeOK, ScanSound, UNCHANGED <<policy, mu, scan>>,
         \A j \in Inst : load[j] <= load'[j] /\ load'[j] \in Nat
  PROVE  ScanSound'
<1> SUFFICES ASSUME mu # Nobody
             PROVE  /\ hand[1].want = NoInst
                    /\ at = 0 => chosen = NoInst /\ best = Infinite
                    /\ at > 0 => chosen \in 0 .. at - 1 /\ Kept \in 0..MaxLoad
                    /\ \A j \in 0 .. at - 1 : Kept <= load'[j]
  BY DEF ScanSound, scan, Kept, Offset
<1>1. \A j \in 0 .. at - 1 : j \in Inst
  <2>1. at \in Nat /\ at <= MaxPool
    <3>1. pool \in 0..MaxPool
      BY DEF TypeOK
    <3> QED
      BY <3>1, InHand, SchedulerAssumption
  <2> QED
    BY <2>1, SchedulerAssumption DEF Inst
<1>2. Kept \in Int
  BY OffsetRange, SchedulerAssumption DEF Kept, TypeOK
<1>3. \A j \in 0 .. at - 1 : Kept <= load[j] /\ load[j] \in Nat
  BY <1>1 DEF ScanSound, TypeOK
<1> QED
  BY <1>1, <1>2, <1>3 DEF ScanSound

\* A scan that goes on, begins or ends keeps ScanSound, and so do the instances at work.
LEMMA ScanNext == TypeOK /\ ScanSound /\ [Next]_vars => ScanSound'
<1> SUFFICES ASSUME TypeOK, ScanSound, [Next]_vars PROVE ScanSound'
  OBVIOUS
<1> USE SchedulerAssumption
<1>0. \A j \in Inst : load[j] \in Nat
  BY DEF TypeOK
<1>1. CASE UNCHANGED <<policy, mu, load, scan>>
  BY <1>0, <1>1, ScanKept
<1>2. ASSUME NEW i \in Inst, Evaluates(i) PROVE ScanSound'
  <2>1. \A j \in Inst : load[j] <= load'[j] /\ load'[j] \in Nat
    BY <1>0, <1>2 DEF Evaluates, TypeOK
  <2> QED
    BY <1>2, <2>1, ScanKept DEF Evaluates
<1>3. ASSUME NEW t \in Thread, ScanBegins(t) PROVE ScanSound'
  <2>1. hand'[1].want = NoInst /\ at' = 0 /\ chosen' = NoInst /\ best' = Infinite
    BY <1>3 DEF ScanBegins
  <2> QED
    BY <2>1 DEF ScanSound, Infinite
<1>4. ASSUME NEW t \in Thread, ScanReads(t) PROVE ScanSound'
  <2> DEFINE o == Offset(hand[1])
             l == load[at] + o
  <2>1. /\ mu # Nobody /\ at < pool /\ at' = at + 1
        /\ IF l < best THEN best' = l /\ chosen' = at ELSE UNCHANGED <<best, chosen>>
        /\ UNCHANGED <<policy, load, mu, hand>>
    BY <1>4 DEF ScanReads
  <2>2. at \in Nat /\ load[at] \in 0..MaxLoad /\ \A j \in 0 .. at - 1 : load[j] \in Nat
    <3>1. pool \in 0..MaxPool /\ at \in Nat /\ load \in [Inst -> 0..MaxLoad]
      BY <2>1, InHand DEF TypeOK
    <3>2. \A j \in 0..at : j \in Inst
      BY <2>1, <3>1 DEF Inst
    <3> QED
      BY <3>1, <3>2
  <2>3. best \in 0 .. MaxLoad + 2 /\ o \in {0, 1} /\ o' = o
    BY <2>1, OffsetRange DEF TypeOK, Offset
  <2>4. /\ hand[1].want = NoInst
        /\ at = 0 => chosen = NoInst /\ best = MaxLoad + 2
        /\ at > 0 => chosen \in 0 .. at - 1 /\ best - o \in 0..MaxLoad
        /\ \A j \in 0 .. at - 1 : best - o <= load[j]
    BY <2>1 DEF ScanSound, Kept, Infinite
  <2>5. chosen' \in 0..at /\ best' - o \in 0..MaxLoad /\ \A j \in 0..at : best' - o <= load[j]
    <3> HIDE DEF o
    <3>1. CASE l < best
      BY <2>1, <2>2, <2>3, <2>4, <3>1
    <3>2. CASE ~(l < best)
      BY <2>1, <2>2, <2>3, <2>4, <3>2
    <3> QED
      BY <3>1, <3>2
  <2>6. at' > 0 /\ at' - 1 = at /\ at' # 0
    BY <2>1, <2>2
  <2> QED
    <3>1. Kept' = best' - o
      BY <2>3 DEF Kept
    <3> HIDE DEF o
    <3> QED
      BY <2>1, <2>4, <2>5, <2>6, <3>1 DEF ScanSound
<1>5. ASSUME NEW t \in Thread, ScanEnds(t) PROVE ScanSound'
  BY <1>5 DEF ScanEnds, ScanSound
<1> QED
  BY <1>1, <1>2, <1>3, <1>4, <1>5
  DEF Next, SetPool, PoolGrows, Submit, AssignStep, AssignNamed, AssignRoundRobin,
      RoundRobinLoses, vars

-----------------------------------------------------------------------------
(* The answers *)

\* Of what an answer is.
LEMMA AnswerFields ==
  ASSUME TypeOK, NEW k \in DOMAIN given
  PROVE  /\ given[k].item \in Item /\ given[k].inst \in NoInst .. MaxPool - 1
         /\ given[k].of \in 0..MaxPool /\ given[k].seen \in 0..MaxLoad
<1>1. given[k] \in Answer
  BY DEF TypeOK
<1> QED
  BY <1>1 DEF Answer

\* Loads and pool grow behind the answers that are there.
LEMMA AnswersKept ==
  ASSUME TypeOK, GivenOld, LeastWhenRead, UNCHANGED given,
         pool' \in Nat, pool <= pool',
         \A j \in Inst : load[j] <= load'[j] /\ load'[j] \in Nat
  PROVE  GivenOld' /\ LeastWhenRead'
<1> USE SchedulerAssumption
<1>1. pool \in Nat
  BY DEF TypeOK
<1>2. \A k \in DOMAIN given : given[k].of \in Nat /\ given[k].of <= pool'
  BY <1>1, AnswerFields DEF GivenOld
<1>3. ASSUME NEW k \in DOMAIN given, given[k].item.want = NoInst, given[k].inst # NoInst,
             NEW j \in 0 .. given[k].of - 1
      PROVE  given[k].seen <= load'[j]
  <2>1. j \in Inst /\ given[k].seen \in Nat
    <3>1. given[k].of \in 0..MaxPool /\ given[k].seen \in 0..MaxLoad
      BY AnswerFields
    <3> QED
      BY <3>1 DEF Inst
  <2>2. given[k].seen <= load[j]
    BY <1>3 DEF LeastWhenRead
  <2>3. load[j] \in Nat
    BY <2>1 DEF TypeOK
  <2> QED
    BY <2>1, <2>2, <2>3
<1> QED
  BY <1>2, <1>3 DEF GivenOld, LeastWhenRead

\* One more answer.
LEMMA AnswersGrow ==
  ASSUME TypeOK, GivenOld, LeastWhenRead, UNCHANGED <<load, pool>>,
         NEW x, NEW i, NEW l, Gives(x, i, l),
         x.want = NoInst /\ i # NoInst => \A j \in 0 .. pool - 1 : l <= load[j]
  PROVE  GivenOld' /\ LeastWhenRead'
<1> DEFINE a == [item |-> x, inst |-> i, of |-> pool, seen |-> l]
           n == Len(given)
<1>1. given \in Seq(Answer) /\ given' = Append(given, a) /\ n \in Nat /\ pool \in Nat
  BY DEF Gives, TypeOK
<1> HIDE DEF a
<1>2. DOMAIN given' = 1 .. n + 1 /\ DOMAIN given = 1..n
  BY <1>1
<1>3. (\A k \in 1..n : given'[k] = given[k]) /\ given'[n + 1] = a
  BY <1>1
<1>4. ASSUME NEW k \in DOMAIN given'
      PROVE  (k \in DOMAIN given /\ given'[k] = given[k]) \/ given'[k] = a
  BY <1>1, <1>2, <1>3
<1>5. a.item = x /\ a.inst = i /\ a.of = pool /\ a.seen = l
  BY DEF a
<1>6. GivenOld'
  BY <1>1, <1>4, <1>5 DEF GivenOld
<1>7. LeastWhenRead'
  BY <1>4, <1>5 DEF LeastWhenRead
<1> QED
  BY <1>6, <1>7

\* Every step keeps what is known of the answers.
LEMMA AnswersNext ==
  IndInv /\ [Next]_vars => GivenOld' /\ LeastWhenRead'
<1> SUFFICES ASSUME IndInv, [Next]_vars PROVE GivenOld' /\ LeastWhenRead'
  OBVIOUS
<1> USE SchedulerAssumption DEF IndInv
<1>0. pool \in Nat /\ \A j \in Inst : load[j] \in Nat
  BY DEF TypeOK
<1>1. CASE UNCHANGED <<given, load>> /\ pool' \in {pool, pool + 1}
  BY <1>0, <1>1, AnswersKept
<1>2. ASSUME NEW i \in Inst, Evaluates(i) PROVE GivenOld' /\ LeastWhenRead'
  <2>1. \A j \in Inst : load[j] <= load'[j] /\ load'[j] \in Nat
    BY <1>0, <1>2 DEF Evaluates, TypeOK
  <2> QED
    BY <1>0, <1>2, <2>1, AnswersKept DEF Evaluates
<1>3. CASE AssignNamed
  BY <1>3, AnswersGrow DEF AssignNamed
<1>4. CASE AssignRoundRobin
  <2>1. \A j \in 0 .. pool - 1 : 0 <= load[j]
    BY DEF TypeOK, Inst
  <2> QED
    BY <1>4, <2>1, AnswersGrow DEF AssignRoundRobin
<1>5. ASSUME NEW t \in Thread, ScanEnds(t) PROVE GivenOld' /\ LeastWhenRead'
  <2>1. /\ mu # Nobody /\ at = pool /\ UNCHANGED <<load, pool>>
        /\ Gives(hand[1], chosen, IF chosen = NoInst THEN 0 ELSE Kept)
    BY <1>5 DEF ScanEnds, Kept
  <2>2. \A j \in 0 .. pool - 1 : Kept <= load[j]
    BY <2>1 DEF ScanSound
  <2> QED
    BY <2>1, <2>2, AnswersGrow
<1> QED
  BY <1>1, <1>2, <1>3, <1>4, <1>5
  DEF Next, SetPool, PoolGrows, Submit, AssignStep, RoundRobinLoses, ScanBegins,
      ScanReads, vars

\* The inductive invariant: types, the scan, and the answers.
THEOREM Invariance == Spec => []IndInv
<1>1. Init => IndInv
  BY TypeInit, ScanInit DEF IndInv
<1>2. IndInv /\ [Next]_vars => IndInv'
  BY TypeNext, ScanNext, AnswersNext DEF IndInv
<1> QED
  BY <1>1, <1>2, PTL DEF Spec

\* The variables of the scheduler have their types, whoever calls.
THEOREM TypeCorrect == Spec => []TypeOK
<1>1. IndInv => TypeOK
  BY DEF IndInv
<1> QED
  BY <1>1, Invariance, PTL

\* The instance that a policy by load has chosen had, when it was looked at,
\* no more evaluations than any has now, however the loads have changed.
THEOREM ChoiceIsLeast == Spec => []LeastWhenRead
<1>1. IndInv => LeastWhenRead
  BY DEF IndInv
<1> QED
  BY <1>1, Invariance, PTL

-----------------------------------------------------------------------------
(* ROUND_ROBIN *)

\* The instances from s up to the one before c, around the pool.
Served(s, c, i) == IF s <= c THEN s <= i /\ i < c ELSE s <= i \/ i < c

\* Since the pool has its size all instances have had b items, and those
\* from s up to the cursor one more.
EvenFrom(s, b) ==
  \A i \in Ids :
    Cardinality(Turn(i)) = b + (IF Served(s, cursor % pool, i) THEN 1 ELSE 0)

\* Nobody scans, and the turns have been taken around the pool.
Even ==
  policy = "ROUND_ROBIN" =>
    /\ mu = Nobody
    /\ pool > 0 => \E s \in Ids, b \in Nat : EvenFrom(s, b)

\* What a number leaves when it is divided.
LEMMA Remainder ==
  ASSUME NEW d \in Int, NEW r \in Nat, NEW p \in Nat, 0 < p, r < p,
         NEW c, c = p * d + r
  PROVE  c % p = r
OBVIOUS

\* The turn after the turn of an instance.
LEMMA NextTurn ==
  ASSUME NEW c \in Nat, NEW p \in Nat, 0 < p
  PROVE  /\ c % p \in 0 .. p - 1
         /\ (c + 1) % p = IF (c % p) + 1 = p THEN 0 ELSE (c % p) + 1
<1> DEFINE d == c \div p
           r == c % p
<1>1. c \in Int /\ p \in Int /\ d \in Int /\ r \in 0 .. p - 1 /\ r \in Int
  OBVIOUS
<1>2. c = p * d + r
  <2> HIDE DEF d, r
  <2>1. d = c \div p /\ r = c % p
    BY DEF d, r
  <2> QED
    BY <1>1, <2>1
<1> SUFFICES (c + 1) % p = IF r + 1 = p THEN 0 ELSE r + 1
  BY <1>1
<1> HIDE DEF d, r
<1>3. CASE r + 1 = p
  <2>1. c + 1 = p * (d + 1) + 0
    BY <1>1, <1>2, <1>3
  <2>2. d + 1 \in Int /\ 0 \in Nat
    BY <1>1
  <2>3. (c + 1) % p = 0
    BY <2>1, <2>2, Remainder, Zenon
  <2> QED
    BY <1>3, <2>3
<1>4. CASE r + 1 # p
  <2>1. PICK e \in Nat : e = r + 1
    BY <1>1
  <2>2. c + 1 = p * d + e /\ e < p /\ d \in Int
    BY <1>1, <1>2, <1>4, <2>1
  <2>3. (c + 1) % p = e
    BY <2>2, Remainder, Zenon
  <2> QED
    BY <1>4, <2>1, <2>3, Zenon
<1> QED
  BY <1>3, <1>4

\* The answers of a turn are counted by a number.
LEMMA TurnFinite ==
  ASSUME TypeOK, NEW i
  PROVE  IsFiniteSet(Turn(i)) /\ Cardinality(Turn(i)) \in Nat
<1>1. Len(given) \in Nat /\ DOMAIN given = 1 .. Len(given) /\ 1 \in Int /\ Len(given) \in Int
  BY DEF TypeOK
<1>2. IsFiniteSet(1 .. Len(given))
  BY <1>1, FS_Interval, Zenon
<1>3. Turn(i) \subseteq 1 .. Len(given)
  BY <1>1 DEF Turn
<1> QED
  BY <1>2, <1>3, FS_Subset, FS_CardinalityType

\* One more answer is one more for the instance it has, if the item has no name.
LEMMA TurnGives ==
  ASSUME TypeOK, NEW x, NEW j, NEW l, Gives(x, j, l), UNCHANGED pool, NEW i
  PROVE  Cardinality(Turn(i)') =
           Cardinality(Turn(i)) + (IF x.want = NoInst /\ i = j THEN 1 ELSE 0)
<1> DEFINE n == Len(given)
<1>1. /\ n \in Nat /\ DOMAIN given = 1 .. n /\ DOMAIN given' = 1 .. n + 1
      /\ \A k \in 1 .. n : given'[k] = given[k]
      /\ given'[n + 1] = [item |-> x, inst |-> j, of |-> pool, seen |-> l]
  BY DEF TypeOK, Gives
<1>2. n + 1 \notin Turn(i) /\ IsFiniteSet(Turn(i)) /\ Cardinality(Turn(i)) \in Nat
  <2>1. Turn(i) \subseteq 1 .. n /\ n + 1 \notin 1 .. n
    BY <1>1 DEF Turn
  <2> QED
    BY <2>1, TurnFinite
<1> HIDE DEF n
<1>3. CASE x.want = NoInst /\ i = j
  <2>1. Turn(i)' = Turn(i) \cup {n + 1}
    BY <1>1, <1>3 DEF Turn
  <2> QED
    BY <1>2, <1>3, <2>1, FS_AddElement
<1>4. CASE ~(x.want = NoInst /\ i = j)
  <2>1. Turn(i)' = Turn(i)
    BY <1>1, <1>4 DEF Turn
  <2> QED
    BY <1>2, <1>4, <2>1
<1> QED
  BY <1>3, <1>4

\* Every step keeps the turns around the pool.
LEMMA EvenNext ==
  ASSUME IndInv, Even, [Next]_vars
  PROVE  Even'
<1> SUFFICES ASSUME policy' = "ROUND_ROBIN"
             PROVE  mu' = Nobody /\ (pool' > 0 => \E s \in Ids', b \in Nat : EvenFrom(s, b)')
  BY DEF Even
<1> USE SchedulerAssumption
<1>1. policy = "ROUND_ROBIN" /\ UNCHANGED policy
  BY DEF Next, SetPool, PoolGrows, Evaluates, Submit, AssignStep, AssignNamed, AssignRoundRobin,
         RoundRobinLoses, ScanBegins, ScanReads, ScanEnds, vars
<1>2. TypeOK /\ GivenOld
  BY DEF IndInv
<1>3. mu = Nobody /\ (pool > 0 => \E s \in Ids, b \in Nat : EvenFrom(s, b))
  BY <1>1 DEF Even
<1>4. cursor \in Nat /\ pool \in Nat
  BY <1>2 DEF TypeOK
<1>5. CASE UNCHANGED <<mu, pool, cursor, given>>
  <2> SUFFICES ASSUME pool > 0 PROVE \E s \in Ids', b \in Nat : EvenFrom(s, b)'
    BY <1>3, <1>5
  <2>1. PICK s \in Ids, b \in Nat : EvenFrom(s, b)
    BY <1>3
  <2>2. EvenFrom(s, b)'
    BY <1>5, <2>1 DEF EvenFrom, Turn, Ids
  <2> QED
    BY <1>5, <2>2 DEF Ids
<1>6. CASE PoolGrows
  <2>1. pool' = pool + 1 /\ UNCHANGED <<mu, cursor, given>>
    BY <1>6 DEF PoolGrows
  <2>2. \A i : Turn(i)' = {}
    BY <1>2, <1>4, <2>1 DEF GivenOld, Turn
  <2>3. PICK c : c = cursor' % pool'
    OBVIOUS
  <2>4. c \in 0 .. pool' - 1
    BY <1>4, <2>1, <2>3
  <2>5. \A i \in 0 .. pool' - 1 : ~Served(c, c, i)
    BY <1>4, <2>1, <2>4 DEF Served
  <2>6. EvenFrom(c, 0)'
    BY <2>2, <2>3, <2>5, FS_EmptySet DEF EvenFrom, Ids
  <2> QED
    BY <1>3, <2>1, <2>4, <2>6 DEF Ids
<1>7. CASE AssignNamed
  <2> DEFINE j == IF Head(q).want \in Ids THEN Head(q).want ELSE NoInst
  <2>1. Head(q).want # NoInst /\ Gives(Head(q), j, 0) /\ UNCHANGED <<pool, mu, cursor>>
    BY <1>7 DEF AssignNamed
  <2> HIDE DEF j
  <2>2. \A i : Cardinality(Turn(i)') = Cardinality(Turn(i))
    BY <1>2, <2>1, TurnGives, TurnFinite
  <2> SUFFICES ASSUME pool > 0 PROVE \E s \in Ids', b \in Nat : EvenFrom(s, b)'
    BY <1>3, <2>1
  <2>3. PICK s \in Ids, b \in Nat : EvenFrom(s, b)
    BY <1>3
  <2>4. EvenFrom(s, b)'
    BY <2>1, <2>2, <2>3 DEF EvenFrom, Ids
  <2> QED
    BY <2>1, <2>4 DEF Ids
<1>8. CASE AssignRoundRobin
  <2>1. /\ pool > 0 /\ Head(q).want = NoInst /\ Gives(Head(q), cursor % pool, 0)
        /\ cursor' = cursor + 1 /\ UNCHANGED <<pool, mu>>
    BY <1>8 DEF AssignRoundRobin, Turns, scan
  <2>2. PICK s \in Ids, b \in Nat : EvenFrom(s, b)
    BY <1>3, <2>1
  <2>3. PICK c : c = cursor % pool
    OBVIOUS
  <2>4. PICK d : d = cursor' % pool'
    OBVIOUS
  <2>5. c \in 0 .. pool - 1 /\ d = IF c + 1 = pool THEN 0 ELSE c + 1
    BY <1>4, <2>1, <2>3, <2>4, NextTurn
  <2>6. \A i \in Ids : Cardinality(Turn(i)') = b + (IF Served(s, c, i) \/ i = c THEN 1 ELSE 0)
    <3>1. \A i : Cardinality(Turn(i)') = Cardinality(Turn(i)) + (IF i = c THEN 1 ELSE 0)
      BY <1>2, <2>1, <2>3, TurnGives, Zenon
    <3>2. \A i \in Ids : Cardinality(Turn(i)) = b + (IF Served(s, c, i) THEN 1 ELSE 0)
      BY <2>2, <2>3 DEF EvenFrom
    <3>3. ~Served(s, c, c)
      BY <1>4, <2>5 DEF Served
    <3> QED
      BY <3>1, <3>2, <3>3
  <2>7. CASE d = s
    <3>1. \A i \in Ids : (Served(s, c, i) \/ i = c) /\ ~Served(s, d, i)
      BY <1>4, <2>5, <2>7 DEF Served, Ids
    <3>2. \A i \in Ids : Cardinality(Turn(i)') = b + 1 + (IF Served(s, d, i) THEN 1 ELSE 0)
      BY <2>6, <3>1
    <3>3. EvenFrom(s, b + 1)'
      BY <2>1, <2>4, <3>2 DEF EvenFrom, Ids
    <3> QED
      BY <1>3, <2>1, <3>3 DEF Ids
  <2>8. CASE d # s
    <3>1. \A i \in Ids : Served(s, d, i) <=> Served(s, c, i) \/ i = c
      BY <1>4, <2>5, <2>8 DEF Served, Ids
    <3>2. \A i \in Ids : Cardinality(Turn(i)') = b + (IF Served(s, d, i) THEN 1 ELSE 0)
      BY <2>6, <3>1
    <3>3. EvenFrom(s, b)'
      BY <2>1, <2>4, <3>2 DEF EvenFrom, Ids
    <3> QED
      BY <1>3, <2>1, <3>3 DEF Ids
  <2> QED
    BY <2>7, <2>8
<1>9. CASE SetPool \/ RoundRobinLoses \/ UNCHANGED vars
  BY <1>5, <1>9 DEF SetPool, RoundRobinLoses, vars
<1>10. ASSUME NEW i \in Inst, Evaluates(i) PROVE UNCHANGED <<mu, pool, cursor, given>>
  BY <1>10 DEF Evaluates
<1>11. ASSUME NEW want, NEW prio, Submit(want, prio) PROVE UNCHANGED <<mu, pool, cursor, given>>
  BY <1>11 DEF Submit
<1>12. ASSUME NEW t \in Thread PROVE ~ScanBegins(t) /\ ~ScanReads(t) /\ ~ScanEnds(t)
  BY <1>1, <1>3 DEF ScanBegins, ScanReads, ScanEnds
<1> QED
  BY <1>5, <1>6, <1>7, <1>8, <1>9, <1>10, <1>11, <1>12 DEF Next, AssignStep

\* From any time on at which the pool grew, wherever the cursor was, no
\* instance gets two items more than another.
THEOREM TurnsAreEven == Spec => []RoundRobinEven
<1>1. Init => Even
  BY DEF Init, Even
<1>2. IndInv /\ Even /\ [Next]_vars => Even'
  BY EvenNext
<1>3. IndInv /\ Even => RoundRobinEven
  <2> SUFFICES ASSUME IndInv, Even, policy = "ROUND_ROBIN", NEW i \in Ids, NEW j \in Ids
               PROVE  Cardinality(Turn(i)) <= Cardinality(Turn(j)) + 1
    BY DEF RoundRobinEven
  <2>1. pool > 0
    BY SchedulerAssumption DEF Ids, IndInv, TypeOK
  <2>2. PICK s \in Ids, b \in Nat : EvenFrom(s, b)
    BY <2>1 DEF Even
  <2>3. \A k \in Ids : Cardinality(Turn(k)) \in {b, b + 1}
    BY <2>2 DEF EvenFrom
  <2> QED
    BY <2>3
<1> QED
  BY <1>1, <1>2, <1>3, Invariance, PTL DEF Spec

-----------------------------------------------------------------------------
(* The refinement of WorkQueue *)

\* The variables of WorkQueue, as Queue has them.
Pending   == hand \o q
Delivered == [k \in DOMAIN given |-> <<given[k].item, given[k].inst>>]

\* While mu_ is free nothing is in hand; otherwise the item in hand is the
\* head of what is pending.
LEMMA PendingFacts ==
  ASSUME TypeOK
  PROVE  /\ mu = Nobody => Pending = q
         /\ mu # Nobody => /\ Pending # <<>> /\ Head(Pending) = hand[1]
                           /\ Tail(Pending) = q
<1>1. q \in Seq(Item) /\ hand \in Seq(Item)
  BY DEF TypeOK
<1>2. CASE mu = Nobody
  BY <1>1, <1>2 DEF TypeOK, Pending
<1>3. CASE mu # Nobody
  <2>1. hand = <<hand[1]>> /\ hand[1] \in Item
    BY <1>3, InHand
  <2>2. Len(hand) = 1 /\ Len(q) \in Nat
    BY <1>1, <2>1
  <2>3. /\ Pending \in Seq(Item) /\ Len(Pending) = 1 + Len(q)
        /\ Pending[1] = hand[1] /\ \A k \in 1 .. Len(q) : Pending[k + 1] = q[k]
    <3>1. /\ Pending \in Seq(Item) /\ Len(Pending) = Len(hand) + Len(q)
          /\ \A k \in 1 .. Len(hand) + Len(q) :
               Pending[k] = IF k <= Len(hand) THEN hand[k] ELSE q[k - Len(hand)]
      BY <1>1, ConcatProperties DEF Pending
    <3>2. \A k \in 1 .. 1 + Len(q) : Pending[k] = IF k <= 1 THEN hand[k] ELSE q[k - 1]
      BY <2>2, <3>1
    <3>3. \A k \in 1 .. Len(q) : /\ k + 1 \in 1 .. 1 + Len(q) /\ ~(k + 1 <= 1)
                               /\ (k + 1) - 1 = k
      BY <2>2
    <3> QED
      BY <2>2, <3>1, <3>2, <3>3
  <2>4. Pending # <<>> /\ Head(Pending) = hand[1] /\ Tail(Pending) = q
    BY <1>1, <2>2, <2>3
  <2> QED
    BY <1>3, <2>4
<1> QED
  BY <1>2, <1>3

\* An answer is a delivery.
LEMMA GivesDelivers ==
  ASSUME TypeOK, NEW x \in Item, NEW i \in NoInst .. MaxPool - 1, NEW l, Gives(x, i, l)
  PROVE  Delivered' = Append(Delivered, <<x, i>>)
<1> DEFINE a == [item |-> x, inst |-> i, of |-> pool, seen |-> l]
           n == Len(given)
           D == Item \X (NoInst .. MaxPool - 1)
<1>1. given \in Seq(Answer) /\ given' = Append(given, a) /\ n \in Nat
  BY DEF Gives, TypeOK
<1>2. a.item = x /\ a.inst = i
  OBVIOUS
<1> HIDE DEF a
<1>3. DOMAIN given' = 1 .. n + 1 /\ DOMAIN given = 1..n
  BY <1>1
<1>4. (\A k \in 1..n : given'[k] = given[k]) /\ given'[n + 1] = a
  BY <1>1
<1>5. Delivered' = [k \in 1 .. n + 1 |-> IF k = n + 1 THEN <<x, i>>
                                         ELSE <<given[k].item, given[k].inst>>]
  BY <1>1, <1>2, <1>3, <1>4 DEF Delivered
<1>6. Delivered \in [1..n -> D]
  BY <1>3, AnswerFields DEF Delivered
<1>7. Delivered \in Seq(D) /\ Len(Delivered) = n
  BY <1>1, <1>6
<1>8. <<x, i>> \in D
  OBVIOUS
<1>9. \A k \in 1..n : Delivered[k] = <<given[k].item, given[k].inst>>
  BY <1>3 DEF Delivered
<1> HIDE DEF D
<1>10. Append(Delivered, <<x, i>>) = [k \in 1 .. n + 1 |-> IF k = n + 1 THEN <<x, i>> ELSE Delivered[k]]
  BY <1>1, <1>7, <1>8
<1>11. \A k \in 1 .. n + 1 : (IF k = n + 1 THEN <<x, i>>
                                ELSE <<given[k].item, given[k].inst>>)
                             = (IF k = n + 1 THEN <<x, i>> ELSE Delivered[k])
  <2>1. \A k \in 1 .. n + 1 : k = n + 1 \/ k \in 1..n
    BY <1>1
  <2> QED
    BY <1>9, <2>1
<1> QED
  BY <1>5, <1>10, <1>11

\* The first state is one of the queue.
LEMMA QueueInit == Init => Queue!Init
<1> SUFFICES ASSUME Init PROVE Queue!Init
  OBVIOUS
<1>1. Pending = <<>> /\ pool = 0
  BY DEF Init, Pending
<1>2. Delivered = <<>>
  BY DEF Init, Delivered
<1> QED
  BY <1>1, <1>2 DEF Queue!Init, Pending, Delivered

\* One delivery, of the head of what is pending.
LEMMA Delivers ==
  ASSUME TypeOK, UNCHANGED pool, Pending # <<>>, Head(Pending) \in Item,
         Pending' = Tail(Pending),
         NEW i \in Queue!Choices(Head(Pending)), i \in NoInst .. MaxPool - 1,
         NEW l, Gives(Head(Pending), i, l)
  PROVE  Queue!Deliver
<1>1. Delivered' = Append(Delivered, <<Head(Pending), i>>)
  BY GivesDelivers
<1> QED
  BY <1>1 DEF Queue!Deliver, Pending, Delivered

\* Every step of the scheduler is one of the queue, or a stutter.
LEMMA QueueNext ==
  TypeOK /\ ScanSound /\ TypeOK' /\ [Next]_vars => [Queue!Next]_(Queue!vars)
<1> SUFFICES ASSUME TypeOK, ScanSound, TypeOK', [Next]_vars
             PROVE  Queue!Next \/ UNCHANGED <<Pending, Delivered, pool>>
  BY DEF Queue!vars, Pending, Delivered
<1> USE SchedulerAssumption
<1>1. CASE UNCHANGED <<hand, q, given, pool>>
  BY <1>1 DEF Pending, Delivered
<1>2. CASE PoolGrows
  <2>1. UNCHANGED <<Pending, Delivered>> /\ pool' = pool + 1
    BY <1>2 DEF PoolGrows, scan, Pending, Delivered
  <2> QED
    BY <2>1 DEF Queue!Next, Queue!Grow, Pending, Delivered
<1>3. ASSUME NEW want \in NoInst..MaxPool, NEW prio \in {0, 1}, Submit(want, prio)
      PROVE  Queue!Next
  <2> DEFINE x == [no |-> submitted', want |-> want, prio |-> prio]
  <2>1. submitted' \in 1..MaxItems /\ q' = Append(q, x) /\ mu = Nobody /\ mu' = Nobody
        /\ UNCHANGED <<given, pool>>
    BY <1>3 DEF Submit, scan, TypeOK
  <2>2. x \in Queue!Item
    BY <2>1 DEF Queue!Item, Queue!NoInst, NoInst
  <2>3. Pending = q /\ Pending' = q'
    <3>1. hand' = <<>> /\ q' \in Seq(Item)
      BY <2>1 DEF TypeOK
    <3> QED
      BY <2>1, <3>1, PendingFacts DEF Pending
  <2>4. Pending' = Append(Pending, x) /\ UNCHANGED <<Delivered, pool>>
    BY <2>1, <2>3 DEF Delivered
  <2> HIDE DEF x
  <2> QED
    BY <2>2, <2>4 DEF Queue!Next, Queue!Submit, Pending, Delivered
<1>4. CASE Ready /\ q' = Tail(q) /\ UNCHANGED <<pool, mu, scan>>
           /\ \E i \in Queue!Choices(Head(q)) : i \in NoInst .. MaxPool - 1
                                                /\ Gives(Head(q), i, 0)
  <2>1. q # <<>> /\ Pending = q /\ Pending' = Tail(q) /\ Head(q) \in Item /\ UNCHANGED pool
    <3>1. q # <<>> /\ mu = Nobody /\ q' = Tail(q) /\ UNCHANGED <<pool, mu, hand>>
      BY <1>4 DEF Ready, scan
    <3>2. hand' = <<>> /\ q' \in Seq(Item)
      BY <3>1 DEF TypeOK
    <3> QED
      BY <3>1, <3>2, PendingFacts, QueueHead DEF Pending
  <2>2. PICK i \in Queue!Choices(Head(q)) : i \in NoInst .. MaxPool - 1 /\ Gives(Head(q), i, 0)
    BY <1>4
  <2> QED
    BY <2>1, <2>2, Delivers DEF Queue!Next
<1>5. CASE AssignNamed
  <2> DEFINE i == IF Head(q).want \in Ids THEN Head(q).want ELSE NoInst
  <2>1. /\ Ready /\ Head(q).want # NoInst /\ q' = Tail(q) /\ Gives(Head(q), i, 0)
        /\ UNCHANGED <<pool, mu, scan>>
    BY <1>5 DEF AssignNamed
  <2>2. i \in NoInst .. MaxPool - 1
    <3>1. pool \in Nat /\ pool <= MaxPool
      BY DEF TypeOK
    <3>2. Ids \subseteq NoInst .. MaxPool - 1 /\ NoInst \in NoInst .. MaxPool - 1
      BY <3>1 DEF Ids, NoInst
    <3> QED
      BY <3>2
  <2>3. i \in Queue!Choices(Head(q))
    <3>1. CASE Head(q).want \in Ids
      BY <2>1, <3>1 DEF Queue!Choices, Queue!Ids, Queue!NoInst, Ids, NoInst
    <3>2. CASE Head(q).want \notin Ids
      BY <2>1, <3>2 DEF Queue!Choices, Queue!Ids, Queue!NoInst, Ids, NoInst
    <3> QED
      BY <3>1, <3>2
  <2> HIDE DEF i
  <2> QED
    BY <1>4, <2>1, <2>2, <2>3
<1>6. CASE AssignRoundRobin
  <2>1. /\ Ready /\ Head(q).want = NoInst /\ pool > 0 /\ q' = Tail(q)
        /\ Gives(Head(q), cursor % pool, 0) /\ UNCHANGED <<pool, mu, scan>>
    BY <1>6 DEF AssignRoundRobin, Turns
  <2> DEFINE c == cursor % pool
  <2>2. c \in 0 .. pool - 1 /\ c \in NoInst .. MaxPool - 1 /\ Gives(Head(q), c, 0)
    <3>1. pool \in Nat /\ pool > 0 /\ pool <= MaxPool /\ cursor \in Nat
      BY <2>1 DEF TypeOK
    <3>2. c \in 0 .. pool - 1
      BY <3>1
    <3> HIDE DEF c
    <3>3. c \in NoInst .. MaxPool - 1
      BY <3>1, <3>2 DEF NoInst
    <3> QED
      BY <2>1, <3>2, <3>3 DEF c
  <2> HIDE DEF c
  <2>3. Queue!Choices(Head(q)) = 0 .. pool - 1
    <3>1. pool \in Nat /\ pool # 0 /\ Head(q).want = -1
      BY <2>1 DEF TypeOK, NoInst
    <3>2. Head(q).want \notin 0 .. pool - 1
      BY <3>1
    <3> QED
      BY <3>1, <3>2 DEF Queue!Choices, Queue!Ids, Queue!NoInst
  <2>4. /\ Ready /\ q' = Tail(q) /\ UNCHANGED <<pool, mu, scan>>
        /\ c \in Queue!Choices(Head(q))
    BY <2>1, <2>2, <2>3
  <2> QED
    BY <1>4, <2>2, <2>4
<1>7. CASE RoundRobinLoses
  <2>1. /\ q # <<>> /\ mu = Nobody /\ Head(q).want = NoInst /\ pool = 0 /\ q' = Tail(q)
        /\ UNCHANGED <<pool, mu, hand, given>>
    BY <1>7 DEF RoundRobinLoses, Turns, Ready, scan
  <2>2. hand' = <<>> /\ q' \in Seq(Item)
    BY <2>1 DEF TypeOK
  <2>3. Pending = q /\ Pending' = Tail(q) /\ UNCHANGED <<Delivered, pool>>
    BY <2>1, <2>2, PendingFacts DEF Pending, Delivered
  <2> QED
    BY <2>1, <2>3 DEF Queue!Next, Queue!Drop, Queue!NoInst, NoInst, Pending, Delivered
<1>8. ASSUME NEW t \in Thread, ScanBegins(t) PROVE UNCHANGED <<Pending, Delivered, pool>>
  <2>1. /\ q # <<>> /\ mu = Nobody /\ hand' = <<Head(q)>> /\ q' = Tail(q)
        /\ UNCHANGED <<given, pool>>
    BY <1>8 DEF ScanBegins, Ready
  <2> QED
    BY <2>1, PendingFacts, QueueHead DEF Pending, Delivered
<1>9. ASSUME NEW t \in Thread, ScanEnds(t) PROVE Queue!Next
  <2> DEFINE l == IF chosen = NoInst THEN 0 ELSE best - Offset(hand[1])
  <2>1. /\ mu # Nobody /\ at = pool /\ Gives(hand[1], chosen, l)
        /\ hand' = <<>> /\ UNCHANGED <<q, pool>>
    BY <1>9 DEF ScanEnds
  <2> HIDE DEF l
  <2>2. q \in Seq(Item) /\ Pending' = q
    BY <2>1 DEF TypeOK, Pending
  <2>3. Pending # <<>> /\ Head(Pending) = hand[1] /\ Tail(Pending) = q /\ hand[1] \in Item
    BY <2>1, PendingFacts, InHand
  <2>4. chosen \in NoInst .. MaxPool - 1
    BY DEF TypeOK, NoInst
  <2>5. chosen \in Queue!Choices(hand[1])
    <3>1. pool \in Nat /\ hand[1].want = NoInst
      BY <2>1 DEF ScanSound, TypeOK
    <3>2. IF pool = 0 THEN chosen = NoInst ELSE chosen \in 0 .. pool - 1
      BY <2>1, <3>1 DEF ScanSound
    <3> QED
      BY <3>1, <3>2 DEF Queue!Choices, Queue!Ids, Queue!NoInst, NoInst
  <2> QED
    BY <2>1, <2>2, <2>3, <2>4, <2>5, Delivers DEF Queue!Next
<1> QED
  BY <1>1, <1>2, <1>3, <1>5, <1>6, <1>7, <1>8, <1>9
  DEF Next, SetPool, Evaluates, AssignStep, ScanReads, scan, vars

\* Under each policy the scheduler is the queue of WorkQueue: in order, each
\* item once, with an instance of the pool, and lost only if the pool is
\* empty.
THEOREM SchedulerImplementsQueue == Spec => ImplementsQueue
<1>1. IndInv /\ IndInv' /\ [Next]_vars => [Queue!Next]_(Queue!vars)
  BY QueueNext DEF IndInv
<1> QED
  BY QueueInit, <1>1, Invariance, PTL DEF Spec, ImplementsQueue, Queue!Spec
=============================================================================
