------------------------------ MODULE Scheduler ------------------------------
(***************************************************************************)
(* Scheduler (src/scheduler.cpp): threads submit work items and ask for    *)
(* the next one, which try_assign gives an instance according to the       *)
(* policy.  The instances are at work meanwhile: their n_evaluations grow  *)
(* while LEAST_LOAD and DAG_AWARE read them one after the other.           *)
(*                                                                         *)
(* submit and try_assign hold mu_.  What try_assign does under it is seen  *)
(* by nobody else, but for the reads of the loads: it is one step for an   *)
(* item that names its instance and for ROUND_ROBIN, and one step for each *)
(* load otherwise.  The vector that pool_ points to belongs to the         *)
(* orchestrator, which appends to it without mu_: here it does so while    *)
(* nobody is in try_assign.  Nothing in the program calls try_assign at    *)
(* this commit; the threads here may call in any order.                    *)
(***************************************************************************)
EXTENDS Integers, Sequences, FiniteSets

CONSTANTS
  Thread,     \* the threads that use the scheduler
  Nobody,     \* the holder of a mutex that is free
  MaxItems,   \* bound on the number of items submitted
  MaxPool,    \* bound on the number of instances
  MaxLoad     \* bound on n_evaluations of an instance

ASSUME SchedulerAssumption ==
  /\ Nobody \notin Thread
  /\ MaxItems \in Nat /\ MaxPool \in Nat /\ MaxLoad \in Nat

SchedulePolicy == {"ROUND_ROBIN", "LEAST_LOAD", "DAG_AWARE"}

NoInst == -1
Inst   == 0 .. MaxPool - 1

Item == [no : 1..MaxItems, want : NoInst..MaxPool, prio : {0, 1}]

VARIABLES
  policy,     \* pol_
  attached,   \* whether set_pool has been called
  pool,       \* number of instances in *pool_; their ids are 0 .. pool - 1
  load,       \* n_evaluations of each instance
  mu,         \* the holder of mu_
  q,          \* q_
  cursor,     \* rr_cursor_
  submitted,  \* number of items submitted
  hand,       \* of the holder of mu_: the item it has popped, if any
  at,         \*   the instance its scan has come to
  best,       \*   the least load so far
  chosen,     \*   the instance that had it
  given       \* what try_assign has returned; assigned_ is its length

scan == <<hand, at, best, chosen>>
vars == <<policy, attached, pool, load, mu, q, cursor, submitted, scan, given>>

Ids == 0 .. pool - 1

\* An answer of try_assign: item and instance, the size of the pool at the
\* time, and, after a scan, the load that was read of the instance.
Answer == [item : Item, inst : NoInst .. MaxPool - 1, of : 0..MaxPool, seen : 0..MaxLoad]

\* The types of the variables; a thread in a scan holds mu_ and an item, and
\* has not passed the end of the pool.
TypeOK ==
  /\ policy \in SchedulePolicy
  /\ attached \in BOOLEAN
  /\ pool \in 0..MaxPool
  /\ load \in [Inst -> 0..MaxLoad]
  /\ mu \in Thread \cup {Nobody}
  /\ q \in Seq(Item)
  /\ cursor \in Nat
  /\ submitted \in 0..MaxItems
  /\ hand \in Seq(Item) /\ (IF mu = Nobody THEN hand = <<>> ELSE Len(hand) = 1)
  /\ at \in 0..pool
  /\ best \in 0 .. MaxLoad + 2
  /\ chosen \in NoInst .. pool - 1
  /\ given \in Seq(Answer)

\* Above all loads: UINT64_MAX.
Infinite == MaxLoad + 2

Init ==
  /\ policy \in SchedulePolicy
  /\ attached = FALSE /\ pool = 0
  /\ load = [i \in Inst |-> 0]
  /\ mu = Nobody /\ q = <<>> /\ cursor = 0 /\ submitted = 0
  /\ hand = <<>> /\ at = 0 /\ best = Infinite /\ chosen = NoInst
  /\ given = <<>>

-----------------------------------------------------------------------------
(* The orchestrator and the instances *)

SetPool ==
  /\ attached' = TRUE
  /\ UNCHANGED <<policy, pool, load, mu, q, cursor, submitted, scan, given>>

PoolGrows ==
  /\ mu = Nobody /\ pool < MaxPool
  /\ pool' = pool + 1
  /\ UNCHANGED <<policy, attached, load, mu, q, cursor, submitted, scan, given>>

Evaluates(i) ==
  /\ i \in Ids /\ load[i] < MaxLoad
  /\ load' = [load EXCEPT ![i] = @ + 1]
  /\ UNCHANGED <<policy, attached, pool, mu, q, cursor, submitted, scan, given>>

-----------------------------------------------------------------------------
(* submit *)

Submit(want, prio) ==
  /\ mu = Nobody /\ submitted < MaxItems
  /\ submitted' = submitted + 1
  /\ q' = Append(q, [no |-> submitted', want |-> want, prio |-> prio])
  /\ UNCHANGED <<policy, attached, pool, load, mu, cursor, scan, given>>

-----------------------------------------------------------------------------
(* try_assign *)

\* There is an item to assign, and mu_ is free.  Otherwise the caller waits,
\* or gets FALSE.
Ready == mu = Nobody /\ attached /\ q # <<>>

Gives(x, i, load_i) ==
  given' = Append(given, [item |-> x, inst |-> i, of |-> pool, seen |-> load_i])

\* An item whose instance is not there goes back into the queue.
AssignNamedRequeues ==
  /\ Ready /\ Head(q).want # NoInst
  /\ IF Head(q).want \in Ids
     THEN q' = Tail(q) /\ Gives(Head(q), Head(q).want, 0)
     ELSE q' = Append(Tail(q), Head(q)) /\ UNCHANGED given
  /\ UNCHANGED <<policy, attached, pool, load, mu, cursor, submitted, scan>>

\* Every item takes a turn.
AssignNamedTakesTurn ==
  /\ Ready /\ Head(q).want # NoInst
  /\ q' = Tail(q)
  /\ Gives(Head(q), IF Head(q).want \in Ids THEN Head(q).want ELSE NoInst, 0)
  /\ cursor' = cursor + 1
  /\ UNCHANGED <<policy, attached, pool, load, mu, submitted, scan>>

\* An item that names an instance gets it, or none if there is no such one.
AssignNamed ==
  /\ Ready /\ Head(q).want # NoInst
  /\ q' = Tail(q)
  /\ Gives(Head(q), IF Head(q).want \in Ids THEN Head(q).want ELSE NoInst, 0)
  /\ UNCHANGED <<policy, attached, pool, load, mu, cursor, submitted, scan>>

Turns == Ready /\ Head(q).want = NoInst /\ policy = "ROUND_ROBIN"

AssignRoundRobin ==
  /\ Turns /\ pool > 0
  /\ q' = Tail(q)
  /\ Gives(Head(q), cursor % pool, 0)
  /\ cursor' = cursor + 1
  /\ UNCHANGED <<policy, attached, pool, load, mu, submitted, scan>>

\* try_assign returns FALSE, as for an empty queue, but the item is gone.
RoundRobinLoses ==
  /\ Turns /\ pool = 0
  /\ q' = Tail(q)
  /\ UNCHANGED <<policy, attached, pool, load, mu, cursor, submitted, scan, given>>

ScanBegins(t) ==
  /\ Ready /\ Head(q).want = NoInst /\ policy # "ROUND_ROBIN"
  /\ mu' = t
  /\ hand' = <<Head(q)>> /\ q' = Tail(q)
  /\ at' = 0 /\ best' = Infinite /\ chosen' = NoInst
  /\ UNCHANGED <<policy, attached, pool, load, cursor, submitted, given>>

\* What DAG_AWARE adds to every load for an item: the same for all instances.
Offset(x) == IF policy = "DAG_AWARE" /\ x.prio = 0 THEN 1 ELSE 0

\* The least load so far is not kept.
ScanReadsForgets(t) ==
  /\ mu = t /\ at < pool
  /\ IF load[at] + Offset(hand[1]) < best THEN chosen' = at ELSE UNCHANGED chosen
  /\ at' = at + 1
  /\ UNCHANGED <<policy, attached, pool, load, mu, q, cursor, submitted, hand, best, given>>

ScanReads(t) ==
  /\ mu = t /\ at < pool
  /\ LET l == load[at] + Offset(hand[1])
     IN  IF l < best THEN best' = l /\ chosen' = at ELSE UNCHANGED <<best, chosen>>
  /\ at' = at + 1
  /\ UNCHANGED <<policy, attached, pool, load, mu, q, cursor, submitted, hand, given>>

\* The item is moved out, but still there for the next.
ScanEndsUncleared(t) ==
  /\ mu = t /\ at = pool
  /\ Gives(hand[1], chosen, IF chosen = NoInst THEN 0 ELSE best - Offset(hand[1]))
  /\ mu' = Nobody /\ hand' = hand
  /\ at' = 0 /\ best' = Infinite /\ chosen' = NoInst
  /\ UNCHANGED <<policy, attached, pool, load, q, cursor, submitted>>

\* An early return that does not unlock, for a pool without instances.
ScanEndsLocked(t) ==
  /\ mu = t /\ at = pool /\ chosen # NoInst
  /\ Gives(hand[1], chosen, best - Offset(hand[1]))
  /\ mu' = Nobody /\ hand' = <<>>
  /\ at' = 0 /\ best' = Infinite /\ chosen' = NoInst
  /\ UNCHANGED <<policy, attached, pool, load, q, cursor, submitted>>

ScanEnds(t) ==
  /\ mu = t /\ at = pool
  /\ Gives(hand[1], chosen, IF chosen = NoInst THEN 0 ELSE best - Offset(hand[1]))
  /\ mu' = Nobody /\ hand' = <<>>
  /\ at' = 0 /\ best' = Infinite /\ chosen' = NoInst
  /\ UNCHANGED <<policy, attached, pool, load, q, cursor, submitted>>

-----------------------------------------------------------------------------

\* Steps of the threads that ask for items.
AssignStep ==
  \/ AssignNamed \/ AssignRoundRobin \/ RoundRobinLoses
  \/ \E t \in Thread : ScanBegins(t) \/ ScanReads(t) \/ ScanEnds(t)

Next ==
  \/ SetPool \/ PoolGrows
  \/ \E i \in Inst : Evaluates(i)
  \/ \E want \in NoInst..MaxPool, prio \in {0, 1} : Submit(want, prio)
  \/ AssignStep

Spec == Init /\ [][Next]_vars

\* Some thread keeps asking for items, and a thread that holds mu_ goes on.
FairSpec == Spec /\ WF_vars(SetPool) /\ WF_vars(AssignStep)

-----------------------------------------------------------------------------
(* Properties *)

\* The scheduler is the queue of WorkQueue: whoever calls and however the
\* loads change, items come out in the order in which they went in, each
\* once, and with an instance that the pool has.
Queue == INSTANCE WorkQueue WITH
  pending   <- hand \o q,
  delivered <- [k \in DOMAIN given |-> <<given[k].item, given[k].inst>>]

ImplementsQueue == Queue!Spec

\* LEAST_LOAD and DAG_AWARE: the loads change behind the back of the scan,
\* but the instance that gets an item had, when it was looked at, no more
\* evaluations than any other has now.
LeastWhenRead ==
  \A k \in DOMAIN given :
    LET a == given[k]
    IN  a.item.want = NoInst /\ a.inst # NoInst =>
          \A j \in 0 .. a.of - 1 : a.seen <= load[j]

\* The items that ROUND_ROBIN gave to i since the pool has its size.
Turn(i) == {k \in DOMAIN given : given[k].item.want = NoInst /\ given[k].of = pool
                                 /\ given[k].inst = i}

\* ROUND_ROBIN: from any time on at which the pool grew, wherever the cursor
\* was then and whatever items with names came in between, no instance gets
\* two items more than another.
RoundRobinEven ==
  policy = "ROUND_ROBIN" =>
    \A i, j \in Ids : Cardinality(Turn(i)) <= Cardinality(Turn(j)) + 1

\* Every item that waits is taken out of the queue at some time: no thread
\* keeps mu_ for ever, and an item that cannot be placed holds up no other.
Drains == \A n \in 1..MaxItems :
            (\E k \in DOMAIN q : q[k].no = n) ~> (\A k \in DOMAIN q : q[k].no # n)
=============================================================================
