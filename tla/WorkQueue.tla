------------------------------ MODULE WorkQueue ------------------------------
(***************************************************************************)
(* What a scheduler of work items promises (src/scheduler.h): a queue.     *)
(* Items are delivered in the order of their submission, each once, each   *)
(* with an instance of the pool; an item that names an instance goes to    *)
(* that one.  Only an empty pool excuses an item that is delivered with no *)
(* instance, or dropped.                                                   *)
(***************************************************************************)
EXTENDS Integers, Sequences

CONSTANTS
  MaxItems,   \* bound on the number of items submitted
  MaxPool     \* bound on the number of instances

NoInst == -1   \* instance_id of an item without an instance

\* A work item: its number in the order of submission, the instance it names
\* (MaxPool stands for one that does not exist), its priority.
Item == [no : 1..MaxItems, want : NoInst..MaxPool, prio : {0, 1}]

VARIABLES
  pending,    \* the items submitted and not yet delivered
  delivered,  \* the items delivered, each with its instance
  pool        \* number of instances

vars == <<pending, delivered, pool>>

Ids == 0 .. pool - 1

\* The instances that x may be delivered with.
Choices(x) ==
  CASE x.want \in Ids                  -> {x.want}
    [] x.want \notin Ids \cup {NoInst} -> {NoInst}
    [] x.want = NoInst                 -> IF pool = 0 THEN {NoInst} ELSE Ids

Init == pending = <<>> /\ delivered = <<>> /\ pool = 0

Submit == /\ \E x \in Item : pending' = Append(pending, x)
          /\ UNCHANGED <<delivered, pool>>

Deliver == /\ pending # <<>>
           /\ pending' = Tail(pending)
           /\ \E i \in Choices(Head(pending)) :
                delivered' = Append(delivered, <<Head(pending), i>>)
           /\ UNCHANGED pool

Drop == /\ pending # <<>> /\ pool = 0 /\ Head(pending).want = NoInst
        /\ pending' = Tail(pending)
        /\ UNCHANGED <<delivered, pool>>

Grow == pool' = pool + 1 /\ UNCHANGED <<pending, delivered>>

Next == Submit \/ Deliver \/ Drop \/ Grow

Spec == Init /\ [][Next]_vars
=============================================================================
