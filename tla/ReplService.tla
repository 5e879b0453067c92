---------------------------- MODULE ReplService ----------------------------
(***************************************************************************)
(* What PantographClient::call promises to the threads that use it: the    *)
(* REPL is a shared object on which calls take effect one at a time.  A    *)
(* call that is answered was executed exactly once, between its invocation *)
(* and its return, and the answer it gets is the one to its own command.   *)
(* A call may fail only when the REPL is down.                             *)
(*                                                                         *)
(* PantographBridge implements this specification (property Service there) *)
(* as long as no read times out and the REPL prints nothing before         *)
(* "ready.".                                                               *)
(***************************************************************************)
EXTENDS Naturals

CONSTANT Caller      \* the threads that issue calls

VARIABLES
  up,       \* whether the REPL process runs
  status,   \* per caller: no call, a call invoked, a call executed
  ran,      \* number of commands the REPL has executed
  answers   \* {<<command, answer>>}: the n-th command executed got answer n

svars == <<up, status, ran, answers>>

ServiceTypeOK ==
  /\ up \in BOOLEAN
  /\ status \in [Caller -> {"idle", "called", "executed"}]
  /\ ran \in Nat
  /\ answers \subseteq (1..ran) \X (1..ran)

Init ==
  /\ up = FALSE
  /\ status = [c \in Caller |-> "idle"]
  /\ ran = 0
  /\ answers = {}

Open == /\ ~up
        /\ up' = TRUE
        /\ UNCHANGED <<status, ran, answers>>

Close == /\ up
         /\ up' = FALSE
         /\ UNCHANGED <<status, ran, answers>>

Invoke(c) == /\ status[c] = "idle"
             /\ status' = [status EXCEPT ![c] = "called"]
             /\ UNCHANGED <<up, ran, answers>>

\* The command of c takes effect: no other executed call is outstanding.
Execute(c) == /\ up
              /\ status[c] = "called"
              /\ \A d \in Caller : status[d] # "executed"
              /\ status' = [status EXCEPT ![c] = "executed"]
              /\ ran' = ran + 1
              /\ UNCHANGED <<up, answers>>

\* c returns with an answer; a line that is not JSON is an answer too, but
\* not one that is recorded.
Answer(c) == /\ status[c] = "executed"
             /\ status' = [status EXCEPT ![c] = "idle"]
             /\ answers' = answers \cup {<<ran, ran>>}
             /\ UNCHANGED <<up, ran>>

Fail(c) == /\ ~up
           /\ status[c] # "idle"
           /\ status' = [status EXCEPT ![c] = "idle"]
           /\ UNCHANGED <<up, ran, answers>>

Next == \/ Open
        \/ Close
        \/ \E c \in Caller : Invoke(c) \/ Execute(c) \/ Answer(c) \/ Fail(c)

Spec == Init /\ [][Next]_svars
=============================================================================
