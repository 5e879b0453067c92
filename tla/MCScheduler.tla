----------------------------- MODULE MCScheduler -----------------------------
(* Instances of Scheduler for TLC.  The threads are interchangeable; liveness *)
(* is among the properties, so no symmetry is declared.                       *)
EXTENDS Scheduler
=============================================================================
