------------------------------- MODULE MCFleet -------------------------------
(* Instances of Fleet for TLC.  All properties are invariants, so that the   *)
(* instances may be permuted, and the pids.                                  *)
EXTENDS Fleet, TLC

Symmetry == Permutations(Inst) \cup Permutations(Pid)
=============================================================================
