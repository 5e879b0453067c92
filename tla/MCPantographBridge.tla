------------------------ MODULE MCPantographBridge ------------------------
(* Instances of PantographBridge for TLC.                                  *)
EXTENDS PantographBridge, TLC

\* The callers are interchangeable.
CallerSymmetry == Permutations(Caller)
=============================================================================
