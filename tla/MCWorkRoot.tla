----------------------------- MODULE MCWorkRoot -----------------------------
(* Instances of WorkRoot for TLC.                                          *)
EXTENDS WorkRoot, TLC

\* Sessions are interchangeable.
SessionSymmetry == Permutations(Session)
=============================================================================
