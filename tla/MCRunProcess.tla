---------------------------- MODULE MCRunProcess ----------------------------
(* Instances of RunProcess for TLC.                                        *)
EXTENDS RunProcess
=============================================================================
