----------------------------- MODULE MCPipeline -----------------------------
(* Instances of Pipeline for TLC.  There is nothing to define: the instances *)
(* are positions in pool_, and no two of them are interchangeable.           *)
EXTENDS Pipeline
=============================================================================
