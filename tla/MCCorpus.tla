------------------------------ MODULE MCCorpus ------------------------------
(* Instances of Corpus for TLC: two files in the root, one below it, one in  *)
(* a directory that is skipped and one that is not Lean.                     *)
EXTENDS Corpus

MCFile    == 1..5
MCDir     == {10, 11, 12}
MCEntries == 10 :> {2, 5, 11, 12} @@ 11 :> {1, 3} @@ 12 :> {4}

MCPart == {"leanffi_run_source_", "leanffi_trivial_", "1", "_kernel", "foo", "bar", "baz", "'"}

\* foo, foo', a second theorem whose name foo's fallback takes, one whose
\* proof is not simple, one without a type.
MCDeclOf ==
  0 :> [name |-> <<"foo">>, typed |-> TRUE, simple |-> TRUE] @@
  1 :> [name |-> <<"foo", "'">>, typed |-> TRUE, simple |-> TRUE] @@
  2 :> [name |-> <<"foo", "_kernel">>, typed |-> TRUE, simple |-> TRUE] @@
  3 :> [name |-> <<"bar">>, typed |-> TRUE, simple |-> FALSE] @@
  128 :> [name |-> <<"baz">>, typed |-> FALSE, simple |-> TRUE]

\* The name that a fallback of the second theorem would take.
MCImported == {<<"foo", "_kernel", "_kernel">>}

MCContent == {<<>>, <<0, 1>>, <<2, 0>>, <<3, 128, 128, 0>>}

\* The three files that are scanned have any content, or have gone.
MCDisks == {[n \in MCFile |-> IF n \in 1..3 THEN d[n] ELSE <<0, 1>>] :
              d \in [1..3 -> MCContent \cup {Gone}]}
=============================================================================
