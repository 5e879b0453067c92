------------------------------- MODULE MCWire -------------------------------
(* Instances of Wire for TLC.                                              *)
EXTENDS Wire

\* n, quote, backslash, newline, a control character, and characters of two,
\* three and four bytes.
MCCodePoint == {110, 34, 92, 10, 1, 233, 8866, 120120}
=============================================================================
