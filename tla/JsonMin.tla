------------------------------- MODULE JsonMin -------------------------------
(***************************************************************************)
(* serialize and parse (src/json_min.cpp).                                 *)
(*                                                                         *)
(* A text is a sequence of numbers: bytes, and numbers above them for what *)
(* the code takes or leaves as a whole, which are numbers, the literals,   *)
(* the four digits of an escape, and the words that serve as keys.  The    *)
(* digits of a number, and the indentation of pretty texts, are left out.  *)
(*                                                                         *)
(* A JsonValue is a pair of its kind and its content: <<"null">>,          *)
(* <<"bool", b>>, <<"num", n>>, <<"str", bytes>>, <<"arr", sequence>>,     *)
(* <<"obj", function from byte sequences to values>>.                      *)
(***************************************************************************)
EXTENDS Integers, SequencesExt, FiniteSetsExt

Newline      == 10
Blank        == 32
Quote        == 34
Comma        == 44
Colon        == 58
OpenBracket  == 91
Backslash    == 92
CloseBracket == 93
LetterU      == 117
OpenBrace    == 123
CloseBrace   == 125

TrueWord   == 256
FalseWord  == 257
NullWord   == 258
Word(k)    == 300 + k        \* the k-th key, or another word
Digits4(u) == 65536 + u      \* four hexadecimal digits
Numeral(n) == 131072 + n

Space == {Blank, 9, Newline, 13}

-----------------------------------------------------------------------------
(* serialize *)

\* The characters with an escape of their own, and its letter.
ShortEscape == (Quote :> Quote) @@ (Backslash :> Backslash) @@ (Newline :> 110)
               @@ (13 :> 114) @@ (9 :> 116) @@ (8 :> 98) @@ (12 :> 102)

\* Control characters are text like any other.
EscapeQuotes(c) == IF c \in {Quote, Backslash} THEN <<Backslash, c>> ELSE <<c>>

Escape(c) == IF c \in DOMAIN ShortEscape THEN <<Backslash, ShortEscape[c]>>
             ELSE IF c < 32 THEN <<Backslash, LetterU, Digits4(c)>>
             ELSE <<c>>

EmitString(s) == <<Quote>> \o FlattenSeq([i \in DOMAIN s |-> Escape(s[i])]) \o <<Quote>>

\* The texts ss with commas between them.
Listed(ss) == FlattenSeq([i \in DOMAIN ss |-> IF i = 1 THEN ss[i] ELSE <<Comma>> \o ss[i]])

RECURSIVE Serialize(_)
Serialize(v) ==
  CASE v[1] = "null" -> <<NullWord>>
    [] v[1] = "bool" -> <<IF v[2] THEN TrueWord ELSE FalseWord>>
    [] v[1] = "num"  -> <<Numeral(v[2])>>
    [] v[1] = "str"  -> EmitString(v[2])
    [] v[1] = "arr"  ->
         <<OpenBracket>> \o Listed([i \in DOMAIN v[2] |-> Serialize(v[2][i])]) \o <<CloseBracket>>
    [] v[1] = "obj"  ->
         LET keys == SetToSeq(DOMAIN v[2])
             Member(k) == EmitString(k) \o <<Colon>> \o Serialize(v[2][k])
         IN  <<OpenBrace>> \o Listed([i \in DOMAIN keys |-> Member(keys[i])]) \o <<CloseBrace>>

-----------------------------------------------------------------------------
(* parse.  The parser of something at position p of t returns the value and *)
(* the position behind it.                                                  *)

Fail  == [next |-> 0, val |-> <<"null">>]
Failed(r) == r.next = 0

\* The character at p, if there is one.
At(t, p) == IF p \in DOMAIN t THEN t[p] ELSE -1

Expects(t, p, c) == At(t, p) = c

\* skip_ws
Skip(t, p) == Min({i \in p .. Len(t) + 1 : At(t, i) \notin Space})

Unescape == [e \in Range(ShortEscape) \cup {47} |->
               IF e = 47 THEN 47 ELSE CHOOSE c \in DOMAIN ShortEscape : ShortEscape[c] = e]

\* The bytes for the 16 bits of an escape.
CodeUnit(u) ==
  CASE u < 128  -> <<u>>
    [] u \in 128..2047 -> <<192 + (u \div 64), 128 + (u % 64)>>
    [] u > 2047 -> <<224 + (u \div 4096), 128 + ((u \div 64) % 64), 128 + (u % 64)>>

\* The rest of a string of which s has been read.
RECURSIVE ParseChars(_, _, _)
ParseChars(t, p, s) ==
  LET e == At(t, p + 1)
  IN  CASE p > Len(t)    -> Fail
        [] Expects(t, p, Quote) -> [next |-> p + 1, val |-> <<"str", s>>]
        [] p <= Len(t) /\ t[p] \notin {Quote, Backslash} -> ParseChars(t, p + 1, Append(s, t[p]))
        [] Expects(t, p, Backslash) /\ e \in DOMAIN Unescape ->
             ParseChars(t, p + 2, Append(s, Unescape[e]))
        [] Expects(t, p, Backslash) /\ e = LetterU ->
             IF At(t, p + 2) \in Digits4(0) .. Digits4(65535)
             THEN ParseChars(t, p + 3, s \o CodeUnit(t[p + 2] - Digits4(0)))
             ELSE Fail
        [] OTHER -> Fail

ParseString(t, p) ==
  IF Expects(t, Skip(t, p), Quote) THEN ParseChars(t, Skip(t, p) + 1, <<>>) ELSE Fail

RECURSIVE ParseValue(_, _), ParseElements(_, _, _), ParseMembers(_, _, _)

\* The rest of an array of which a has been read.
ParseElements(t, p, a) ==
  LET v == ParseValue(t, p)
      q == Skip(t, v.next)
  IN  CASE Failed(v) -> Fail
        [] ~Failed(v) /\ Expects(t, q, Comma) -> ParseElements(t, q + 1, Append(a, v.val))
        [] ~Failed(v) /\ Expects(t, q, CloseBracket) ->
             [next |-> q + 1, val |-> <<"arr", Append(a, v.val)>>]
        [] OTHER -> Fail

\* The rest of an object of which o has been read.  Of two members with one
\* key the first counts.
ParseMembers(t, p, o) ==
  LET k == ParseString(t, p)
      c == Skip(t, k.next)
      v == IF ~Failed(k) /\ Expects(t, c, Colon) THEN ParseValue(t, c + 1) ELSE Fail
      q == Skip(t, v.next)
  IN  CASE Failed(v) -> Fail
        [] ~Failed(v) /\ Expects(t, q, Comma) ->
             ParseMembers(t, q + 1, o @@ (k.val[2] :> v.val))
        [] ~Failed(v) /\ Expects(t, q, CloseBrace) ->
             [next |-> q + 1, val |-> <<"obj", o @@ (k.val[2] :> v.val)>>]
        [] OTHER -> Fail

Single(v, p) == [next |-> p + 1, val |-> v]

ParseValue(t, start) ==
  LET p == Skip(t, start)
      c == At(t, p)
      q == Skip(t, p + 1)
  IN  CASE c = Quote        -> ParseString(t, p)
        [] c = OpenBrace    -> IF Expects(t, q, CloseBrace) THEN Single(<<"obj", <<>>>>, q)
                               ELSE ParseMembers(t, q, <<>>)
        [] c = OpenBracket  -> IF Expects(t, q, CloseBracket) THEN Single(<<"arr", <<>>>>, q)
                               ELSE ParseElements(t, q, <<>>)
        [] c = TrueWord     -> Single(<<"bool", TRUE>>, p)
        [] c = FalseWord    -> Single(<<"bool", FALSE>>, p)
        [] c = NullWord     -> Single(<<"null">>, p)
        [] c >= Numeral(0)  -> Single(<<"num", c - Numeral(0)>>, p)
        [] OTHER            -> Fail

\* Whatever follows the value.
ParsePrefix(t) == ParseValue(t, 1)

\* The whole text is one value; Fail otherwise.
Parse(t) == LET r == ParseValue(t, 1)
            IN  IF ~Failed(r) /\ Skip(t, r.next) = Len(t) + 1 THEN r ELSE Fail
=============================================================================
