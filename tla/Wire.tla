-------------------------------- MODULE Wire --------------------------------
(***************************************************************************)
(* What goes over the pipes in one PantographClient::call: the command is  *)
(* serialized into one line and written, the first line of what comes back *)
(* is parsed, and its JSON decides the result (src/pantograph_bridge.cpp). *)
(* Writes and reads may be partial.  Who calls when, and what happens when *)
(* a REPL dies or is late, is the subject of PantographBridge.             *)
(*                                                                         *)
(* The REPL reads lines and answers each with one line.  It may write its  *)
(* JSON with any escapes, and a program that it runs may print in front of *)
(* the answer or behind it.                                                *)
(***************************************************************************)
EXTENDS JsonMin

CONSTANTS
  CodePoint,   \* the characters of the names and sources that are sent
  MaxLength,   \* bound on their length
  MaxCalls     \* bound on the number of calls

ASSUME WireAssumption ==
  /\ CodePoint \subseteq 0..1114111
  /\ MaxLength \in Nat /\ MaxCalls \in Nat

Argument == SeqOf(CodePoint, MaxLength)

\* The bytes of a code point in UTF-8.
Utf8(c) ==
  CASE c < 128           -> <<c>>
    [] c \in 128..2047   -> <<192 + (c \div 64), 128 + (c % 64)>>
    [] c \in 2048..65535 -> <<224 + (c \div 4096), 128 + ((c \div 64) % 64), 128 + (c % 64)>>
    [] c > 65535         -> <<240 + (c \div 262144), 128 + ((c \div 4096) % 64),
                              128 + ((c \div 64) % 64), 128 + (c % 64)>>

Bytes(s) == FlattenSeq([i \in DOMAIN s |-> Utf8(s[i])])

VARIABLES
  stage,   \* where the caller is
  seq,     \* seqnum_
  command, \* the command of the call
  asked,   \* its argument
  unsent,  \* what is left of the line
  inpipe,  \* what the REPL has not read
  heard,   \* the command as the REPL has parsed it
  meant,   \* what the REPL has answered
  outpipe, \* what the caller has not read
  buf,     \* what it has read
  result   \* what call() returns

vars == <<stage, seq, command, asked, unsent, inpipe, heard, meant, outpipe, buf, result>>

Str(s) == <<"str", s>>
Key(k) == <<Word(k)>>
Obj(k, v) == <<"obj", Key(k) :> v>>
With(o, k, v) == <<"obj", o[2] @@ (Key(k) :> v)>>

\* The words that serve as names.
Cmd == 1
Payload == 2
Seqnum == 3
Expr == 4
Error == 5
Desc == 6
Name == 7
Levels == 8
Value == 9
IsTheorem == 10
EnvAdd == 11
ExprEcho == 12
Junk == 13

\* The payloads of expr_echo and of env_add, which has no levels if there
\* are none.  They repeat the name here, so that arrays of strings are sent.
PayloadOf(c, s) ==
  IF c = ExprEcho THEN Obj(Expr, Str(Bytes(s)))
  ELSE LET o == With(With(Obj(Name, Str(Bytes(s))), Value, Str(<<Word(Junk)>>)),
                     IsTheorem, <<"bool", TRUE>>)
       IN  IF s = <<>> THEN o ELSE With(o, Levels, <<"arr", <<Str(Bytes(s)), Str(<<Word(Junk)>>)>>>>)

Envelope(c, s, n) ==
  With(With(Obj(Cmd, Str(<<Word(c)>>)), Payload, PayloadOf(c, s)), Seqnum, <<"num", n>>)

NoResult == [ok |-> FALSE, response |-> <<"null">>, message |-> <<>>]
Nothing  == [kind |-> "none", value |-> <<"null">>]

\* The types of the variables, and the stages at which the pipes are empty.
TypeOK ==
  /\ stage \in {"idle", "writing", "reading", "thrown"}
  /\ seq \in 0..MaxCalls
  /\ command \in {EnvAdd, ExprEcho} /\ asked \in Argument
  /\ meant.kind \in {"none", "value", "error", "odd", "noise"}
  /\ stage = "idle" => unsent = <<>> /\ inpipe = <<>> /\ outpipe = <<>> /\ buf = <<>>
  /\ stage = "reading" => unsent = <<>>
  /\ Len(buf) > 0 => stage = "reading" /\ meant # Nothing
  /\ result.ok \in BOOLEAN

Init ==
  /\ stage = "idle" /\ seq = 0 /\ command = ExprEcho /\ asked = <<>>
  /\ unsent = <<>> /\ inpipe = <<>> /\ heard = Fail /\ meant = Nothing
  /\ outpipe = <<>> /\ buf = <<>> /\ result = NoResult

-----------------------------------------------------------------------------
(* call() *)

Begins(c, s) ==
  /\ stage = "idle" /\ seq < MaxCalls
  /\ stage' = "writing" /\ seq' = seq + 1 /\ command' = c /\ asked' = s
  /\ unsent' = Serialize(Envelope(c, s, seq)) \o <<Newline>>
  /\ heard' = Fail /\ meant' = Nothing /\ result' = NoResult
  /\ UNCHANGED <<inpipe, outpipe, buf>>

\* write() takes some of it, and the loop goes on with the rest.
Writes(n) ==
  /\ stage = "writing" /\ n \in 1..Len(unsent)
  /\ inpipe' = inpipe \o SubSeq(unsent, 1, n)
  /\ unsent' = SubSeq(unsent, n + 1, Len(unsent))
  /\ stage' = IF unsent' = <<>> THEN "reading" ELSE "writing"
  /\ UNCHANGED <<seq, command, asked, heard, meant, outpipe, buf, result>>

HasLine(t) == \E i \in DOMAIN t : t[i] = Newline

\* The first line of t.
Line(t) == SubSeq(t, 1, Min({i \in DOMAIN t : t[i] = Newline}) - 1)

IsStr(v) == v[1] = "str"
Has(v, k) == v[1] = "obj" /\ Key(k) \in DOMAIN v[2]
Member(v, k) == v[2][Key(k)]

\* as_string of a desc that is no string.
Throws(v) == /\ Has(v, Error) /\ IsStr(Member(v, Error))
             /\ Has(v, Desc) /\ ~IsStr(Member(v, Desc))

Message(v) ==
  IF ~IsStr(Member(v, Error)) THEN <<>>
  ELSE Member(v, Error)[2] \o <<Colon, Blank>>
         \o (IF Has(v, Desc) THEN Member(v, Desc)[2] ELSE <<>>)

\* The result for a line that has been parsed.
Classify(r) ==
  CASE Failed(r) -> NoResult
    [] ~Failed(r) /\ Has(r.val, Error) ->
         [ok |-> FALSE, response |-> r.val, message |-> Message(r.val)]
    [] OTHER -> [ok |-> TRUE, response |-> r.val, message |-> <<>>]

\* A read without a newline so far: the loop goes on.
ReadsPart(n) ==
  /\ stage = "reading" /\ n \in 1..Len(outpipe)
  /\ ~HasLine(buf \o SubSeq(outpipe, 1, n))
  /\ buf' = buf \o SubSeq(outpipe, 1, n)
  /\ outpipe' = SubSeq(outpipe, n + 1, Len(outpipe))
  /\ UNCHANGED <<stage, seq, command, asked, unsent, inpipe, heard, meant, result>>

\* The buffer outlives the call.
ReturnsKeepingBuf(n) ==
  /\ stage = "reading" /\ n \in 1..Len(outpipe)
  /\ HasLine(buf \o SubSeq(outpipe, 1, n))
  /\ LET r == Parse(Line(buf \o SubSeq(outpipe, 1, n)))
     IN  IF ~Failed(r) /\ Throws(r.val)
         THEN stage' = "thrown" /\ UNCHANGED result
         ELSE stage' = "idle" /\ result' = Classify(r)
  /\ outpipe' = SubSeq(outpipe, n + 1, Len(outpipe)) /\ buf' = buf
  /\ UNCHANGED <<seq, command, asked, unsent, inpipe, heard, meant>>

\* The line is complete.  What the read has brought beyond it is dropped.
\* A desc that is no string is an exception that nobody catches.
Returns(n) ==
  /\ stage = "reading" /\ n \in 1..Len(outpipe)
  /\ HasLine(buf \o SubSeq(outpipe, 1, n))
  /\ LET r == Parse(Line(buf \o SubSeq(outpipe, 1, n)))
     IN  IF ~Failed(r) /\ Throws(r.val)
         THEN stage' = "thrown" /\ UNCHANGED result
         ELSE stage' = "idle" /\ result' = Classify(r)
  /\ outpipe' = SubSeq(outpipe, n + 1, Len(outpipe)) /\ buf' = <<>>
  /\ UNCHANGED <<seq, command, asked, unsent, inpipe, heard, meant>>

-----------------------------------------------------------------------------
(* The REPL *)

\* The text of a string with every escape that there is.  Beyond the 16 bits
\* of an escape it has two.
EscapeAll(c) ==
  IF c < 65536 THEN <<Backslash, LetterU, Digits4(c)>>
  ELSE LET d == c - 65536
       IN  <<Backslash, LetterU, Digits4(55296 + (d \div 1024)),
             Backslash, LetterU, Digits4(56320 + (d % 1024))>>

StringTexts(s) ==
  {EmitString(Bytes(s)),
   <<Quote>> \o FlattenSeq([i \in DOMAIN s |-> EscapeAll(s[i])]) \o <<Quote>>}

KeyText(k) == EmitString(Key(k)) \o <<Colon, Blank>>

Braces(t) == <<OpenBrace>> \o t \o <<CloseBrace>>

Reply(kind, value, text) == [kind |-> kind, value |-> value, text |-> text]

\* The answers to s.
Replies(s) ==
  UNION {
    {Reply("value", Obj(Expr, Str(Bytes(s))), Braces(KeyText(Expr) \o t)),
     Reply("error", With(Obj(Error, Str(<<Word(Junk)>>)), Desc, Str(Bytes(s))),
           Braces(KeyText(Error) \o EmitString(<<Word(Junk)>>) \o <<Comma, Blank>>
                  \o KeyText(Desc) \o t)),
     Reply("error", Obj(Error, Str(Bytes(s))), Braces(KeyText(Error) \o t)),
     Reply("error", Obj(Error, <<"arr", <<Str(Bytes(s))>>>>),
           Braces(KeyText(Error) \o <<OpenBracket>> \o t \o <<CloseBracket>>)),
     Reply("odd", With(Obj(Error, Str(Bytes(s))), Desc, <<"null">>),
           Braces(KeyText(Error) \o t \o <<Comma>> \o KeyText(Desc) \o <<NullWord>>)),
     Reply("noise", <<"null">>, <<Word(Junk)>> \o Braces(KeyText(Expr) \o t)),
     Reply("noise", <<"null">>, Braces(KeyText(Expr) \o t) \o <<Word(Junk)>>)}
    : t \in StringTexts(s)}

\* The REPL reads a line and answers.
ReplAnswers ==
  /\ HasLine(inpipe)
  /\ LET line == Line(inpipe)
     IN  /\ heard' = Parse(line)
         /\ inpipe' = SubSeq(inpipe, Len(line) + 2, Len(inpipe))
  /\ \E r \in Replies(asked) :
       /\ meant' = [kind |-> r.kind, value |-> r.value]
       /\ outpipe' = outpipe \o r.text \o <<Newline>>
  /\ UNCHANGED <<stage, seq, command, asked, unsent, buf, result>>

-----------------------------------------------------------------------------

Next ==
  \/ \E c \in {EnvAdd, ExprEcho}, s \in Argument : Begins(c, s)
  \/ \E n \in 1..Len(unsent) : Writes(n)
  \/ \E n \in 1..Len(outpipe) : ReadsPart(n) \/ Returns(n)
  \/ ReplAnswers

Spec == Init /\ [][Next]_vars

-----------------------------------------------------------------------------
(* Properties *)

\* Every command reaches the REPL as one line, and what the REPL finds in it
\* is the command that was meant, whatever characters it carries.
Understood == meant # Nothing =>
  /\ heard.val = Envelope(command, asked, seq - 1) /\ ~Failed(heard)
  /\ inpipe = <<>>

\* Code points that an escape of 16 bits holds.
Narrow(s) == \A i \in DOMAIN s : s[i] < 65536

\* A call succeeds just if the REPL meant a value, and then the response is
\* that value; it never takes a line with other output in it for an answer.
\* Only characters beyond 16 bits may come out differently (the two escapes
\* of such a one are decoded one by one).
Answered ==
  /\ stage = "idle" /\ seq > 0 =>
       /\ result.ok <=> meant.kind = "value"
       /\ Narrow(asked) => result.response = meant.value
       /\ meant.kind = "noise" => result = NoResult
  /\ stage = "thrown" => meant.kind = "odd"
=============================================================================
