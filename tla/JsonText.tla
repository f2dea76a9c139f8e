-------------------------------- MODULE JsonText --------------------------------
(***************************************************************************)
(* The JSON functions of dbgx::json over texts: the fields of an object,   *)
(* the getters of a field, and Trim.  JsonStrings has those of strings.    *)
(*                                                                         *)
(* A text is a sequence of bytes.  A name or literal that the program only *)
(* compares as a whole is one symbol above 255, so that a message stays a  *)
(* short sequence; it is never written with escapes inside.                *)
(***************************************************************************)
EXTENDS JsonStrings

CONSTANTS
  IntMax,   \* 2147483647: the largest int
  Absent    \* what a function that returned false has left

ASSUME IntAssumption == IntMax \in Nat
ASSUME AbsentAssumption == Absent \notin Seq(Nat) /\ Absent \notin Int

Words == <<"jsonrpc", "2.0", "id", "method", "params", "name", "arguments", "command",
  "max_lines", "pattern", "windbg.eval", "tools/call", "tools/list", "initialize",
  "notifications/initialized", "initialized", "other", "result", "error", "code", "message", "content",
  "type", "text", "isError", "tools", "true", "false", "null", "POST", "GET", "/mcp",
  "authorization", "proxy-authorization", "x-api-key", "none", "...(truncated)", "(missing)", "(empty)", "(no output)", "rpc:",
  "local-", "in_progress", "success", "unknown", "unparseable", "request_received",
  "route_dispatch", "tool_execute_start", "tool_execute_end", "response_sent", "-32000",
  "-32600", "-32601", "-32602", "-32603", "-32700", "Command execution failed">>

Word(w) == 255 + CHOOSE i \in 1..Len(Words) : Words[i] = w
\* The text of one word.
W == [w \in {Words[i] : i \in 1..Len(Words)} |-> <<Word(w)>>]

Comma == 44
Minus == 45
Plus == 43
Colon == 58
LBracket == 91
RBracket == 93
LBrace == 123
RBrace == 125

Whitespace == {9, 10, 11, 12, 13, 32}

ScalarStops == {Comma, RBrace, RBracket, End} \cup Whitespace

\* SkipWhitespace: the next place with another symbol.  Places are those of the
\* next symbol to read; 0 stands for a function that returned false, and stays 0.
Skip(t, p) ==
  CHOOSE q \in p..(p + Len(t)) :
    At(t, q) \notin Whitespace /\ \A r \in p..(q - 1) : At(t, r) \in Whitespace

\* The last place that Trim keeps, 0 if there is none.
LastKept(t) ==
  CHOOSE q \in 0..Len(t) :
    At(t, q) \notin Whitespace /\ \A r \in (q + 1)..Len(t) : t[r] \in Whitespace
Trim(t) == SubSeq(t, Skip(t, 1), LastKept(t))

-----------------------------------------------------------------------------
(* Values.  SkipJsonValue, SkipJsonObject and SkipJsonArray call one another *)
(* for later places only: read[p][kind] is the place after what is at p.     *)

Kinds == {"value", "members", "elements"}

\* The end of a scalar: what stands before the next separator, whatever it is.
Scalar(t, p) ==
  CHOOSE q \in p..(p + Len(t)) :
    At(t, q) \in ScalarStops /\ \A r \in p..(q - 1) : At(t, r) \notin ScalarStops

\* What an open brace or bracket begins, up to the symbol that closes it.
Opened(t, p, kind, close, read) ==
  LET first == Skip(t, p + 1)
  IN IF At(t, first) = close THEN first + 1 ELSE read[first][kind]

\* What follows a member or an element.
More(t, end, kind, close, read) ==
  LET next == Skip(t, end) IN
  CASE At(t, next) = Comma -> read[Skip(t, next + 1)][kind]
    [] At(t, next) = close -> next + 1
    [] OTHER -> 0

ValueFrom(t, start, read) ==
  LET c == At(t, start) IN
  CASE c = LBrace -> Opened(t, start, "members", RBrace, read)
    [] c = LBracket -> Opened(t, start, "elements", RBracket, read)
    [] c = Quote -> ParseJsonString(t, start).pos
    [] OTHER -> LET end == Scalar(t, start) IN IF end = start THEN 0 ELSE end
ValueAt(t, p, read) == ValueFrom(t, Skip(t, p), read)

\* The member at p: its name, and where its value starts and ends.
MemberNamed(t, name, read) ==
  LET colon == Skip(t, name.pos) start == Skip(t, colon + 1) IN
  [name |-> name.out, start |-> start,
   end |-> IF At(t, colon) = Colon THEN read[start]["value"] ELSE 0]
MemberAt(t, p, read) == MemberNamed(t, ParseJsonString(t, p), read)

\* What ends at the place after it, given the same of every later place.
EndOf(t, p, kind, read) ==
  CASE kind = "value" -> ValueAt(t, p, read)
    [] kind = "members" -> More(t, MemberAt(t, p, read).end, kind, RBrace, read)
    [] kind = "elements" -> More(t, ValueAt(t, p, read), kind, RBracket, read)

Ends(t) ==
  LET read[p \in 1..(Len(t) + 1)] == [kind \in Kinds |-> EndOf(t, p, kind, read)] IN read

SkipJsonValue(t, p) == Ends(t)[p]["value"]

-----------------------------------------------------------------------------
(* The fields of an object: a function from names to raw values *)

NoFields == [name \in {} |-> <<>>]
\* What is left of a text that is not an object: nothing has a name.
NoObject == [name \in {Absent} |-> Absent]

\* insert_or_assign of a member, and then of those that come after it.
InsertOrAssign(name, raw, later) ==
  [n \in {name} \cup DOMAIN later |-> IF n \in DOMAIN later THEN later[n] ELSE raw]

\* Mutant of AtEnd: what follows the object is not looked at.
Anywhere(t, p) == TRUE

AtEnd(t, p) == Skip(t, p) > Len(t)

\* The fields after a member, given those from every later place, and those from it on.
FieldsAfter(t, end, fields) ==
  LET next == Skip(t, end) IN
  CASE At(t, next) = Comma -> fields[Skip(t, next + 1)]
    [] At(t, next) = RBrace /\ AtEnd(t, next + 1) -> NoFields
    [] OTHER -> NoObject
MemberFields(t, member, fields) ==
  LET later == FieldsAfter(t, member.end, fields)
  IN IF later = NoObject THEN NoObject
     ELSE InsertOrAssign(member.name, SubSeq(t, member.start, member.end - 1), later)
FieldsFrom(t) ==
  LET fields[p \in 1..(Len(t) + 1)] == MemberFields(t, MemberAt(t, p, Ends(t)), fields) IN fields

ParseObjectFields(t) ==
  LET brace == Skip(t, 1) first == Skip(t, brace + 1) IN
  IF At(t, brace) # LBrace THEN NoObject
  ELSE IF At(t, first) # RBrace THEN FieldsFrom(t)[first]
  ELSE IF AtEnd(t, first + 1) THEN NoFields ELSE NoObject

Has(fields, name) == name \in DOMAIN fields

TryGetStringField(fields, name) ==
  LET s == IF Has(fields, name) THEN ParseJsonString(fields[name], 1) ELSE NoString
  IN IF s.pos # 0 /\ AtEnd(fields[name], s.pos) THEN s.out ELSE Absent

TryGetObjectField(fields, name) ==
  IF Has(fields, name) THEN ParseObjectFields(fields[name]) ELSE NoObject

TryGetRawField(fields, name) ==
  IF Has(fields, name) THEN Trim(fields[name]) ELSE Absent

\* The value of a sequence of digits, IntMax + 2 for every larger one.
Capped(n) == IF n > IntMax + 2 THEN IntMax + 2 ELSE n
Number(ds) ==
  LET n[i \in 0..Len(ds)] == IF i = 0 THEN 0 ELSE Capped(n[i - 1] * 10 + ds[i] - 48)
  IN n[Len(ds)]

\* std::stoi of the whole trimmed value, which throws outside of int.
TryGetIntField(fields, name) ==
  LET raw == IF Has(fields, name) THEN Trim(fields[name]) ELSE <<>>
      signed == At(raw, 1) \in {Minus, Plus}
      digits == IF signed THEN Tail(raw) ELSE raw
      n == IF At(raw, 1) = Minus THEN -Number(digits) ELSE Number(digits)
  IN IF /\ digits # <<>> /\ \A i \in 1..Len(digits) : digits[i] \in Digits
        /\ n \in (-IntMax - 1)..IntMax
     THEN n ELSE Absent
=============================================================================
