------------------------------ MODULE MessageText ------------------------------
(***************************************************************************)
(* A client writes the body of a POST; whatever it has written so far is   *)
(* parsed, routed, answered and echoed.  The properties compare the        *)
(* functions of JsonText, JsonRpcText and LogSummaries with the            *)
(* serialisation a client uses, and with McpRequest.                       *)
(***************************************************************************)
EXTENDS LogSummaries

CONSTANTS
  Starts,     \* [text, chunks, length]: how a body begins, what may follow
              \*   it, and how many chunks at most
  Names,      \* names of fields the parser is asked for
  MaxCommand, \* bodies up to this length are also sent as a command
  Outputs,    \* texts commands print, besides the body itself
  NotJson     \* McpRequest's body that is not an object

\* The characters of a text: a byte, as many as a lead byte says, or a word.
CharacterAt(t, p) ==
  LET last == p + Width(t[p]) - 1 IN SubSeq(t, p, IF last > Len(t) THEN Len(t) ELSE last)
CharactersOf(t) ==
  LET from[p \in 1..(Len(t) + 3)] ==
        IF p > Len(t) THEN <<>> ELSE <<CharacterAt(t, p)>> \o from[p + Width(t[p])]
  IN from[1]

IsCharacter(u) ==
  CASE Len(u) = 1 -> u[1] \in 0..127 \/ u[1] > 255
    [] Len(u) = 2 -> u[1] \in 194..223 /\ u[2] \in 128..191
    [] OTHER -> /\ u[1] \in 224..239 /\ u[2] \in 128..191 /\ u[3] \in 128..191
                /\ u[1] = 224 => u[2] >= 160

\* Every character of a text is whole.
IsUtf8(t) ==
  LET us == CharactersOf(t) IN \A i \in 1..Len(us) : IsCharacter(us[i])

\* A client writes whole characters.
ASSUME StartsAssumption ==
  \A s \in Starts : /\ s.text \in Seq(Nat) /\ IsUtf8(s.text) /\ s.length \in Nat
                    /\ \A chunk \in s.chunks : chunk \in Seq(Nat) /\ IsUtf8(chunk)
ASSUME OutputsAssumption == Outputs \subseteq Seq(Nat)

VARIABLES
  body,    \* what the client has written
  chunks,  \* what it may write next
  left     \* how many chunks it may still write

vars == <<body, chunks, left>>

Init ==
  \E s \in Starts : body = s.text /\ chunks = s.chunks /\ left = s.length

Write(chunk) ==
  /\ left > 0
  /\ body' = body \o chunk
  /\ left' = left - 1
  /\ UNCHANGED chunks

Next == \E chunk \in chunks : Write(chunk)

Spec == Init /\ [][Next]_vars

-----------------------------------------------------------------------------
(* What clients write and read *)

\* A client's serialisation of one code point as an escape sequence.
LowHex(n) == IF n < 10 THEN 48 + n ELSE 87 + n
Written(code) ==
  <<Backslash, LetterU, LowHex(code \div 4096), LowHex((code \div 256) % 16),
    LowHex((code \div 16) % 16), LowHex(code % 16)>>

\* A client that escapes what it must, and one that keeps to ASCII.
WrittenAs(u, asciiOnly) ==
  IF u[1] \in MustEscape \/ (asciiOnly /\ u[1] < 256) THEN Written(CodePoint(u)) ELSE u
Escaped(t, asciiOnly) ==
  LET us == CharactersOf(t) IN FlattenSeq([i \in 1..Len(us) |-> WrittenAs(us[i], asciiOnly)])

Decimal(n) ==
  LET digits[m \in 0..n] ==
        IF m < 10 THEN <<48 + m>> ELSE Append(digits[m \div 10], 48 + (m % 10))
  IN digits[n]
Integer(n) == IF n < 0 THEN <<Minus>> \o Decimal(-n) ELSE Decimal(n)

\* A call of windbg.eval, as a client serialises it.
CallOf(command, lines) ==
  Object(<<Version, Field("id", Decimal(1)), Field("method", Quoted(W["tools/call"])),
    Field("params", Object(<<Field("name", Quoted(W["windbg.eval"])),
      Field("arguments", Object(<<Field("command", Quoted(command)),
                                  Field("max_lines", Integer(lines))>>))>>))>>)

Inside(t) == SubSeq(t, 2, Len(t) - 1)

\* The text of the first item of a tool result's content.
ContentIn(result) ==
  TryGetStringField(ParseObjectFields(Inside(result[W["content"]])), W["text"])
ContentText(answer) == ContentIn(TryGetObjectField(ParseObjectFields(answer), W["result"]))

\* The call is for the command and the limit of lines the client means.
AsMeant(call, lines) ==
  /\ call # Absent
  /\ call.command = body
  /\ call.max_lines = IF lines \in (-IntMax - 1)..IntMax THEN lines ELSE DefaultMaxLines

\* The command the debugger is given is the one the client meant, whichever
\* way it serialised it, with the limit of lines it asked for if that is an
\* int; and what the command printed is what the client reads.
TextUnchanged ==
  Len(body) \in 1..MaxCommand =>
    /\ \A asciiOnly \in BOOLEAN :
       \A lines \in IF asciiOnly THEN {-IntMax - 1, IntMax + 1} ELSE {-IntMax - 2, IntMax} :
         AsMeant(ToolCall(ParseObjectFields(CallOf(Escaped(body, asciiOnly), lines))), lines)
    /\ \A success \in BOOLEAN :
         ContentText(HandleJsonRpcPost(CallOf(W["other"], 1),
                                       [success |-> success, text |-> body]).body) = body

-----------------------------------------------------------------------------
(* McpRequest *)

Router == INSTANCE McpRequest WITH
  Ids <- Seq(Nat), NullId <- W["null"], Requests <- {}, MaxRequests <- 0,
  phase <- "idle", count <- 0, nextLocalTraceId <- 1, request <- <<>>, trace <- <<>>,
  log <- <<>>, ran <- <<>>, answer <- <<>>

\* What is absent is no name, no call and no answer, and NotJson no message.
ASSUME MessageAssumption ==
  /\ Absent \notin Router!Methods \cup {"2.0", "windbg.eval", "other"}
  /\ Absent \notin [command : Seq(Nat), max_lines : Int, pattern : Seq(Nat)]
  /\ Absent \notin Router!Bodies
  /\ NotJson \notin Router!Messages

NameOf(text, known) ==
  IF text = Absent THEN Absent
  ELSE IF \E n \in known : text = W[n] THEN CHOOSE n \in known : text = W[n] ELSE "other"
MethodOf(text) ==
  LET n == NameOf(text, Router!Methods \ {"unknown"}) IN IF n = "other" THEN "unknown" ELSE n

\* What McpRequest keeps of a call, and of a message.
CallNamed(name, arguments) ==
  [params |-> TRUE, name |-> NameOf(name, {"windbg.eval"}), arguments |-> arguments # NoObject,
   command |-> arguments # NoObject
               /\ TryGetStringField(arguments, W["command"]) \notin {Absent, <<>>}]
NoCall == [params |-> FALSE, name |-> Absent, arguments |-> FALSE, command |-> FALSE]
CallIn(params) ==
  IF params = NoObject THEN NoCall
  ELSE CallNamed(TryGetStringField(params, W["name"]), TryGetObjectField(params, W["arguments"]))

MessageOf(fields) ==
  IF fields = NoObject THEN NotJson
  ELSE [jsonrpc |-> NameOf(TryGetStringField(fields, W["jsonrpc"]), {"2.0"}),
        id |-> TryGetRawField(fields, W["id"]),
        method |-> MethodOf(TryGetStringField(fields, W["method"])),
        call |-> CallIn(TryGetObjectField(fields, W["params"]))]

Request(t) ==
  [path |-> "/mcp", origin |-> Absent, protocol |-> Absent, method |-> "POST",
   body |-> MessageOf(ParseObjectFields(t))]

\* What a client, and McpRequest, make of an answer.
CodeOf(text) ==
  CASE text = W["-32000"] -> -32000 [] text = W["-32600"] -> -32600
    [] text = W["-32601"] -> -32601 [] text = W["-32602"] -> -32602
    [] text = W["-32700"] -> -32700 [] OTHER -> 0
UnderstoodFrom(fields) ==
  IF fields = NoObject THEN Absent
  ELSE IF Has(fields, W["result"])
  THEN [kind |-> "result", id |-> fields[W["id"]], code |-> 0,
        failed |-> IfAbsent(TryGetRawField(ParseObjectFields(fields[W["result"]]), W["isError"]), <<>>)
                   = W["true"]]
  ELSE IF ~Has(fields, W["id"]) THEN Router!PlainBody
  ELSE [kind |-> "error", id |-> fields[W["id"]], failed |-> FALSE,
        code |-> CodeOf(TryGetRawField(ParseObjectFields(fields[W["error"]]), W["code"]))]
Understood(t) == IF t = Absent THEN Absent ELSE UnderstoodFrom(ParseObjectFields(t))

Executions == [success : BOOLEAN, text : Outputs \cup {body}]

\* An answer as it is understood, and what McpRequest decides.
ReadAnswer(a) == [a EXCEPT !.body = Understood(a.body)]
Decided(request, e) ==
  Router!HandleJsonRpcPost(request, Router!Executes(request) /\ ~e.success)
AnswersAgree(request) ==
  \A e \in Executions : ReadAnswer(HandleJsonRpcPost(body, e)) = Decided(request, e)

\* Every answer says in its text what McpRequest decides for the message, as
\* McpRequest sees it: no id, however it is spelled, and no output breaks the
\* answer it is put into.
AnswersAsModelled == AnswersAgree(Request(body))

-----------------------------------------------------------------------------
(* The log *)

\* Answers a request may get, the handler's own refusals among them.
Refusals == {Reply(403, BuildJsonRpcError(W["null"], "-32000")),
             Reply(405, Object(<<Field("error", Quoted(W["other"]))>>))}
AnswersTo(t) == {HandleJsonRpcPost(t, e) : e \in Executions} \cup Refusals

\* The lines echoed for the body, those of its answer apart.
EarlyEchoes(trace) ==
  {BuildRequestIoSummary(
     [method |-> W["POST"], path |-> W["/mcp"], headers |-> {"authorization"}, body |-> body],
     BuildTraceContext(trace, W["request_received"], <<>>))}
  \cup {BuildLifecycleIoSummary(BuildTraceContext(trace, W[stage], W["in_progress"]), W["message"]) :
          stage \in {"route_dispatch", "tool_execute_start"}}
AnswerEcho(trace, a) ==
  BuildResponseIoSummary(a, BuildTraceContext(trace, W["response_sent"], <<>>))

ShownTexts(line, name) == {line[i].text : i \in {j \in 1..Len(line) : line[j].name = name}}

OneLine(t) == \A i \in 1..Len(t) : t[i] \notin BreaksLine

Correlates(line, trace, id) ==
  /\ ShownTexts(line, "trace_id") = {TruncateForSummary(trace.trace_id)}
  /\ id # Absent => ShownTexts(line, "rpc_id") = {TruncateForSummary(id)}
  /\ \A i \in 1..Len(line) : OneLine(line[i].text)

ShowsOutcome(line, t) ==
  ShownTexts(line, "rpc_outcome") =
    IF t = Absent THEN {}
    ELSE {TruncateForSummary(W[Router!RpcOutcome([body |-> Understood(t)])])}

Echoed(line, a, trace, id) == Correlates(line, trace, id) /\ ShowsOutcome(line, a.body)
TracedBy(trace, id) ==
  /\ \A line \in EarlyEchoes(trace) : Correlates(line, trace, id)
  /\ \A a \in AnswersTo(body) : Echoed(AnswerEcho(trace, a), a, trace, id)

\* openspec windbg-mcp-debug-observability/spec.md:11: all lines echoed for a
\* request show the same trace, and its own id if it has one, whatever the id
\* in its answer; the last shows the outcome McpRequest keeps; and whatever the
\* client writes, no summary has a line break.  (LogMessage, which ends a line
\* at a NUL, is not modelled.)
EchoesTrue == TracedBy(BuildRequestTraceState(body, 1), ParseRequestIoMeta(body).id)
=============================================================================
