------------------------------ MODULE JsonRpcText ------------------------------
(***************************************************************************)
(* JsonRpcRouter as a function of texts: the body of a POST in, the status *)
(* and body of its answer out, and what HandleToolsCall reads of a call.   *)
(* McpRequest has the same decisions over abstract messages.               *)
(***************************************************************************)
EXTENDS JsonText

-----------------------------------------------------------------------------
(* Texts put together *)

Field(name, raw) == Quoted(W[name]) \o <<Colon>> \o raw

Joined(items) ==
  FlattenSeq([i \in 1..Len(items) |-> IF i = 1 THEN items[i] ELSE <<Comma>> \o items[i]])
Object(members) == <<LBrace>> \o Joined(members) \o <<RBrace>>
Array(items) == <<LBracket>> \o Joined(items) \o <<RBracket>>

Version == Field("jsonrpc", Quoted(W["2.0"]))

BuildJsonRpcSuccess(id, result) ==
  Object(<<Version, Field("id", id), Field("result", result)>>)

\* The words of the message do not matter; that it is escaped is for its own sake.
BuildJsonRpcError(id, code) ==
  Object(<<Version, Field("id", id),
           Field("error", Object(<<Field("code", W[code]),
                                   Field("message", Quoted(Escape(W["message"])))>>))>>)

\* A fixed object stands for the results of initialize and tools/list.
FixedResult == Object(<<Field("tools", Array(<<Object(<<Field("name", Quoted(W["windbg.eval"]))>>)>>))>>)

-----------------------------------------------------------------------------
(* HandleToolsCall *)

DefaultMaxLines == 100

IfAbsent(value, default) == IF value = Absent THEN default ELSE value

\* The call HandleToolsCall passes to the executor, if the checks let it.
CallWith(arguments) ==
  IF arguments = NoObject \/ TryGetStringField(arguments, W["command"]) \in {Absent, <<>>}
  THEN Absent
  ELSE [command |-> TryGetStringField(arguments, W["command"]),
        max_lines |-> IfAbsent(TryGetIntField(arguments, W["max_lines"]), DefaultMaxLines),
        pattern |-> IfAbsent(TryGetStringField(arguments, W["pattern"]), <<>>)]
CallFrom(params) ==
  IF params = NoObject \/ TryGetStringField(params, W["name"]) # W["windbg.eval"]
  THEN Absent
  ELSE CallWith(TryGetObjectField(params, W["arguments"]))
ToolCall(fields) == CallFrom(TryGetObjectField(fields, W["params"]))

\* An execution is [success, text]: the output, or the error message.
Payload(e) ==
  IF e.text # <<>> THEN e.text
  ELSE W[IF e.success THEN "(no output)" ELSE "Command execution failed"]

ToolResult(e) ==
  Object(<<Field("content", Array(<<Object(<<Field("type", Quoted(W["text"])),
                                             Field("text", Quoted(Escape(Payload(e))))>>)>>)),
           Field("isError", W[IF e.success THEN "false" ELSE "true"])>>)

-----------------------------------------------------------------------------
(* HandleJsonRpcPost *)

Reply(status, body) == [status |-> status, body |-> body]
Accepted == Reply(202, Absent)

FixedMethods ==
  {W["initialize"], W["notifications/initialized"], W["initialized"], W["tools/list"]}

\* DispatchMethod: a result, or an error code.
Outcome(method, fields, e) ==
  IF method \in FixedMethods THEN [ok |-> TRUE, result |-> FixedResult]
  ELSE IF method # W["tools/call"] THEN [ok |-> FALSE, code |-> "-32601"]
  ELSE IF ToolCall(fields) = Absent THEN [ok |-> FALSE, code |-> "-32602"]
  ELSE [ok |-> TRUE, result |-> ToolResult(e)]

\* The answer to a message with that id and outcome.
Refuse(id, code) == Reply(200, BuildJsonRpcError(IfAbsent(id, W["null"]), code))
Report(id, outcome) ==
  IF ~outcome.ok THEN Refuse(id, outcome.code)
  ELSE IF id = Absent THEN Accepted
  ELSE Reply(200, BuildJsonRpcSuccess(id, outcome.result))

\* The answer to a message, if its command is executed as e.
AnswerMethod(method, id, fields, e) ==
  IF TryGetStringField(fields, W["jsonrpc"]) # W["2.0"] THEN Refuse(id, "-32600")
  ELSE IF method # Absent THEN Report(id, Outcome(method, fields, e))
  ELSE IF id = Absent THEN Accepted
  ELSE Refuse(id, "-32600")
Answer(fields, e) ==
  IF fields = NoObject THEN Reply(400, BuildJsonRpcError(W["null"], "-32700"))
  ELSE AnswerMethod(TryGetStringField(fields, W["method"]), TryGetRawField(fields, W["id"]), fields, e)

HandleJsonRpcPost(body, e) == Answer(ParseObjectFields(body), e)
=============================================================================
