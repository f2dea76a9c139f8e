------------------------------ MODULE McpRequest ------------------------------
(***************************************************************************)
(* One request after the other through HandleRequest, JsonRpcRouter and    *)
(* the executor: the status and body it is answered with, the stages       *)
(* echoed to the debugger for it, and whether its command ran.             *)
(*                                                                         *)
(* Extension models the lock and the threads around this; here a request   *)
(* that waits for the lock has the phase "dispatch".  The checks for a     *)
(* missing router and a missing executor are left out: by theorem          *)
(* ExtensionProofs!RouterIsThere neither ever succeeds.                    *)
(***************************************************************************)
EXTENDS Integers, Sequences

CONSTANTS
  Ids,          \* raw values of a JSON-RPC id
  NullId,       \* the raw value null
  Absent,       \* a header or field that is not there
  NotJson,      \* a body that ParseObjectFields rejects
  Requests,     \* the requests clients send
  MaxRequests   \* how many are handled

\* A call names a tool and a command: HandleToolsCall only asks whether
\* params and arguments are objects and command a non-empty string.
Calls == [params : BOOLEAN, name : {"windbg.eval", "other", Absent},
          arguments : BOOLEAN, command : BOOLEAN]
Methods == {"initialize", "notifications/initialized", "initialized", "tools/list",
            "tools/call", "unknown"}
Messages == [jsonrpc : {"2.0", "other", Absent}, id : Ids \cup {NullId, Absent},
             method : Methods \cup {Absent}, call : Calls]
HttpRequests ==
  [path : {"/mcp", "other"}, origin : {Absent, "local", "remote"},
   protocol : {Absent, "supported", "unsupported"},
   method : {"POST", "GET", "other"}, body : Messages \cup {NotJson}]

ASSUME RequestAssumption ==
  /\ NotJson \notin Messages
  /\ Absent \notin Ids \cup {NullId} \cup Methods
  /\ Requests \subseteq HttpRequests
  /\ MaxRequests \in Nat

Numbers == 1..MaxRequests

VARIABLES
  phase,             \* where HandleRequest is with the current request
  count,             \* requests received; the last one is the current one
  nextLocalTraceId,  \* ExtensionState::next_local_trace_id
  request,           \* [Numbers -> the request]
  trace,             \* [Numbers -> RequestTraceState::trace_id]
  log,               \* [Numbers -> stages echoed for the request, each with
                     \*   the rpc_outcome the line shows]
  ran,               \* [Numbers -> what became of the request's command]
  answer             \* [Numbers -> HttpResponse]

vars == <<phase, count, nextLocalTraceId, request, trace, log, ran, answer>>

Phases == {"idle", "received", "dispatch", "executing", "answered"}
Stages == {"request_received", "route_dispatch", "tool_execute_start",
           "tool_execute_end", "response_sent"}
Outcomes == {"in_progress", "success", "error", "none"}
\* A line of the log, of which the stage and the outcome are kept.
Echoes == [stage : Stages, outcome : Outcomes]
Traces == ({"rpc"} \X (Ids \cup {NullId})) \cup ({"local"} \X Nat)

\* A body is a JSON-RPC result or error, or a plain {"error": ...}; failed is
\* isError of a tool result.
Bodies == [kind : {"result", "error", "plain"}, id : Ids \cup {NullId},
           code : Int, failed : BOOLEAN]
Responses == [status : {200, 202, 400, 403, 404, 405}, body : Bodies \cup {Absent}]

ASSUME AnswerAssumption == Absent \notin Bodies /\ Absent \notin Responses

TypeOK ==
  /\ phase \in Phases
  /\ count \in 0..MaxRequests
  /\ nextLocalTraceId \in Nat
  /\ request \in [Numbers -> Requests \cup {Absent}]
  /\ trace \in [Numbers -> Traces \cup {Absent}]
  /\ log \in [Numbers -> Seq(Echoes)]
  /\ ran \in [Numbers -> {"no", "running", "ok", "failed"}]
  /\ answer \in [Numbers -> Responses \cup {Absent}]

Init ==
  /\ phase = "idle"
  /\ count = 0
  /\ nextLocalTraceId = 1
  /\ request = [i \in Numbers |-> Absent]
  /\ trace = [i \in Numbers |-> Absent]
  /\ log = [i \in Numbers |-> <<>>]
  /\ ran = [i \in Numbers |-> "no"]
  /\ answer = [i \in Numbers |-> Absent]

-----------------------------------------------------------------------------
(* Answers *)

ErrorBody(id, code) == [kind |-> "error", id |-> id, code |-> code, failed |-> FALSE]
PlainBody == [kind |-> "plain", id |-> NullId, code |-> 0, failed |-> FALSE]
ResultBody(id, failed) == [kind |-> "result", id |-> id, code |-> 0, failed |-> failed]
Reply(status, body) == [status |-> status, body |-> body]
Accepted == Reply(202, Absent)

IsObject(r) == r.body # NotJson
HasId(r) == IsObject(r) /\ r.body.id # Absent
IsToolsCall(r) == IsObject(r) /\ r.body.method = "tools/call"

\* Mutant of EchoedId: the id of an error is empty if the message has none.
UnsetId(m) == m.id

\* The id an error is answered with: null for a message without one.
EchoedId(m) == IF m.id = Absent THEN NullId ELSE m.id

\* A request without an Origin is allowed, and one from this machine.
IsOriginAllowed(origin) == origin # "remote"

Refused(r) ==
  ~IsOriginAllowed(r.origin) \/ r.protocol = "unsupported" \/ r.method # "POST"

\* The first check that fails decides.
Refusal(r) ==
  IF ~IsOriginAllowed(r.origin) THEN Reply(403, ErrorBody(NullId, -32000))
  ELSE IF r.protocol = "unsupported" THEN Reply(400, ErrorBody(NullId, -32600))
  ELSE Reply(405, PlainBody)

\* HandleToolsCall goes on to the executor.
IsEval(c) == c.params /\ c.name = "windbg.eval" /\ c.arguments /\ c.command

\* Methods answered with a fixed result, whatever their params.
FixedResults == {"initialize", "notifications/initialized", "initialized", "tools/list"}

\* DispatchMethod's error code, 0 for none.
ErrorCode(m) ==
  CASE m.method \in FixedResults -> 0
    [] m.method = "tools/call" -> IF IsEval(m.call) THEN 0 ELSE -32602
    [] OTHER -> -32601

\* HandleJsonRpcPost reaches DispatchMethod.
Dispatched(r) ==
  IsObject(r) /\ r.body.jsonrpc = "2.0" /\ r.body.method # Absent

Executes(r) ==
  Dispatched(r) /\ IsToolsCall(r) /\ IsEval(r.body.call)

\* jsonrpc is not 2.0, or there is no method: a response or a notification
\* without a method is accepted only if it has no id either.
InvalidMessage(m) ==
  IF m.jsonrpc = "2.0" /\ m.id = Absent
  THEN Accepted
  ELSE Reply(200, ErrorBody(EchoedId(m), -32600))

\* Mutant of MethodAnswer: the result of a notification is sent.
MethodAlwaysAnswered(m, failed) ==
  IF ErrorCode(m) # 0
  THEN Reply(200, ErrorBody(EchoedId(m), ErrorCode(m)))
  ELSE Reply(200, ResultBody(EchoedId(m), failed))

\* Mutant of MethodAnswer: a failed command is an error of the protocol.
FailureIsError(m, failed) ==
  IF ErrorCode(m) # 0 \/ failed
  THEN Reply(200, ErrorBody(EchoedId(m), IF failed THEN -32603 ELSE ErrorCode(m)))
  ELSE IF m.id = Absent THEN Accepted
  ELSE Reply(200, ResultBody(m.id, failed))

\* An error is answered even to a notification, a result is not.
MethodAnswer(m, failed) ==
  IF ErrorCode(m) # 0
  THEN Reply(200, ErrorBody(EchoedId(m), ErrorCode(m)))
  ELSE IF m.id = Absent THEN Accepted
  ELSE Reply(200, ResultBody(m.id, failed))

HandleJsonRpcPost(r, failed) ==
  IF ~IsObject(r) THEN Reply(400, ErrorBody(NullId, -32700))
  ELSE IF ~Dispatched(r) THEN InvalidMessage(r.body)
  ELSE MethodAnswer(r.body, failed)

-----------------------------------------------------------------------------
(* Echoes *)

\* Mutant of RpcOutcome: isError of a tool result is not looked at.
EnvelopeOutcome(a) ==
  IF a.body = Absent THEN "none"
  ELSE IF a.body.kind # "result" THEN "error" ELSE "success"

\* ParseResponseIoMeta: the outcome shown for a response.  A line of one without
\* a body shows none.
RpcOutcome(a) ==
  IF a.body = Absent THEN "none"
  ELSE IF a.body.kind # "result" \/ a.body.failed THEN "error" ELSE "success"

Echo(stage, outcome) == <<[stage |-> stage, outcome |-> outcome]>>

\* Mutant of TraceTaken: the local number is not counted up.
TraceReused(r) ==
  /\ trace' = [trace EXCEPT ![count'] =
                 IF HasId(r) THEN <<"rpc", r.body.id>> ELSE <<"local", nextLocalTraceId>>]
  /\ UNCHANGED nextLocalTraceId

\* BuildRequestTraceState: the id names the trace, or the next local number.
TraceTaken(r) ==
  IF HasId(r)
  THEN /\ trace' = [trace EXCEPT ![count'] = <<"rpc", r.body.id>>]
       /\ UNCHANGED nextLocalTraceId
  ELSE /\ trace' = [trace EXCEPT ![count'] = <<"local", nextLocalTraceId>>]
       /\ nextLocalTraceId' = nextLocalTraceId + 1

\* Mutant of AnswerEchoes: tool_execute_end only for calls that executed.
EndIfExecuted(r, a) ==
  (IF Executes(r) THEN Echo("tool_execute_end", RpcOutcome(a)) ELSE <<>>)
  \o Echo("response_sent", RpcOutcome(a))

\* What is echoed once the router has answered.
AnswerEchoes(r, a) ==
  (IF IsToolsCall(r) THEN Echo("tool_execute_end", RpcOutcome(a)) ELSE <<>>)
  \o Echo("response_sent", RpcOutcome(a))

-----------------------------------------------------------------------------
(* HandleRequest *)

Moves(from, to) == phase = from /\ phase' = to

\* Another path is answered at once and leaves no echo, but uses a trace id.
Receive(r) ==
  /\ count < MaxRequests
  /\ count' = count + 1
  /\ Moves("idle", IF r.path = "/mcp" THEN "received" ELSE "answered")
  /\ request' = [request EXCEPT ![count'] = r]
  /\ TraceTaken(r)
  /\ IF r.path = "/mcp"
     THEN /\ log' = [log EXCEPT ![count'] = Echo("request_received", "in_progress")]
          /\ UNCHANGED answer
     ELSE /\ answer' = [answer EXCEPT ![count'] = Reply(404, PlainBody)]
          /\ UNCHANGED log
  /\ UNCHANGED ran

Refuse ==
  /\ Moves("received", "answered")
  /\ Refused(request[count])
  /\ answer' = [answer EXCEPT ![count] = Refusal(request[count])]
  /\ log' = [log EXCEPT ![count] = @ \o Echo("response_sent", "error")]
  /\ UNCHANGED <<count, nextLocalTraceId, request, trace, ran>>

\* tool_execute_start is echoed for every tools/call, before the lock.
Route ==
  /\ Moves("received", "dispatch")
  /\ ~Refused(request[count])
  /\ log' = [log EXCEPT ![count] = @ \o Echo("route_dispatch", "in_progress")
               \o (IF IsToolsCall(request[count])
                   THEN Echo("tool_execute_start", "in_progress") ELSE <<>>)]
  /\ UNCHANGED <<count, nextLocalTraceId, request, trace, ran, answer>>

Answers(failed) ==
  LET r == request[count]
      a == HandleJsonRpcPost(r, failed)
  IN /\ answer' = [answer EXCEPT ![count] = a]
     /\ log' = [log EXCEPT ![count] = @ \o AnswerEchoes(r, a)]

\* The router answers without the executor.
AnswerDirectly ==
  /\ Moves("dispatch", "answered")
  /\ ~Executes(request[count])
  /\ Answers(FALSE)
  /\ UNCHANGED <<count, nextLocalTraceId, request, trace, ran>>

Execute ==
  /\ Moves("dispatch", "executing")
  /\ Executes(request[count])
  /\ ran' = [ran EXCEPT ![count] = "running"]
  /\ UNCHANGED <<count, nextLocalTraceId, request, trace, log, answer>>

\* The command came back, with or without success.
Executed(failed) ==
  /\ Moves("executing", "answered")
  /\ ran' = [ran EXCEPT ![count] = IF failed THEN "failed" ELSE "ok"]
  /\ Answers(failed)
  /\ UNCHANGED <<count, nextLocalTraceId, request, trace>>

\* The response goes to the server, which sends it.
Return ==
  /\ Moves("answered", "idle")
  /\ UNCHANGED <<count, nextLocalTraceId, request, trace, log, ran, answer>>

Next ==
  \/ \E r \in Requests : Receive(r)
  \/ Refuse \/ Route \/ AnswerDirectly \/ Execute \/ Return
  \/ \E failed \in BOOLEAN : Executed(failed)

Spec == Init /\ [][Next]_vars

-----------------------------------------------------------------------------
(* Properties *)

Received == 1..count
Answered == {i \in Received : answer[i] # Absent}
StagesOf(i) == [j \in 1..Len(log[i]) |-> log[i][j].stage]
Shown(i) == log[i][Len(log[i])].outcome

\* A client that is told of an error, by the protocol or by HTTP, may send
\* its call again: the debugger has not seen the command.  One that is told
\* of a result, or of acceptance, knows that it ran, and how it ended.
AnswerTellsExecution ==
  \A i \in Answered : LET a == answer[i] IN
    /\ a.status >= 400 \/ (a.body # Absent /\ a.body.kind = "error") => ran[i] = "no"
    /\ Dispatched(request[i]) /\ IsToolsCall(request[i]) /\ a.body # Absent =>
         /\ a.body.kind = "result" => ran[i] = IF a.body.failed THEN "failed" ELSE "ok"
    /\ a.status = 202 /\ IsToolsCall(request[i]) => ran[i] \in {"ok", "failed"}

\* A message with an id that HTTP does not refuse is answered with that id,
\* null included; only such a message gets a result, and no answer carries the
\* id of another message.  (NotificationUnanswered is about messages without
\* an id.)
AnswerMatchesId ==
  \A i \in Answered : LET r == request[i] a == answer[i] IN
    /\ HasId(r) /\ a.status < 400 => a.status = 200 /\ a.body.id = r.body.id
    /\ a.body # Absent /\ (a.body.kind = "result" \/ a.body.id # NullId) =>
         HasId(r) /\ a.body.id = r.body.id

IsNotification(m) == m.jsonrpc = "2.0" /\ m.id = Absent /\ m.method # Absent

\* docs/MCP-transports.md:97: a notification is accepted with 202 and no body,
\* or refused with an HTTP error status.
NotificationUnanswered ==
  \A i \in Answered :
    IsObject(request[i]) /\ IsNotification(request[i].body) =>
      answer[i] = Accepted \/ answer[i].status >= 400

\* openspec windbg-mcp-debug-observability/spec.md:33: a request that failed is
\* never logged as a success, and a success is never logged as a failure.
LogTellsOutcome ==
  \A i \in Answered : log[i] # <<>> =>
    /\ Shown(i) = "success" <=>
         answer[i].status = 200 /\ answer[i].body.kind = "result" /\ ran[i] # "failed"
    /\ ran[i] = "failed" => Shown(i) # "success"
    /\ \A j \in 1..Len(log[i]) :
         log[i][j].stage = "tool_execute_end" => log[i][j].outcome = Shown(i)

\* The echoes of a request are a path through the stages: every
\* tool_execute_start is followed by its tool_execute_end, the answer comes
\* last, and nothing is echoed for a request after that.
Paths == {<<>>,
          <<"request_received", "response_sent">>,
          <<"request_received", "route_dispatch", "response_sent">>,
          <<"request_received", "route_dispatch", "tool_execute_start",
            "tool_execute_end", "response_sent">>}
StagesComplete ==
  \A i \in Received :
    IF i \in Answered
    THEN StagesOf(i) \in Paths
    ELSE \E p \in Paths : Len(StagesOf(i)) < Len(p) /\ StagesOf(i) = SubSeq(p, 1, Len(StagesOf(i)))

\* A local trace id belongs to one request, and only a request with the same
\* JSON-RPC id shares a trace.
TracesCorrelate ==
  \A i, j \in Received : trace[i] = trace[j] /\ i # j =>
    HasId(request[i]) /\ HasId(request[j]) /\ request[i].body.id = request[j].body.id
=============================================================================
