------------------------------ MODULE LogSummaries ------------------------------
(***************************************************************************)
(* The lines dbgx::mcp echoes for a request.  A line is the sequence of    *)
(* its fields, each a name and the text shown for it; the numbers among    *)
(* them (status, duration, sizes) and the layout are left out.             *)
(***************************************************************************)
EXTENDS JsonRpcText

CONSTANT kSummaryValueLimit   \* 160 in the code

ASSUME LimitAssumption == kSummaryValueLimit \in Nat

Space == 32
BreaksLine == {9, 10, 13}

SanitizeSingleLine(t) == [i \in 1..Len(t) |-> IF t[i] \in BreaksLine THEN Space ELSE t[i]]

TruncateForSummary(t) ==
  LET s == SanitizeSingleLine(t)
  IN IF Len(s) <= kSummaryValueLimit THEN s
     ELSE SubSeq(s, 1, kSummaryValueLimit) \o W["...(truncated)"]

Show(name, t) == <<[name |-> name, text |-> TruncateForSummary(t)]>>
ShowIf(shown, name, t) == IF shown THEN Show(name, t) ELSE <<>>

-----------------------------------------------------------------------------
(* What the log reads of a request and of its answer *)

\* ParseRequestIoMeta: a field that is not set is Absent.
NoRequestMeta == [parseable |-> FALSE, method |-> Absent, id |-> Absent, tool |-> Absent]
ToolName(method, params) ==
  IF method # W["tools/call"] \/ params = NoObject THEN Absent
  ELSE TryGetStringField(params, W["name"])
RequestMeta(fields) ==
  LET method == TryGetStringField(fields, W["method"])
  IN IF fields = NoObject THEN NoRequestMeta
     ELSE [parseable |-> TRUE, method |-> method, id |-> TryGetRawField(fields, W["id"]),
           tool |-> ToolName(method, TryGetObjectField(fields, W["params"]))]
ParseRequestIoMeta(body) == RequestMeta(ParseObjectFields(body))

SaysError(result) == result # NoObject /\ TryGetRawField(result, W["isError"]) = W["true"]
ResponseMeta(fields) ==
  LET error == TryGetRawField(fields, W["error"])
      result == TryGetRawField(fields, W["result"])
  IN IF fields = NoObject THEN [parseable |-> FALSE]
     ELSE [parseable |-> TRUE, id |-> TryGetRawField(fields, W["id"]), error |-> error,
           result |-> IF error = Absent THEN result ELSE Absent,
           outcome |-> IF error # Absent THEN "error"
                       ELSE IF result = Absent THEN "unknown"
                       ELSE IF SaysError(ParseObjectFields(result)) THEN "error" ELSE "success"]
ParseResponseIoMeta(body) == ResponseMeta(ParseObjectFields(body))

-----------------------------------------------------------------------------
(* RequestTraceState and IoTraceContext: an empty text is not shown *)

OrEmpty(t) == IfAbsent(t, <<>>)

\* local is the number next_local_trace_id had.
TraceState(meta, local) ==
  [trace_id |-> IF meta.id # Absent THEN W["rpc:"] \o meta.id ELSE W["local-"] \o <<48 + local>>,
   method |-> OrEmpty(meta.method), id |-> OrEmpty(meta.id), tool |-> OrEmpty(meta.tool)]
BuildRequestTraceState(body, local) == TraceState(ParseRequestIoMeta(body), local)

BuildTraceContext(trace, stage, outcome) ==
  [trace_id |-> trace.trace_id, method |-> trace.method, id |-> trace.id,
   tool |-> trace.tool, stage |-> stage, outcome |-> outcome]

AppendTraceContext(c) ==
  ShowIf(c.trace_id # <<>>, "trace_id", c.trace_id) \o ShowIf(c.stage # <<>>, "stage", c.stage)

-----------------------------------------------------------------------------
(* The lines *)

\* The context's value, or the one read from the message, or a default.
Preferred(ours, read, default) == IF ours # <<>> THEN ours ELSE IfAbsent(read, default)

AppendRpcRequestMeta(meta, c) ==
  LET method == Preferred(c.method, meta.method, W["(missing)"])
      tool == Preferred(c.tool, meta.tool, <<>>)
  IN Show("rpc_method", method)
     \o Show("rpc_id", Preferred(c.id, meta.id, W["(missing)"]))
     \o ShowIf(tool # <<>> \/ method = W["tools/call"], "tool",
               IF tool = <<>> THEN W["(missing)"] ELSE tool)

\* What is shown of the context where no answer can be read.
AppendContextOnly(c) ==
  ShowIf(c.id # <<>>, "rpc_id", c.id)
  \o ShowIf(c.outcome # <<>>, "rpc_outcome", c.outcome)
  \o ShowIf(c.tool # <<>>, "tool", c.tool)

\* The names of the headers whose values are masked, in the order of their
\* names; headers is the set of the names of a request's headers.
Sensitive == <<"authorization", "proxy-authorization", "x-api-key">>
BuildSensitiveHeadersSummary(headers) ==
  LET shown == FlattenSeq([i \in 1..Len(Sensitive) |->
                 IF Sensitive[i] \in headers THEN <<W[Sensitive[i]]>> ELSE <<>>])
  IN <<[name |-> "sensitive_headers", text |-> IF shown = <<>> THEN W["none"] ELSE Joined(shown)]>>

RequestSummary(r, meta, c) ==
  Show("method", r.method) \o AppendTraceContext(c) \o Show("path", r.path)
  \o (IF meta.parseable THEN AppendRpcRequestMeta(meta, c)
      ELSE Show("rpc_meta", W["unparseable"])
           \o ShowIf(c.method # <<>>, "rpc_method", c.method)
           \o ShowIf(c.id # <<>>, "rpc_id", c.id) \o ShowIf(c.tool # <<>>, "tool", c.tool))
  \o BuildSensitiveHeadersSummary(r.headers)
BuildRequestIoSummary(r, c) == RequestSummary(r, ParseRequestIoMeta(r.body), c)

BuildLifecycleIoSummary(c, message) ==
  AppendTraceContext(c)
  \o ShowIf(c.method # <<>>, "rpc_method", c.method) \o ShowIf(c.id # <<>>, "rpc_id", c.id)
  \o ShowIf(c.tool # <<>>, "tool", c.tool) \o ShowIf(c.outcome # <<>>, "outcome", c.outcome)
  \o ShowIf(message # <<>>, "msg", message)

\* Mutant of ResponseId: the answer's own id is preferred.
IdOfResponse(meta, c) == IF meta.id # Absent THEN meta.id ELSE c.id

ResponseId(meta, c) == Preferred(c.id, meta.id, <<>>)

AppendRpcResponseMeta(meta, c) ==
  LET id == ResponseId(meta, c) IN
  ShowIf(id # <<>>, "rpc_id", id)
  \o Show("rpc_outcome", IF c.outcome # <<>> THEN c.outcome ELSE W[meta.outcome])
  \o ShowIf(c.tool # <<>>, "tool", c.tool)
  \o (IF meta.error # Absent THEN Show("error", meta.error)
      ELSE ShowIf(meta.result # Absent, "result", meta.result))

\* A response without a body has the body Absent.
ResponseSummary(a, meta, c) ==
  AppendTraceContext(c)
  \o (IF a.body = Absent THEN AppendContextOnly(c)
      ELSE IF meta.parseable THEN AppendRpcResponseMeta(meta, c)
      ELSE Show("rpc_meta", W["unparseable"]) \o AppendContextOnly(c)
           \o Show("body", IF a.body = <<>> THEN W["(empty)"] ELSE a.body))
BuildResponseIoSummary(a, c) == ResponseSummary(a, ParseResponseIoMeta(a.body), c)
=============================================================================
