--------------------------- MODULE McpRequestProofs ---------------------------
(***************************************************************************)
(* What the client and the log may conclude, for any requests and any      *)
(* number of them.  Each answer is judged by a lemma about the functions   *)
(* that build it; the invariant says which of them built the answer of a   *)
(* request, given what became of its command.                              *)
(***************************************************************************)
EXTENDS McpRequest, SequenceTheorems, TLAPS

\* What AnswerTellsExecution and AnswerMatchesId say of one request: its
\* answer a, and what became of its command.
Tells(r, a, became) ==
  /\ a.status >= 400 \/ (a.body # Absent /\ a.body.kind = "error") => became = "no"
  /\ Dispatched(r) /\ IsToolsCall(r) /\ a.body # Absent =>
       /\ a.body.kind = "result" => became = IF a.body.failed THEN "failed" ELSE "ok"
  /\ a.status = 202 /\ IsToolsCall(r) => became \in {"ok", "failed"}

Matches(r, a) ==
  /\ HasId(r) /\ a.status < 400 => a.status = 200 /\ a.body.id = r.body.id
  /\ a.body # Absent /\ (a.body.kind = "result" \/ a.body.id # NullId) =>
       HasId(r) /\ a.body.id = r.body.id

Fits(r, a, became) == Tells(r, a, became) /\ Matches(r, a)

-----------------------------------------------------------------------------
(* The answers *)

\* The fields of the answers the router builds.
LEMMA ErrorFields ==
  ASSUME NEW status, NEW id, NEW code
  PROVE  /\ Reply(status, ErrorBody(id, code)).status = status
         /\ Reply(status, ErrorBody(id, code)).body.kind = "error"
         /\ Reply(status, ErrorBody(id, code)).body.id = id
  BY DEF Reply, ErrorBody

LEMMA ResultFields ==
  ASSUME NEW id, NEW failed
  PROVE  /\ Reply(200, ResultBody(id, failed)).status = 200
         /\ Reply(200, ResultBody(id, failed)).body.kind = "result"
         /\ Reply(200, ResultBody(id, failed)).body.id = id
         /\ Reply(200, ResultBody(id, failed)).body.failed = failed
  BY DEF Reply, ResultBody

LEMMA AcceptedFields == Accepted.status = 202 /\ Accepted.body = Absent
  BY DEF Accepted, Reply

\* An error tells that nothing ran, whatever was asked for.
LEMMA ErrorFits ==
  ASSUME NEW r, NEW status, NEW id, NEW code,
         \/ status \in {400, 403, 405} /\ id = NullId
         \/ (status = 200 /\ IsObject(r) /\ id = EchoedId(r.body))
  PROVE  Fits(r, Reply(status, ErrorBody(id, code)), "no")
<1> DEFINE a == Reply(status, ErrorBody(id, code))
<1>1. a.status = status /\ a.body.kind = "error" /\ a.body.id = id
  BY ErrorFields
<1> HIDE DEF a
<1>2. Tells(r, a, "no")
  BY <1>1 DEF Tells
<1>3. Matches(r, a)
  BY <1>1 DEF Matches, EchoedId, HasId
<1>4. QED
  BY <1>2, <1>3 DEF Fits, a

\* An acceptance tells a notification's sender that its command ran.
LEMMA AcceptedFits ==
  ASSUME NEW r, NEW became, IsObject(r), r.body.id = Absent,
         IsToolsCall(r) => became \in {"ok", "failed"}
  PROVE  Fits(r, Accepted, became)
  BY AcceptedFields DEF Fits, Tells, Matches, HasId

\* A result tells how the command ended, if there was one.
LEMMA ResultFits ==
  ASSUME NEW r, NEW failed, NEW became, IsObject(r), r.body.id # Absent,
         IsToolsCall(r) => became = IF failed THEN "failed" ELSE "ok"
  PROVE  Fits(r, Reply(200, ResultBody(r.body.id, failed)), became)
<1> DEFINE a == Reply(200, ResultBody(r.body.id, failed))
<1>1. /\ a.status = 200 /\ a.body.kind = "result" /\ a.body.id = r.body.id
      /\ a.body.failed = failed
  BY ResultFields
<1> HIDE DEF a
<1>2. Tells(r, a, became)
  BY <1>1 DEF Tells
<1>3. Matches(r, a)
  BY <1>1 DEF Matches, HasId
<1>4. QED
  BY <1>2, <1>3 DEF Fits, a

\* A refusal has an HTTP error status, and so has the answer to another path.
LEMMA RefusalFits ==
  ASSUME NEW r
  PROVE  Fits(r, Refusal(r), "no") /\ Fits(r, Reply(404, PlainBody), "no")
<1>1. ASSUME NEW a, a.status \in {404, 405}, a.body.kind = "plain",
             a.body.id = NullId
      PROVE  Fits(r, a, "no")
  BY <1>1 DEF Fits, Tells, Matches
<1>2. \A status : /\ Reply(status, PlainBody).status = status
                  /\ Reply(status, PlainBody).body.kind = "plain"
                  /\ Reply(status, PlainBody).body.id = NullId
  BY DEF Reply, PlainBody
<1>3. \/ Refusal(r) = Reply(403, ErrorBody(NullId, -32000))
      \/ Refusal(r) = Reply(400, ErrorBody(NullId, -32600))
      \/ Refusal(r) = Reply(405, PlainBody)
  BY DEF Refusal
<1>4. Fits(r, Refusal(r), "no")
  BY <1>1, <1>2, <1>3, ErrorFits
<1>5. QED
  BY <1>1, <1>2, <1>4

\* The router's answer to a request whose command it did not run: an error, or
\* the result of another method.
LEMMA DirectFits ==
  ASSUME NEW r, ~Executes(r)
  PROVE  Fits(r, HandleJsonRpcPost(r, FALSE), "no")
<1>1. CASE ~IsObject(r)
  BY <1>1, ErrorFits DEF HandleJsonRpcPost
<1>2. CASE IsObject(r) /\ ~Dispatched(r)
  <2>1. HandleJsonRpcPost(r, FALSE) = InvalidMessage(r.body)
    BY <1>2 DEF HandleJsonRpcPost
  <2>2. CASE r.body.jsonrpc = "2.0" /\ r.body.id = Absent
    <3>1. InvalidMessage(r.body) = Accepted
      BY <2>2 DEF InvalidMessage
    <3>2. ~IsToolsCall(r)
      BY <1>2, <2>2, RequestAssumption DEF Dispatched, IsToolsCall, Methods
    <3>3. QED
      BY <1>2, <2>1, <2>2, <3>1, <3>2, AcceptedFits
  <2>3. CASE ~(r.body.jsonrpc = "2.0" /\ r.body.id = Absent)
    <3> DEFINE a == Reply(200, ErrorBody(EchoedId(r.body), -32600))
    <3>1. InvalidMessage(r.body) = a
      BY <2>3 DEF InvalidMessage
    <3>2. Fits(r, a, "no")
      BY <1>2, ErrorFits
    <3> HIDE DEF a
    <3>3. QED
      BY <2>1, <3>1, <3>2
  <2>4. QED
    BY <2>2, <2>3
<1>3. CASE IsObject(r) /\ Dispatched(r)
  <2>1. HandleJsonRpcPost(r, FALSE) = MethodAnswer(r.body, FALSE)
    BY <1>3 DEF HandleJsonRpcPost
  <2>2. CASE ErrorCode(r.body) # 0
    <3>1. MethodAnswer(r.body, FALSE)
            = Reply(200, ErrorBody(EchoedId(r.body), ErrorCode(r.body)))
      BY <2>2 DEF MethodAnswer
    <3>2. Fits(r, Reply(200, ErrorBody(EchoedId(r.body), ErrorCode(r.body))), "no")
      BY <1>3, ErrorFits
    <3>3. QED
      BY <2>1, <3>1, <3>2
  <2>3. CASE ErrorCode(r.body) = 0
    <3>1. ~IsToolsCall(r)
      BY <1>3, <2>3 DEF Executes, ErrorCode, IsToolsCall, FixedResults
    <3>2. MethodAnswer(r.body, FALSE)
            = IF r.body.id = Absent THEN Accepted ELSE Reply(200, ResultBody(r.body.id, FALSE))
      BY <2>3 DEF MethodAnswer
    <3>3. CASE r.body.id = Absent
      <4>1. Fits(r, Accepted, "no")
        BY <1>3, <3>1, <3>3, AcceptedFits
      <4>2. QED
        BY <2>1, <3>2, <3>3, <4>1
    <3>4. CASE r.body.id # Absent
      <4>1. Fits(r, Reply(200, ResultBody(r.body.id, FALSE)), "no")
        BY <1>3, <3>1, <3>4, ResultFits
      <4>2. QED
        BY <2>1, <3>2, <3>4, <4>1
    <3>5. QED
      BY <3>3, <3>4
  <2>4. QED
    BY <2>2, <2>3
<1>4. QED
  BY <1>1, <1>2, <1>3

\* The answer to a command that ran: its result, or none for a notification.
LEMMA ExecutedFits ==
  ASSUME NEW r, Executes(r)
  PROVE  /\ Fits(r, HandleJsonRpcPost(r, TRUE), "failed")
         /\ Fits(r, HandleJsonRpcPost(r, FALSE), "ok")
<1>1. IsObject(r) /\ Dispatched(r) /\ IsToolsCall(r)
  BY DEF Executes, Dispatched
<1>2. ErrorCode(r.body) = 0
  BY DEF Executes, IsToolsCall, ErrorCode, FixedResults
<1>3. /\ HandleJsonRpcPost(r, TRUE)
           = IF r.body.id = Absent THEN Accepted ELSE Reply(200, ResultBody(r.body.id, TRUE))
      /\ HandleJsonRpcPost(r, FALSE)
           = IF r.body.id = Absent THEN Accepted ELSE Reply(200, ResultBody(r.body.id, FALSE))
  BY <1>1, <1>2 DEF HandleJsonRpcPost, MethodAnswer
<1>4. CASE r.body.id = Absent
  BY <1>1, <1>3, <1>4, AcceptedFits
<1>5. CASE r.body.id # Absent
  <2>1. Fits(r, Reply(200, ResultBody(r.body.id, TRUE)), "failed")
    BY <1>1, <1>5, ResultFits
  <2>2. Fits(r, Reply(200, ResultBody(r.body.id, FALSE)), "ok")
    BY <1>1, <1>5, ResultFits
  <2>3. QED
    BY <1>3, <1>5, <2>1, <2>2
<1>6. QED
  BY <1>4, <1>5

-----------------------------------------------------------------------------
(* The state of each request *)

Fresh(i) == ran[i] = "no" /\ answer[i] = Absent

\* Where a request is tells what became of its command so far; the requests
\* after the current one have not been touched.
ProgressInv ==
  /\ phase # "idle" => count \in Numbers
  /\ phase \in {"received", "dispatch"} => Fresh(count)
  /\ phase = "executing" => answer[count] = Absent /\ Executes(request[count])
  /\ \A i \in Numbers : i > count => Fresh(i)
  /\ \A i \in Received : request[i] \in Requests

FitInv == \A i \in Answered : Fits(request[i], answer[i], ran[i])

\* A trace is the id of its request or a local number below the next.
TraceOf(r, t, next) ==
  IF HasId(r) THEN t = <<"rpc", r.body.id>>
  ELSE \E n \in Nat : n < next /\ t = <<"local", n>>

TraceInv ==
  /\ \A i \in Received : TraceOf(request[i], trace[i], nextLocalTraceId)
  /\ \A i, j \in Received :
       trace[i] = trace[j] /\ i # j => HasId(request[i]) /\ HasId(request[j])

Coherence == ProgressInv /\ FitInv /\ TraceInv

IInv == TypeOK /\ Coherence

\* What the router answers is a response.
LEMMA AnswerTypes ==
  ASSUME NEW r \in HttpRequests
  PROVE  /\ Refusal(r) \in Responses /\ Reply(404, PlainBody) \in Responses
         /\ HandleJsonRpcPost(r, TRUE) \in Responses
         /\ HandleJsonRpcPost(r, FALSE) \in Responses
<1>1. \A status \in {200, 400, 403}, id \in Ids \cup {NullId}, code \in Int :
        Reply(status, ErrorBody(id, code)) \in Responses
  BY DEF Reply, ErrorBody, Responses, Bodies
<1>2. Reply(404, PlainBody) \in Responses /\ Reply(405, PlainBody) \in Responses
  BY DEF Reply, PlainBody, Responses, Bodies
<1>3. Refusal(r) \in Responses
  BY <1>1, <1>2 DEF Refusal
<1>4. ASSUME IsObject(r), NEW failed \in {TRUE, FALSE}
      PROVE  InvalidMessage(r.body) \in Responses /\ MethodAnswer(r.body, failed) \in Responses
  <2>1. r.body.id \in Ids \cup {NullId, Absent}
    BY <1>4 DEF IsObject, HttpRequests, Messages
  <2>2. EchoedId(r.body) \in Ids \cup {NullId}
    BY <2>1 DEF EchoedId
  <2>3. Accepted \in Responses
    BY DEF Accepted, Reply, Responses
  <2>4. \A id \in Ids \cup {NullId} : Reply(200, ResultBody(id, failed)) \in Responses
    <3>1. failed \in BOOLEAN
      BY <1>4
    <3>2. QED
      BY <3>1 DEF Reply, ResultBody, Responses, Bodies
  <2>5. ErrorCode(r.body) \in Int
    BY DEF ErrorCode
  <2>6. InvalidMessage(r.body) \in Responses
    BY <1>1, <2>2, <2>3 DEF InvalidMessage
  <2>7. MethodAnswer(r.body, failed) \in Responses
    BY <1>1, <2>1, <2>2, <2>3, <2>4, <2>5 DEF MethodAnswer
  <2>8. QED
    BY <2>6, <2>7
<1>5. ASSUME NEW failed \in {TRUE, FALSE} PROVE HandleJsonRpcPost(r, failed) \in Responses
  <2>1. CASE ~IsObject(r)
    <3> DEFINE a == Reply(400, ErrorBody(NullId, -32700))
    <3>1. HandleJsonRpcPost(r, failed) = a
      BY <2>1 DEF HandleJsonRpcPost
    <3>2. a \in Responses
      BY <1>1
    <3> HIDE DEF a
    <3>3. QED
      BY <3>1, <3>2
  <2>2. CASE IsObject(r)
    <3>1. InvalidMessage(r.body) \in Responses /\ MethodAnswer(r.body, failed) \in Responses
      BY <1>4, <2>2
    <3>2. HandleJsonRpcPost(r, failed) \in {InvalidMessage(r.body), MethodAnswer(r.body, failed)}
      <4>1. HandleJsonRpcPost(r, failed)
              = IF ~Dispatched(r) THEN InvalidMessage(r.body) ELSE MethodAnswer(r.body, failed)
        BY <2>2 DEF HandleJsonRpcPost
      <4>2. QED
        BY <4>1
    <3>3. QED
      BY <3>1, <3>2
  <2>3. QED
    BY <2>1, <2>2
<1>6. QED
  BY <1>2, <1>3, <1>5

\* What a request is echoed with are echoes.
LEMMA EchoTypes ==
  ASSUME NEW r, NEW a
  PROVE  /\ Echo("request_received", "in_progress") \in Seq(Echoes)
         /\ Echo("response_sent", "error") \in Seq(Echoes)
         /\ Echo("route_dispatch", "in_progress") \in Seq(Echoes)
         /\ Echo("tool_execute_start", "in_progress") \in Seq(Echoes)
         /\ AnswerEchoes(r, a) \in Seq(Echoes)
<1>1. \A stage \in Stages, outcome \in Outcomes : Echo(stage, outcome) \in Seq(Echoes)
  <2>1. \A stage \in Stages, outcome \in Outcomes :
          [stage |-> stage, outcome |-> outcome] \in Echoes
    BY DEF Echoes
  <2>2. \A e \in Echoes : <<e>> \in Seq(Echoes)
    OBVIOUS
  <2>3. QED
    BY <2>1, <2>2 DEF Echo
<1>2. RpcOutcome(a) \in Outcomes
  BY DEF RpcOutcome, Outcomes
<1>3. Echo("tool_execute_end", RpcOutcome(a)) \in Seq(Echoes)
  BY <1>1, <1>2 DEF Stages
<1>4. Echo("response_sent", RpcOutcome(a)) \in Seq(Echoes)
  BY <1>1, <1>2 DEF Stages
<1>5. AnswerEchoes(r, a) \in Seq(Echoes)
  BY <1>3, <1>4 DEF AnswerEchoes
<1>6. QED
  BY <1>1, <1>5 DEF Stages, Outcomes

\* More lines echoed for a request leave the log a log.
LEMMA LogTypes ==
  ASSUME TypeOK, NEW i \in Numbers, NEW s \in Seq(Echoes)
  PROVE  [log EXCEPT ![i] = @ \o s] \in [Numbers -> Seq(Echoes)]
<1>1. log[i] \o s \in Seq(Echoes)
  BY DEF TypeOK
<1>2. QED
  BY <1>1 DEF TypeOK

\* The current request is one that a client sent.
LEMMA CurrentRequest ==
  ASSUME IInv, phase # "idle"
  PROVE  /\ count \in Numbers /\ count \in Received
         /\ request[count] \in HttpRequests
<1>1. count \in Numbers /\ count \in Received
  BY DEF IInv, Coherence, ProgressInv, Numbers, Received
<1>2. request[count] \in Requests
  BY <1>1 DEF IInv, Coherence, ProgressInv
<1>3. QED
  BY <1>1, <1>2, RequestAssumption

-----------------------------------------------------------------------------
(* Each step keeps the invariant *)

\* Initially no request has been received.
LEMMA InitHolds == Init => IInv
<1> SUFFICES ASSUME Init PROVE IInv
  OBVIOUS
<1>1. TypeOK
  <2>1. \A i \in Numbers : <<>> \in Seq(Echoes)
    OBVIOUS
  <2>2. QED
    BY <2>1, RequestAssumption DEF Init, TypeOK, Phases
<1>2. Received = {}
  BY DEF Init, Received
<1>3. ProgressInv
  BY <1>2 DEF Init, ProgressInv, Fresh
<1>4. FitInv /\ TraceInv
  BY <1>2 DEF FitInv, TraceInv, Answered
<1>5. QED
  BY <1>1, <1>3, <1>4 DEF IInv, Coherence

\* The current request gets an answer that fits what became of its command.
LEMMA AnswerKeeps ==
  ASSUME IInv, count \in Numbers, phase' = "answered",
         NEW a, NEW became, Fits(request[count], a, became),
         answer' = [answer EXCEPT ![count] = a],
         ran' = [ran EXCEPT ![count] = became],
         UNCHANGED <<count, nextLocalTraceId, request, trace>>
  PROVE  Coherence'
<1>1. ProgressInv'
  <2>1. \A i \in Numbers : i > count => answer'[i] = answer[i] /\ ran'[i] = ran[i]
    BY DEF IInv, TypeOK, Numbers
  <2>2. Received' = Received
    BY DEF Received
  <2>3. QED
    BY <2>1, <2>2 DEF IInv, Coherence, ProgressInv, Fresh
<1>2. FitInv'
  <2>1. Received' = Received /\ Received \subseteq Numbers
    BY RequestAssumption DEF Received, Numbers, IInv, TypeOK
  <2>2. ASSUME NEW i \in Answered' PROVE Fits(request'[i], answer'[i], ran'[i])
    <3>1. CASE i = count
      <4>1. answer'[i] = a /\ ran'[i] = became
        BY <3>1 DEF IInv, TypeOK
      <4>2. QED
        BY <3>1, <4>1
    <3>2. CASE i # count
      <4>1. i \in Received /\ answer'[i] # Absent
        BY <2>1, <2>2 DEF Answered
      <4>2. answer'[i] = answer[i] /\ ran'[i] = ran[i]
        BY <2>1, <3>2, <4>1 DEF IInv, TypeOK
      <4>3. Fits(request[i], answer[i], ran[i])
        BY <4>1, <4>2 DEF Answered, IInv, Coherence, FitInv
      <4>4. QED
        BY <4>2, <4>3
    <3>3. QED
      BY <3>1, <3>2
  <2>3. QED
    BY <2>2 DEF FitInv
<1>3. TraceInv'
  BY DEF IInv, Coherence, TraceInv, Received
<1>4. QED
  BY <1>1, <1>2, <1>3 DEF Coherence

\* A request comes in: its place has been kept fresh for it, and its trace is
\* its id or a local number that no earlier request has.
LEMMA ReceiveStep ==
  ASSUME IInv, NEW r \in Requests, Receive(r)
  PROVE  IInv'
<1>1. count \in Nat /\ count + 1 \in Numbers /\ count' = count + 1
  BY RequestAssumption DEF IInv, TypeOK, Receive, Numbers
<1>2. /\ request' = [request EXCEPT ![count + 1] = r]
      /\ ran' = ran /\ phase' \in {"received", "answered"}
      /\ phase' = "received" => answer' = answer
      /\ phase' = "answered" => answer' = [answer EXCEPT ![count + 1] = Reply(404, PlainBody)]
  BY <1>1 DEF Receive, Moves
<1>3. r \in HttpRequests
  BY RequestAssumption
<1>4. Fresh(count + 1)
  BY <1>1 DEF IInv, Coherence, ProgressInv, Numbers
<1>5. Received' = Received \cup {count + 1} /\ Received \subseteq Numbers
      /\ count + 1 \notin Received
  BY <1>1, RequestAssumption DEF Received, Numbers
<1>6. TypeOK'
  <2>1. Echo("request_received", "in_progress") \in Seq(Echoes)
    BY EchoTypes
  <2>2. log' \in [Numbers -> Seq(Echoes)]
    BY <1>1, <2>1 DEF Receive, IInv, TypeOK
  <2>3. answer' \in [Numbers -> Responses \cup {Absent}]
    BY <1>2, <1>3, AnswerTypes DEF IInv, TypeOK
  <2>4. trace' \in [Numbers -> Traces \cup {Absent}] /\ nextLocalTraceId' \in Nat
    <3>1. CASE HasId(r)
      <4>1. r.body.id \in Ids \cup {NullId}
        BY <1>3, <3>1 DEF HasId, IsObject, HttpRequests, Messages
      <4>2. <<"rpc", r.body.id>> \in Traces
        BY <4>1 DEF Traces
      <4>3. trace' = [trace EXCEPT ![count + 1] = <<"rpc", r.body.id>>]
            /\ nextLocalTraceId' = nextLocalTraceId
        BY <1>1, <3>1 DEF Receive, TraceTaken
      <4>4. QED
        BY <1>1, <4>2, <4>3 DEF IInv, TypeOK
    <3>2. CASE ~HasId(r)
      <4>1. <<"local", nextLocalTraceId>> \in Traces
        BY DEF Traces, IInv, TypeOK
      <4>2. trace' = [trace EXCEPT ![count + 1] = <<"local", nextLocalTraceId>>]
            /\ nextLocalTraceId' = nextLocalTraceId + 1
        BY <1>1, <3>2 DEF Receive, TraceTaken
      <4>3. QED
        BY <1>1, <4>1, <4>2 DEF IInv, TypeOK
    <3>3. QED
      BY <3>1, <3>2
  <2>5. request' \in [Numbers -> Requests \cup {Absent}]
    BY <1>1, <1>2 DEF IInv, TypeOK
  <2>6. phase' \in Phases /\ count' \in 0..MaxRequests
    BY <1>1, <1>2, RequestAssumption DEF Phases, Numbers
  <2>7. QED
    BY <1>2, <2>2, <2>3, <2>4, <2>5, <2>6 DEF IInv, TypeOK
<1>7. ProgressInv'
  <2>1. \A i \in Numbers : i > count' => ran'[i] = "no" /\ answer'[i] = Absent
    <3>1. \A i \in Numbers : i > count + 1 => i > count
      BY <1>1 DEF Numbers
    <3>2. \A i \in Numbers : i > count + 1 => ran[i] = "no" /\ answer[i] = Absent
      BY <3>1 DEF IInv, Coherence, ProgressInv, Fresh
    <3>3. \A i \in Numbers : i > count + 1 => i # count + 1
      BY <1>1 DEF Numbers
    <3>4. \A i \in Numbers : i # count + 1 => answer'[i] = answer[i]
      BY <1>2 DEF IInv, TypeOK
    <3>5. QED
      BY <1>1, <1>2, <3>2, <3>3, <3>4
  <2>2. phase' = "received" => ran'[count'] = "no" /\ answer'[count'] = Absent
    BY <1>1, <1>2, <1>4 DEF Fresh
  <2>3. \A i \in Received' : request'[i] \in Requests
    BY <1>1, <1>2, <1>5 DEF IInv, Coherence, ProgressInv, TypeOK
  <2>4. QED
    BY <1>1, <1>2, <2>1, <2>2, <2>3 DEF ProgressInv, Fresh
<1>8. FitInv'
  <2>1. ASSUME NEW i \in Answered' PROVE Fits(request'[i], answer'[i], ran'[i])
    <3>1. CASE i = count + 1
      <4>1. phase' = "answered"
        BY <1>2, <1>4, <2>1, <3>1 DEF Answered, Fresh
      <4>2. request'[i] = r /\ answer'[i] = Reply(404, PlainBody) /\ ran'[i] = "no"
        BY <1>1, <1>2, <1>4, <3>1, <4>1 DEF IInv, TypeOK, Fresh
      <4>3. Fits(r, Reply(404, PlainBody), "no")
        BY RefusalFits
      <4>4. QED
        BY <4>2, <4>3
    <3>2. CASE i # count + 1
      <4>1. i \in Received /\ i \in Numbers /\ answer'[i] # Absent
        BY <1>5, <2>1, <3>2 DEF Answered
      <4>2. request'[i] = request[i] /\ answer'[i] = answer[i] /\ ran'[i] = ran[i]
        BY <1>2, <3>2, <4>1 DEF IInv, TypeOK
      <4>3. Fits(request[i], answer[i], ran[i])
        BY <4>1, <4>2 DEF Answered, IInv, Coherence, FitInv
      <4>4. QED
        BY <4>2, <4>3
    <3>3. QED
      BY <3>1, <3>2
  <2>2. QED
    BY <2>1 DEF FitInv
<1>9. TraceInv'
  <2>1. \A i \in Received : request'[i] = request[i] /\ trace'[i] = trace[i]
    BY <1>1, <1>2, <1>5 DEF Receive, TraceTaken, IInv, TypeOK
  <2>2. request'[count + 1] = r
    BY <1>1, <1>2 DEF IInv, TypeOK
  <2>3. nextLocalTraceId \in Nat /\ nextLocalTraceId' \in Nat
        /\ nextLocalTraceId' >= nextLocalTraceId
    BY DEF Receive, TraceTaken, IInv, TypeOK
  <2>4. \A i \in Received : TraceOf(request[i], trace[i], nextLocalTraceId)
    BY DEF IInv, Coherence, TraceInv
  <2>5. \A i \in Received : TraceOf(request[i], trace[i], nextLocalTraceId')
    BY <2>3, <2>4 DEF TraceOf
  <2>6. /\ TraceOf(r, trace'[count + 1], nextLocalTraceId')
        /\ \A i \in Received : trace[i] = trace'[count + 1] => HasId(request[i]) /\ HasId(r)
    <3>1. CASE HasId(r)
      <4>1. trace'[count + 1] = <<"rpc", r.body.id>>
        BY <1>1, <3>1 DEF Receive, TraceTaken, IInv, TypeOK
      <4>2. \A i \in Received : ~HasId(request[i]) => trace[i][1] = "local"
        BY <2>4 DEF TraceOf
      <4>3. QED
        BY <3>1, <4>1, <4>2 DEF TraceOf
    <3>2. CASE ~HasId(r)
      <4>1. trace'[count + 1] = <<"local", nextLocalTraceId>>
            /\ nextLocalTraceId' = nextLocalTraceId + 1
        BY <1>1, <3>2 DEF Receive, TraceTaken, IInv, TypeOK
      <4>2. \A i \in Received : HasId(request[i]) => trace[i][1] = "rpc"
        BY <2>4 DEF TraceOf
      <4>3. \A i \in Received : ~HasId(request[i]) =>
              \E n \in Nat : n < nextLocalTraceId /\ trace[i][2] = n
        BY <2>4 DEF TraceOf
      <4>4. \A i \in Received : trace[i] # trace'[count + 1]
        BY <2>3, <4>1, <4>2, <4>3
      <4>5. TraceOf(r, trace'[count + 1], nextLocalTraceId')
        BY <2>3, <3>2, <4>1 DEF TraceOf
      <4>6. QED
        BY <4>4, <4>5
    <3>3. QED
      BY <3>1, <3>2
  <2>7. \A i \in Received' : TraceOf(request'[i], trace'[i], nextLocalTraceId')
    BY <1>5, <2>1, <2>2, <2>5, <2>6
  <2>8. \A i, j \in Received :
          trace[i] = trace[j] /\ i # j => HasId(request[i]) /\ HasId(request[j])
    BY DEF IInv, Coherence, TraceInv
  <2>9. \A i, j \in Received' :
          trace'[i] = trace'[j] /\ i # j => HasId(request'[i]) /\ HasId(request'[j])
    BY <1>5, <2>1, <2>2, <2>6, <2>8
  <2>10. QED
    BY <2>7, <2>9 DEF TraceInv
<1>10. QED
  BY <1>6, <1>7, <1>8, <1>9 DEF IInv, Coherence

\* A request refused before it is looked at has not run.
LEMMA RefuseStep ==
  ASSUME IInv, Refuse
  PROVE  IInv'
<1>1. phase = "received" /\ phase' = "answered" /\ phase' \in Phases
  BY DEF Refuse, Moves, Phases
<1>2. count \in Numbers /\ request[count] \in HttpRequests
  BY <1>1, CurrentRequest
<1>3. ran[count] = "no"
  BY <1>1 DEF IInv, Coherence, ProgressInv, Fresh
<1>4. TypeOK'
  <2>1. log' \in [Numbers -> Seq(Echoes)]
    BY <1>2, EchoTypes, LogTypes DEF Refuse, IInv
  <2>2. answer' \in [Numbers -> Responses \cup {Absent}]
    BY <1>2, AnswerTypes DEF Refuse, IInv, TypeOK
  <2>3. QED
    BY <1>1, <2>1, <2>2 DEF Refuse, IInv, TypeOK
<1>5. Coherence'
  <2>1. ran' = [ran EXCEPT ![count] = "no"]
    BY <1>2, <1>3 DEF Refuse, IInv, TypeOK
  <2>2. Fits(request[count], Refusal(request[count]), "no")
    BY RefusalFits
  <2>3. QED
    BY <1>1, <1>2, <2>1, <2>2, AnswerKeeps DEF Refuse
<1>6. QED
  BY <1>4, <1>5 DEF IInv

\* Answers leaves well-typed what it changes.
LEMMA AnswersTypes ==
  ASSUME IInv, phase # "idle", NEW failed \in {TRUE, FALSE}, Answers(failed)
  PROVE  /\ log' \in [Numbers -> Seq(Echoes)]
         /\ answer' \in [Numbers -> Responses \cup {Absent}]
         /\ answer' = [answer EXCEPT ![count] = HandleJsonRpcPost(request[count], failed)]
<1> DEFINE r == request[count]
           a == HandleJsonRpcPost(r, failed)
<1>1. count \in Numbers /\ r \in HttpRequests
  BY CurrentRequest
<1>2. answer' = [answer EXCEPT ![count] = a]
      /\ log' = [log EXCEPT ![count] = @ \o AnswerEchoes(r, a)]
  BY DEF Answers
<1>3. AnswerEchoes(r, a) \in Seq(Echoes)
  BY EchoTypes
<1>4. a \in Responses
  BY <1>1, AnswerTypes
<1> HIDE DEF a, r
<1>5. log' \in [Numbers -> Seq(Echoes)]
  BY <1>1, <1>2, <1>3, LogTypes DEF IInv
<1>6. answer' \in [Numbers -> Responses \cup {Absent}]
  BY <1>1, <1>2, <1>4 DEF IInv, TypeOK
<1>7. QED
  BY <1>2, <1>5, <1>6 DEF a, r

\* The router's own answers are for requests that run nothing.
LEMMA AnswerDirectlyStep ==
  ASSUME IInv, AnswerDirectly
  PROVE  IInv'
<1>1. phase = "dispatch" /\ phase' = "answered" /\ phase' \in Phases
  BY DEF AnswerDirectly, Moves, Phases
<1>2. count \in Numbers
  BY <1>1, CurrentRequest
<1>3. ran[count] = "no"
  BY <1>1 DEF IInv, Coherence, ProgressInv, Fresh
<1>4. /\ log' \in [Numbers -> Seq(Echoes)]
      /\ answer' \in [Numbers -> Responses \cup {Absent}]
      /\ answer' = [answer EXCEPT ![count] = HandleJsonRpcPost(request[count], FALSE)]
  BY <1>1, AnswersTypes DEF AnswerDirectly
<1>5. TypeOK'
  BY <1>1, <1>4 DEF AnswerDirectly, IInv, TypeOK
<1>6. Coherence'
  <2>1. ran' = [ran EXCEPT ![count] = "no"]
    BY <1>2, <1>3 DEF AnswerDirectly, IInv, TypeOK
  <2>2. Fits(request[count], HandleJsonRpcPost(request[count], FALSE), "no")
    BY DirectFits DEF AnswerDirectly
  <2>3. QED
    BY <1>1, <1>2, <1>4, <2>1, <2>2, AnswerKeeps DEF AnswerDirectly
<1>7. QED
  BY <1>5, <1>6 DEF IInv

\* The answer to a command tells how it ended.
LEMMA ExecutedStep ==
  ASSUME IInv, NEW failed \in {TRUE, FALSE}, Executed(failed)
  PROVE  IInv'
<1> DEFINE became == IF failed THEN "failed" ELSE "ok"
           a == HandleJsonRpcPost(request[count], failed)
<1>1. phase = "executing" /\ phase' = "answered" /\ phase' \in Phases
  BY DEF Executed, Moves, Phases
<1>2. count \in Numbers
  BY <1>1, CurrentRequest
<1>3. Executes(request[count])
  BY <1>1 DEF IInv, Coherence, ProgressInv
<1>4. Answers(failed) /\ ran' = [ran EXCEPT ![count] = became]
      /\ UNCHANGED <<count, nextLocalTraceId, request, trace>>
  BY DEF Executed
<1>5. /\ log' \in [Numbers -> Seq(Echoes)]
      /\ answer' \in [Numbers -> Responses \cup {Absent}]
      /\ answer' = [answer EXCEPT ![count] = a]
  BY <1>1, <1>4, AnswersTypes
<1>6. Fits(request[count], a, became)
  <2>1. CASE failed = TRUE
    BY <1>3, <2>1, ExecutedFits
  <2>2. CASE failed = FALSE
    BY <1>3, <2>2, ExecutedFits
  <2>3. QED
    BY <2>1, <2>2
<1>7. became \in {"ok", "failed"}
  OBVIOUS
<1> HIDE DEF became, a
<1>8. TypeOK'
  BY <1>1, <1>4, <1>5, <1>7 DEF IInv, TypeOK
<1>9. Coherence'
  BY <1>1, <1>2, <1>4, <1>5, <1>6, AnswerKeeps
<1>10. QED
  BY <1>8, <1>9 DEF IInv

\* A routed request is still fresh, and nothing else is touched.
LEMMA RouteStep ==
  ASSUME IInv, Route
  PROVE  IInv'
<1>1. phase = "received" /\ phase' = "dispatch" /\ phase' \in Phases
  BY DEF Route, Moves, Phases
<1>2. count \in Numbers
  BY <1>1, CurrentRequest
<1>3. log' \in [Numbers -> Seq(Echoes)]
  <2> DEFINE start == IF IsToolsCall(request[count])
                       THEN Echo("tool_execute_start", "in_progress") ELSE <<>>
             dispatch == Echo("route_dispatch", "in_progress")
  <2>1. log' = [log EXCEPT ![count] = @ \o dispatch \o start]
    BY DEF Route
  <2>2. start \in Seq(Echoes) /\ dispatch \in Seq(Echoes)
    BY EchoTypes
  <2> HIDE DEF start, dispatch
  <2>3. log[count] \o dispatch \o start \in Seq(Echoes)
    BY <1>2, <2>2 DEF IInv, TypeOK
  <2>4. QED
    BY <2>1, <2>3 DEF IInv, TypeOK
<1>4. QED
  BY <1>1, <1>3 DEF Route, IInv, TypeOK, Coherence, ProgressInv, Fresh, FitInv,
                    TraceInv, Answered, Received

\* A request that goes to the executor has no answer yet.
LEMMA ExecuteStep ==
  ASSUME IInv, Execute
  PROVE  IInv'
<1>1. phase = "dispatch" /\ phase' = "executing" /\ phase' \in Phases
      /\ Executes(request[count]) /\ ran' = [ran EXCEPT ![count] = "running"]
      /\ UNCHANGED <<count, nextLocalTraceId, request, trace, log, answer>>
  BY DEF Execute, Moves, Phases
<1>2. count \in Numbers
  BY <1>1, CurrentRequest
<1>3. answer[count] = Absent
  BY <1>1 DEF IInv, Coherence, ProgressInv, Fresh
<1>4. TypeOK'
  BY <1>1 DEF IInv, TypeOK
<1>5. \A i \in Numbers : i # count => ran'[i] = ran[i]
  BY <1>1 DEF IInv, TypeOK
<1>6. Received' = Received /\ Answered' = Answered
  BY <1>1 DEF Received, Answered
<1>7. Answered \subseteq Numbers \ {count}
  BY <1>3, RequestAssumption DEF Received, Answered, Numbers, IInv, TypeOK
<1>8. ProgressInv'
  <2>1. \A i \in Numbers : i > count => i # count
    BY DEF IInv, TypeOK, Numbers
  <2>2. QED
    BY <1>1, <1>2, <1>3, <1>5, <1>6, <2>1 DEF IInv, Coherence, ProgressInv, Fresh
<1>9. FitInv' /\ TraceInv'
  BY <1>1, <1>5, <1>6, <1>7 DEF IInv, Coherence, FitInv, TraceInv
<1>10. QED
  BY <1>4, <1>8, <1>9 DEF IInv, Coherence

\* An answer that has gone to the server changes nothing more.
LEMMA ReturnStep ==
  ASSUME IInv, Return
  PROVE  IInv'
<1>1. phase' = "idle" /\ phase' \in Phases
      /\ UNCHANGED <<count, nextLocalTraceId, request, trace, log, ran, answer>>
  BY DEF Return, Moves, Phases
<1>2. QED
  BY <1>1 DEF IInv, TypeOK, Coherence, ProgressInv, Fresh, FitInv, TraceInv,
              Answered, Received

\* Every step keeps the invariant.
LEMMA Steps == IInv /\ [Next]_vars => IInv'
<1> SUFFICES ASSUME IInv, [Next]_vars PROVE IInv'
  OBVIOUS
<1>1. CASE \E r \in Requests : Receive(r)
  BY <1>1, ReceiveStep
<1>2. CASE Refuse
  BY <1>2, RefuseStep
<1>3. CASE Route
  BY <1>3, RouteStep
<1>4. CASE AnswerDirectly
  BY <1>4, AnswerDirectlyStep
<1>5. CASE Execute
  BY <1>5, ExecuteStep
<1>6. CASE Return
  BY <1>6, ReturnStep
<1>7. CASE \E failed \in BOOLEAN : Executed(failed)
  BY <1>7, ExecutedStep
<1>8. CASE UNCHANGED vars
  BY <1>8 DEF vars, IInv, TypeOK, Coherence, ProgressInv, Fresh, FitInv, TraceInv,
              Answered, Received
<1>9. QED
  BY <1>1, <1>2, <1>3, <1>4, <1>5, <1>6, <1>7, <1>8 DEF Next

-----------------------------------------------------------------------------
(* Theorems *)

\* The invariant holds in every state.
THEOREM Invariance == Spec => []IInv
<1>1. Init => IInv
  BY InitHolds
<1>2. IInv /\ [Next]_vars => IInv'
  BY Steps
<1>3. QED
  BY <1>1, <1>2, PTL DEF Spec

\* Every variable of the request handling keeps its type.
THEOREM TypeCorrect == Spec => []TypeOK
<1>1. IInv => TypeOK
  BY DEF IInv
<1>2. QED
  BY <1>1, Invariance, PTL

\* Whatever is asked, and however its command ends: the status and the body
\* that HandleRequest answers with tell whether the command ran.
THEOREM AnswersTellExecution == Spec => []AnswerTellsExecution
<1>1. IInv => AnswerTellsExecution
  BY DEF IInv, Coherence, FitInv, Fits, Tells, AnswerTellsExecution
<1>2. QED
  BY <1>1, Invariance, PTL

\* Whatever its id, a message that HTTP does not refuse is answered with it; no
\* other message gets a result, and no answer carries the id of another message.
THEOREM AnswersMatchIds == Spec => []AnswerMatchesId
<1>1. IInv => AnswerMatchesId
  BY DEF IInv, Coherence, FitInv, Fits, Matches, AnswerMatchesId
<1>2. QED
  BY <1>1, Invariance, PTL

\* However many requests come in, those that BuildRequestTraceState gives the
\* same trace have the same JSON-RPC id.
THEOREM TracesApart == Spec => []TracesCorrelate
<1>1. IInv => TracesCorrelate
  <2> SUFFICES ASSUME IInv, NEW i \in Received, NEW j \in Received,
                      trace[i] = trace[j], i # j
               PROVE  /\ HasId(request[i]) /\ HasId(request[j])
                      /\ request[i].body.id = request[j].body.id
    BY DEF TracesCorrelate
  <2>1. HasId(request[i]) /\ HasId(request[j])
    BY DEF IInv, Coherence, TraceInv
  <2>2. trace[i] = <<"rpc", request[i].body.id>> /\ trace[j] = <<"rpc", request[j].body.id>>
    BY <2>1 DEF IInv, Coherence, TraceInv, TraceOf
  <2>3. \A x, y : <<"rpc", x>> = <<"rpc", y>> => x = y
    OBVIOUS
  <2>4. request[i].body.id = request[j].body.id
    BY <2>2, <2>3
  <2>5. QED
    BY <2>1, <2>4
<1>2. QED
  BY <1>1, Invariance, PTL

-----------------------------------------------------------------------------
(***************************************************************************)
(* The log of every request, for any requests and any number of them: its  *)
(* stages are complete and in order, and the outcome it shows is what the  *)
(* client was told and what became of the command.                         *)
(***************************************************************************)

(* Outcomes *)

\* An outcome o shown for an answer a to a request whose command became that.
OutcomeFits(o, a, became) ==
  o = "success" <=> a.status = 200 /\ a.body.kind = "result" /\ became # "failed"

\* An error or a refusal is not shown as a success.
LEMMA ErrorOutcome ==
  ASSUME NEW status \in {200, 400, 403, 404, 405}, NEW id \in Ids \cup {NullId},
         NEW code \in Int, NEW became
  PROVE  LET a == Reply(status, ErrorBody(id, code)) IN
           /\ OutcomeFits(RpcOutcome(a), a, became) /\ OutcomeFits("error", a, became)
<1> DEFINE a == Reply(status, ErrorBody(id, code))
<1>1. a.body = ErrorBody(id, code) /\ a.body.kind = "error"
  BY DEF Reply, ErrorBody
<1>2. a.body \in Bodies
  BY DEF Reply, ErrorBody, Bodies
<1>3. a.body # Absent
  BY <1>2, AnswerAssumption
<1> HIDE DEF a
<1>4. RpcOutcome(a) = "error"
  BY <1>1, <1>3 DEF RpcOutcome
<1>5. QED
  BY <1>1, <1>4 DEF OutcomeFits, a

\* An acceptance has no outcome to show, and none of the protocol's.
LEMMA AcceptedOutcome ==
  ASSUME NEW became
  PROVE  OutcomeFits(RpcOutcome(Accepted), Accepted, became)
<1>1. RpcOutcome(Accepted) = "none"
  BY AcceptedFields DEF RpcOutcome
<1>2. QED
  BY <1>1, AcceptedFields DEF OutcomeFits

\* A result is a success unless it tells that the command failed.
LEMMA ResultOutcome ==
  ASSUME NEW id \in Ids \cup {NullId}, NEW failed \in {TRUE, FALSE}, NEW became,
         failed = TRUE <=> became = "failed"
  PROVE  LET a == Reply(200, ResultBody(id, failed)) IN
           OutcomeFits(RpcOutcome(a), a, became)
<1> DEFINE a == Reply(200, ResultBody(id, failed))
<1>1. /\ a.status = 200 /\ a.body.kind = "result" /\ a.body.failed = failed
  BY ResultFields
<1>2. a.body \in Bodies
  <2>1. failed \in BOOLEAN
    OBVIOUS
  <2>2. QED
    BY <2>1 DEF Reply, ResultBody, Bodies
<1>3. a.body # Absent
  BY <1>2, AnswerAssumption
<1> HIDE DEF a
<1>4. RpcOutcome(a) = IF failed = TRUE THEN "error" ELSE "success"
  <2>1. CASE failed = TRUE
    BY <1>1, <1>3, <2>1 DEF RpcOutcome
  <2>2. CASE failed = FALSE
    BY <1>1, <1>3, <2>2 DEF RpcOutcome
  <2>3. QED
    BY <2>1, <2>2
<1>5. QED
  BY <1>1, <1>4 DEF OutcomeFits, a

\* The router's answer to a request whose command it did not run.
LEMMA DirectOutcome ==
  ASSUME NEW r \in HttpRequests, ~Executes(r)
  PROVE  LET a == HandleJsonRpcPost(r, FALSE) IN OutcomeFits(RpcOutcome(a), a, "no")
<1> DEFINE Fitting(a) == OutcomeFits(RpcOutcome(a), a, "no")
<1>1. \A status \in {200, 400}, id \in Ids \cup {NullId}, code \in Int :
        Fitting(Reply(status, ErrorBody(id, code)))
  BY ErrorOutcome
<1>2. Fitting(Accepted)
  BY AcceptedOutcome
<1>3. \A id \in Ids \cup {NullId} : Fitting(Reply(200, ResultBody(id, FALSE)))
  BY ResultOutcome
<1>4. CASE ~IsObject(r)
  <2> DEFINE e == Reply(400, ErrorBody(NullId, -32700))
  <2>1. HandleJsonRpcPost(r, FALSE) = e
    BY <1>4 DEF HandleJsonRpcPost
  <2>2. Fitting(e)
    BY <1>1
  <2> HIDE DEF e, Fitting
  <2>3. Fitting(HandleJsonRpcPost(r, FALSE))
    BY <2>1, <2>2
  <2>4. QED
    BY <2>3 DEF Fitting
<1>5. CASE IsObject(r)
  <2> DEFINE m == r.body
  <2>1. m.id \in Ids \cup {NullId, Absent}
    BY <1>5 DEF IsObject, HttpRequests, Messages
  <2>2. EchoedId(m) \in Ids \cup {NullId}
    BY <2>1 DEF EchoedId
  <2>3. ErrorCode(m) \in Int
    BY DEF ErrorCode
  <2>4. HandleJsonRpcPost(r, FALSE) \in {InvalidMessage(m), MethodAnswer(m, FALSE)}
    <3>1. HandleJsonRpcPost(r, FALSE)
            = IF ~Dispatched(r) THEN InvalidMessage(m) ELSE MethodAnswer(m, FALSE)
      BY <1>5 DEF HandleJsonRpcPost
    <3>2. QED
      BY <3>1
  <2>5. InvalidMessage(m) \in {Accepted, Reply(200, ErrorBody(EchoedId(m), -32600))}
    BY DEF InvalidMessage
  <2>6. \/ MethodAnswer(m, FALSE) = Reply(200, ErrorBody(EchoedId(m), ErrorCode(m)))
        \/ MethodAnswer(m, FALSE) = Accepted
        \/ m.id # Absent /\ MethodAnswer(m, FALSE) = Reply(200, ResultBody(m.id, FALSE))
    BY DEF MethodAnswer
  <2> HIDE DEF m, Fitting
  <2>7. Fitting(InvalidMessage(m))
    BY <1>1, <1>2, <2>2, <2>5
  <2>8. Fitting(MethodAnswer(m, FALSE))
    <3>1. Fitting(Reply(200, ErrorBody(EchoedId(m), ErrorCode(m))))
      BY <1>1, <2>2, <2>3
    <3>2. m.id # Absent => Fitting(Reply(200, ResultBody(m.id, FALSE)))
      BY <1>3, <2>1
    <3>3. QED
      BY <1>2, <2>6, <3>1, <3>2
  <2>9. Fitting(HandleJsonRpcPost(r, FALSE))
    BY <2>4, <2>7, <2>8
  <2>10. QED
    BY <2>9 DEF Fitting
<1>6. QED
  BY <1>4, <1>5

\* The answer to a command that ran.
LEMMA ExecutedOutcome ==
  ASSUME NEW r \in HttpRequests, Executes(r), NEW failed \in {TRUE, FALSE}, NEW became,
         failed = TRUE <=> became = "failed"
  PROVE  LET a == HandleJsonRpcPost(r, failed) IN OutcomeFits(RpcOutcome(a), a, became)
<1>1. IsObject(r) /\ Dispatched(r)
  BY DEF Executes, Dispatched
<1>2. ErrorCode(r.body) = 0
  BY DEF Executes, IsToolsCall, ErrorCode, FixedResults
<1>3. r.body.id \in Ids \cup {NullId, Absent}
  BY <1>1 DEF IsObject, HttpRequests, Messages
<1>4. HandleJsonRpcPost(r, failed)
        = IF r.body.id = Absent THEN Accepted ELSE Reply(200, ResultBody(r.body.id, failed))
  BY <1>1, <1>2 DEF HandleJsonRpcPost, MethodAnswer
<1>5. CASE r.body.id = Absent
  BY <1>4, <1>5, AcceptedOutcome
<1>6. CASE r.body.id # Absent
  <2> DEFINE id == r.body.id
             a == Reply(200, ResultBody(id, failed))
  <2>1. id \in Ids \cup {NullId}
    BY <1>3, <1>6
  <2>2. HandleJsonRpcPost(r, failed) = a
    BY <1>4, <1>6
  <2> HIDE DEF id
  <2>3. OutcomeFits(RpcOutcome(a), a, became)
    BY <2>1, ResultOutcome, ZenonT(40)
  <2> HIDE DEF a
  <2>4. QED
    BY <2>2, <2>3
<1>7. QED
  BY <1>5, <1>6

-----------------------------------------------------------------------------
(* Lines *)

\* The log of a request that has been received, of one that has been routed,
\* and of one that has been answered with the outcome o.
ReceivedLog(l) == Len(l) = 1 /\ l[1].stage = "request_received"

RoutedLog(l, r) ==
  /\ Len(l) = IF IsToolsCall(r) THEN 3 ELSE 2
  /\ l[1].stage = "request_received" /\ l[2].stage = "route_dispatch"
  /\ Len(l) = 3 => l[3].stage = "tool_execute_start"

AnsweredLog(l, o) ==
  /\ Len(l) \in {2, 3, 5}
  /\ l[1].stage = "request_received"
  /\ l[Len(l)].stage = "response_sent" /\ l[Len(l)].outcome = o
  /\ Len(l) > 2 => l[2].stage = "route_dispatch"
  /\ Len(l) = 5 => /\ l[3].stage = "tool_execute_start"
                   /\ l[4].stage = "tool_execute_end" /\ l[4].outcome = o

\* What an echo is.
LEMMA EchoLine ==
  ASSUME NEW stage \in Stages, NEW outcome \in Outcomes
  PROVE  LET e == Echo(stage, outcome) IN
           e \in Seq(Echoes) /\ Len(e) = 1 /\ e[1].stage = stage /\ e[1].outcome = outcome
<1> DEFINE line == [stage |-> stage, outcome |-> outcome]
<1>1. line \in Echoes /\ line.stage = stage /\ line.outcome = outcome
  BY DEF Echoes
<1>2. Echo(stage, outcome) = <<line>>
  BY DEF Echo
<1> DEFINE e == <<line>>
<1> HIDE DEF line
<1>3. e \in Seq(Echoes) /\ Len(e) = 1 /\ e[1] = line
  BY <1>1
<1> HIDE DEF e
<1>4. e \in Seq(Echoes) /\ Len(e) = 1 /\ e[1].stage = stage /\ e[1].outcome = outcome
  BY <1>1, <1>3
<1>5. QED
  BY <1>2, <1>4 DEF e

\* t is l with one line more.
OneLonger(l, t, stage, outcome) ==
  /\ t \in Seq(Echoes) /\ Len(t) = Len(l) + 1
  /\ \A j \in 1..Len(l) : t[j] = l[j]
  /\ t[Len(l) + 1].stage = stage /\ t[Len(l) + 1].outcome = outcome

\* An echo adds its line.
LEMMA OneMore ==
  ASSUME NEW l \in Seq(Echoes), NEW stage \in Stages, NEW outcome \in Outcomes
  PROVE  OneLonger(l, l \o Echo(stage, outcome), stage, outcome)
<1> DEFINE e == Echo(stage, outcome)
           t == l \o e
<1>1. e \in Seq(Echoes) /\ Len(e) = 1 /\ e[1].stage = stage /\ e[1].outcome = outcome
  BY EchoLine
<1> HIDE DEF e
<1>2. /\ t \in Seq(Echoes) /\ Len(t) = Len(l) + Len(e)
      /\ \A j \in 1..Len(l) + Len(e) : t[j] = IF j <= Len(l) THEN l[j] ELSE e[j - Len(l)]
  BY <1>1, ConcatProperties
<1> HIDE DEF t
<1>3. Len(l) \in Nat
  OBVIOUS
<1>4. t[Len(l) + 1] = e[1]
  BY <1>1, <1>2, <1>3
<1>5. OneLonger(l, t, stage, outcome)
  BY <1>1, <1>2, <1>3, <1>4 DEF OneLonger
<1>6. QED
  BY <1>5 DEF t, e

\* The lines there are.
LEMMA Lines ==
  /\ {"request_received", "route_dispatch", "tool_execute_start", "tool_execute_end",
      "response_sent"} \subseteq Stages
  /\ {"in_progress", "error"} \subseteq Outcomes
  BY DEF Stages, Outcomes

\* Route adds route_dispatch, and tool_execute_start for a call.
LEMMA RouteLog ==
  ASSUME NEW l \in Seq(Echoes), ReceivedLog(l), NEW r
  PROVE  RoutedLog(l \o Echo("route_dispatch", "in_progress")
                     \o (IF IsToolsCall(r) THEN Echo("tool_execute_start", "in_progress")
                         ELSE <<>>), r)
<1> DEFINE m == l \o Echo("route_dispatch", "in_progress")
           t == m \o Echo("tool_execute_start", "in_progress")
<1>1. OneLonger(l, m, "route_dispatch", "in_progress")
  BY OneMore, Lines
<1>2. m \in Seq(Echoes)
  BY <1>1 DEF OneLonger
<1> HIDE DEF m
<1>3. Len(m) = 2 /\ m[1].stage = "request_received" /\ m[2].stage = "route_dispatch"
  BY <1>1 DEF ReceivedLog, OneLonger
<1>4. OneLonger(m, t, "tool_execute_start", "in_progress")
  BY <1>2, OneMore, Lines
<1> HIDE DEF t
<1>5. IsToolsCall(r) => RoutedLog(t, r)
  BY <1>3, <1>4 DEF RoutedLog, OneLonger
<1>6. ~IsToolsCall(r) => RoutedLog(m, r)
  BY <1>3 DEF RoutedLog
<1>7. CASE IsToolsCall(r)
  BY <1>5, <1>7 DEF m, t
<1>8. CASE ~IsToolsCall(r)
  <2>1. m \o <<>> = m
    BY <1>2, ConcatEmptySeq
  <2>2. QED
    BY <1>6, <1>8, <2>1 DEF m
<1>9. QED
  BY <1>7, <1>8

\* AnswerEchoes adds tool_execute_end for a call, and response_sent.
LEMMA AnswerLog ==
  ASSUME NEW l \in Seq(Echoes), NEW r, RoutedLog(l, r), NEW a
  PROVE  AnsweredLog(l \o AnswerEchoes(r, a), RpcOutcome(a))
<1> DEFINE o == RpcOutcome(a)
           sent == Echo("response_sent", o)
           end == Echo("tool_execute_end", o)
           m == l \o end
<1>1. o \in Outcomes
  BY DEF RpcOutcome, Outcomes
<1> HIDE DEF o
<1>2. sent \in Seq(Echoes) /\ end \in Seq(Echoes)
  BY <1>1, EchoLine, Lines
<1>3. CASE IsToolsCall(r)
  <2> DEFINE t == m \o sent
  <2>1. OneLonger(l, m, "tool_execute_end", o)
    BY <1>1, OneMore, Lines
  <2>2. m \in Seq(Echoes)
    BY <2>1 DEF OneLonger
  <2>3. OneLonger(m, t, "response_sent", o)
    <3> HIDE DEF m
    <3>1. QED
      BY <1>1, <2>2, OneMore, Lines
  <2>4. l \o AnswerEchoes(r, a) = t
    <3>1. AnswerEchoes(r, a) = end \o sent
      BY <1>3 DEF AnswerEchoes, o
    <3> HIDE DEF end, sent
    <3>2. (l \o end) \o sent = l \o (end \o sent)
      BY <1>2, ConcatAssociative
    <3>3. QED
      BY <3>1, <3>2, Zenon
  <2> HIDE DEF m, t
  <2>5. /\ Len(l) = 3 /\ l[1].stage = "request_received" /\ l[2].stage = "route_dispatch"
        /\ l[3].stage = "tool_execute_start"
    BY <1>3 DEF RoutedLog
  <2>6. /\ Len(t) = 5 /\ t[1] = l[1] /\ t[2] = l[2] /\ t[3] = l[3] /\ t[4] = m[4]
        /\ m[4].stage = "tool_execute_end" /\ m[4].outcome = o
        /\ t[5].stage = "response_sent" /\ t[5].outcome = o
    BY <2>1, <2>3, <2>5 DEF OneLonger
  <2>7. AnsweredLog(t, o)
    BY <2>5, <2>6 DEF AnsweredLog
  <2>8. QED
    BY <2>4, <2>7, Zenon DEF o
<1>4. CASE ~IsToolsCall(r)
  <2> DEFINE t == l \o sent
  <2>1. OneLonger(l, t, "response_sent", o)
    BY <1>1, OneMore, Lines
  <2>2. l \o AnswerEchoes(r, a) = t
    <3>1. AnswerEchoes(r, a) = <<>> \o sent
      BY <1>4 DEF AnswerEchoes, o
    <3> HIDE DEF sent
    <3>2. <<>> \o sent = sent
      BY <1>2, ConcatEmptySeq
    <3>3. QED
      BY <3>1, <3>2, Zenon
  <2> HIDE DEF t
  <2>3. Len(l) = 2 /\ l[1].stage = "request_received" /\ l[2].stage = "route_dispatch"
    BY <1>4 DEF RoutedLog
  <2>4. /\ Len(t) = 3 /\ t[1] = l[1] /\ t[2] = l[2]
        /\ t[3].stage = "response_sent" /\ t[3].outcome = o
    BY <2>1, <2>3 DEF OneLonger
  <2>5. AnsweredLog(t, o)
    BY <2>3, <2>4 DEF AnsweredLog
  <2>6. QED
    BY <2>2, <2>5, Zenon DEF o
<1>5. QED
  BY <1>3, <1>4

\* Refuse adds response_sent alone.
LEMMA RefusedLog ==
  ASSUME NEW l \in Seq(Echoes), ReceivedLog(l)
  PROVE  AnsweredLog(l \o Echo("response_sent", "error"), "error")
<1> DEFINE t == l \o Echo("response_sent", "error")
<1>1. OneLonger(l, t, "response_sent", "error")
  BY OneMore, Lines
<1> HIDE DEF t
<1>2. AnsweredLog(t, "error")
  BY <1>1 DEF ReceivedLog, OneLonger, AnsweredLog
<1>3. QED
  BY <1>2 DEF t

-----------------------------------------------------------------------------
(* The invariant *)

\* The log of an answered request: none for another path, or its lines.
LogFits(l, a, became) ==
  l = <<>> \/ \E o \in Outcomes : AnsweredLog(l, o) /\ OutcomeFits(o, a, became)

\* Every request before the current one is answered and its log complete;
\* where the current one is tells how far its log is, and later ones have none.
LogInv ==
  /\ \A i \in Received : answer[i] # Absent => LogFits(log[i], answer[i], ran[i])
  /\ \A i \in Received : answer[i] = Absent =>
       i = count /\ phase \in {"received", "dispatch", "executing"}
  /\ phase = "received" => ReceivedLog(log[count])
  /\ phase \in {"dispatch", "executing"} => RoutedLog(log[count], request[count])
  /\ \A i \in Numbers : i > count => log[i] = <<>>

\* The requests received so far.
LEMMA ReceivedNumbers ==
  IInv => Received \subseteq Numbers /\ count \in Nat /\ \A i \in Received : i <= count
  BY RequestAssumption DEF IInv, TypeOK, Received, Numbers

\* The current request is answered and its log ended.
LEMMA AnswerEnds ==
  ASSUME IInv, LogInv, count \in Numbers, phase' = "answered",
         NEW a, a # Absent, NEW became, NEW l, LogFits(l, a, became),
         answer' = [answer EXCEPT ![count] = a],
         ran' = [ran EXCEPT ![count] = became],
         log' = [log EXCEPT ![count] = l],
         UNCHANGED <<count, request>>
  PROVE  LogInv'
<1>1. Received' = Received
  BY DEF Received
<1>2. /\ answer'[count] = a /\ ran'[count] = became /\ log'[count] = l
      /\ \A i \in Numbers \ {count} :
           answer'[i] = answer[i] /\ ran'[i] = ran[i] /\ log'[i] = log[i]
  BY DEF IInv, TypeOK
<1>3. ASSUME NEW i \in Received
      PROVE  answer'[i] # Absent /\ LogFits(log'[i], answer'[i], ran'[i])
  <2>1. CASE i = count
    BY <1>2, <2>1
  <2>2. CASE i # count
    BY <1>2, <2>2, ReceivedNumbers DEF LogInv
  <2>3. QED
    BY <2>1, <2>2
<1>4. ASSUME NEW i \in Numbers, i > count PROVE log'[i] = <<>>
  <2>1. i # count
    BY <1>4, ReceivedNumbers
  <2>2. QED
    BY <1>2, <1>4, <2>1 DEF LogInv
<1>5. QED
  BY <1>1, <1>3, <1>4 DEF LogInv

\* A request comes in: its log begins, or it is answered without one.
LEMMA ReceiveLog ==
  ASSUME IInv, LogInv, NEW r \in Requests, Receive(r)
  PROVE  LogInv'
<1>1. count \in Nat /\ count + 1 \in Numbers /\ count' = count + 1 /\ ran' = ran
  BY RequestAssumption DEF IInv, TypeOK, Receive, Numbers
<1>2. /\ Received' = Received \cup {count + 1} /\ Received \subseteq Numbers
      /\ count + 1 \notin Received
  BY <1>1, RequestAssumption DEF Received, Numbers
<1>3. phase = "idle" /\ \A i \in Received : answer[i] # Absent
  BY DEF Receive, Moves, LogInv
<1>4. log[count + 1] = <<>> /\ answer[count + 1] = Absent
  BY <1>1 DEF LogInv, IInv, Coherence, ProgressInv, Fresh, Numbers
<1>5. CASE r.path = "/mcp"
  <2> DEFINE l == Echo("request_received", "in_progress")
  <2>1. /\ phase' = "received" /\ answer' = answer
        /\ log' = [log EXCEPT ![count + 1] = l]
    BY <1>1, <1>5 DEF Receive, Moves
  <2>2. ReceivedLog(l)
    BY EchoLine, Lines DEF ReceivedLog
  <2> HIDE DEF l
  <2>3. log'[count + 1] = l /\ \A i \in Numbers \ {count + 1} : log'[i] = log[i]
    BY <1>1, <2>1 DEF IInv, TypeOK
  <2>4. \A i \in Received : LogFits(log'[i], answer'[i], ran'[i])
    BY <1>1, <1>2, <1>3, <2>1, <2>3 DEF LogInv
  <2>5. \A i \in Numbers : i > count + 1 => log'[i] = <<>>
    BY <1>1, <2>3 DEF LogInv, Numbers
  <2>6. QED
    BY <1>1, <1>2, <1>3, <1>4, <2>1, <2>2, <2>3, <2>4, <2>5 DEF LogInv
<1>6. CASE r.path # "/mcp"
  <2> DEFINE a == Reply(404, PlainBody)
  <2>1. /\ phase' = "answered" /\ log' = log
        /\ answer' = [answer EXCEPT ![count + 1] = a]
    BY <1>1, <1>6 DEF Receive, Moves
  <2>2. a \in Responses
    BY <1>1, RequestAssumption, AnswerTypes
  <2>3. a # Absent
    BY <2>2, AnswerAssumption
  <2> HIDE DEF a
  <2>4. answer'[count + 1] = a /\ \A i \in Numbers \ {count + 1} : answer'[i] = answer[i]
    BY <1>1, <2>1 DEF IInv, TypeOK
  <2>5. \A i \in Received : LogFits(log'[i], answer'[i], ran'[i]) /\ answer'[i] # Absent
    BY <1>1, <1>2, <1>3, <2>1, <2>4 DEF LogInv
  <2>6. LogFits(log'[count + 1], answer'[count + 1], ran'[count + 1])
    BY <1>4, <2>1 DEF LogFits
  <2>7. \A i \in Numbers : i > count + 1 => log'[i] = <<>>
    BY <1>1, <2>1 DEF LogInv, Numbers
  <2>8. QED
    BY <1>1, <1>2, <2>1, <2>3, <2>4, <2>5, <2>6, <2>7 DEF LogInv
<1>7. QED
  BY <1>5, <1>6

\* A refusal is echoed as an error.
LEMMA RefuseLog ==
  ASSUME IInv, LogInv, Refuse
  PROVE  LogInv'
<1> DEFINE a == Refusal(request[count])
           l == log[count] \o Echo("response_sent", "error")
<1>1. phase = "received" /\ phase' = "answered"
  BY DEF Refuse, Moves
<1>2. count \in Numbers /\ request[count] \in HttpRequests
  BY <1>1, CurrentRequest
<1>3. ran' = [ran EXCEPT ![count] = "no"]
  BY <1>1, <1>2 DEF Refuse, IInv, TypeOK, Coherence, ProgressInv, Fresh
<1>4. a # Absent
  BY <1>2, AnswerTypes, AnswerAssumption
<1>5. LogFits(l, a, "no")
  <2>1. AnsweredLog(l, "error")
    BY <1>1, <1>2, RefusedLog DEF LogInv, IInv, TypeOK
  <2>2. a.status # 200
    BY DEF Refusal, Reply
  <2>3. OutcomeFits("error", a, "no")
    BY <2>2 DEF OutcomeFits
  <2> HIDE DEF a, l
  <2>4. QED
    BY <2>1, <2>3, Lines DEF LogFits
<1>6. /\ answer' = [answer EXCEPT ![count] = a] /\ log' = [log EXCEPT ![count] = l]
      /\ UNCHANGED <<count, request>>
  BY DEF Refuse
<1> HIDE DEF a, l
<1>7. QED
  BY <1>1, <1>2, <1>3, <1>4, <1>5, <1>6, AnswerEnds

\* What the router answers is echoed with its outcome.
LEMMA AnswersLog ==
  ASSUME IInv, LogInv, phase \in {"dispatch", "executing"}, phase' = "answered",
         NEW failed \in {TRUE, FALSE}, Answers(failed), NEW became,
         ran' = [ran EXCEPT ![count] = became], UNCHANGED <<count, request>>,
         LET a == HandleJsonRpcPost(request[count], failed) IN OutcomeFits(RpcOutcome(a), a, became)
  PROVE  LogInv'
<1> DEFINE r == request[count]
           a == HandleJsonRpcPost(r, failed)
           l == log[count] \o AnswerEchoes(r, a)
<1>1. count \in Numbers /\ r \in HttpRequests
  BY CurrentRequest
<1>2. a \in Responses
  BY <1>1, AnswerTypes
<1>3. a # Absent
  BY <1>2, AnswerAssumption
<1>4. answer' = [answer EXCEPT ![count] = a] /\ log' = [log EXCEPT ![count] = l]
  BY DEF Answers
<1>5. OutcomeFits(RpcOutcome(a), a, became)
  OBVIOUS
<1>6. AnsweredLog(l, RpcOutcome(a))
  <2>1. log[count] \in Seq(Echoes) /\ RoutedLog(log[count], r)
    BY <1>1 DEF IInv, TypeOK, LogInv
  <2>2. QED
    BY <2>1, AnswerLog
<1> HIDE DEF a, l
<1>7. RpcOutcome(a) \in Outcomes
  BY DEF RpcOutcome, Outcomes
<1>8. LogFits(l, a, became)
  BY <1>5, <1>6, <1>7 DEF LogFits
<1>9. QED
  BY <1>1, <1>3, <1>4, <1>8, AnswerEnds

\* Every step keeps the logs.
LEMMA LogStep == IInv /\ LogInv /\ [Next]_vars => LogInv'
<1> SUFFICES ASSUME IInv, LogInv, [Next]_vars PROVE LogInv'
  OBVIOUS
<1>1. CASE \E r \in Requests : Receive(r)
  BY <1>1, ReceiveLog
<1>2. CASE Refuse
  BY <1>2, RefuseLog
<1>3. CASE Route
  <2>1. phase = "received" /\ phase' = "dispatch" /\ UNCHANGED <<count, request, ran, answer>>
    BY <1>3 DEF Route, Moves
  <2>2. count \in Numbers
    BY <2>1, CurrentRequest
  <2> DEFINE l == log[count] \o Echo("route_dispatch", "in_progress")
                    \o (IF IsToolsCall(request[count])
                        THEN Echo("tool_execute_start", "in_progress") ELSE <<>>)
  <2>3. log' = [log EXCEPT ![count] = l]
    BY <1>3 DEF Route
  <2>4. RoutedLog(l, request[count])
    <3>1. log[count] \in Seq(Echoes) /\ ReceivedLog(log[count])
      BY <2>1, <2>2 DEF IInv, TypeOK, LogInv
    <3>2. QED
      BY <3>1, RouteLog
  <2> HIDE DEF l
  <2>5. log'[count] = l /\ \A i \in Numbers \ {count} : log'[i] = log[i]
    BY <2>2, <2>3 DEF IInv, TypeOK
  <2>6. answer[count] = Absent /\ Received' = Received
    BY <2>1 DEF IInv, Coherence, ProgressInv, Fresh, Received
  <2>7. \A i \in Numbers : i > count => log'[i] = <<>>
    BY <2>5, ReceivedNumbers DEF LogInv
  <2>8. \A i \in Received : answer[i] # Absent => log'[i] = log[i]
    BY <2>5, <2>6, ReceivedNumbers
  <2>9. QED
    BY <2>1, <2>4, <2>5, <2>6, <2>7, <2>8 DEF LogInv
<1>4. CASE AnswerDirectly
  <2>1. /\ phase = "dispatch" /\ phase' = "answered" /\ ~Executes(request[count])
        /\ Answers(FALSE) /\ UNCHANGED <<count, request, ran>>
    BY <1>4 DEF AnswerDirectly, Moves
  <2>2. count \in Numbers /\ request[count] \in HttpRequests
    BY <2>1, CurrentRequest
  <2>3. ran' = [ran EXCEPT ![count] = "no"]
    BY <2>1, <2>2 DEF IInv, TypeOK, Coherence, ProgressInv, Fresh
  <2>4. LET a == HandleJsonRpcPost(request[count], FALSE) IN OutcomeFits(RpcOutcome(a), a, "no")
    BY <2>1, <2>2, DirectOutcome
  <2>5. QED
    BY <2>1, <2>3, <2>4, AnswersLog
<1>5. CASE Execute
  <2>1. /\ phase = "dispatch" /\ phase' = "executing"
        /\ ran' = [ran EXCEPT ![count] = "running"]
        /\ UNCHANGED <<count, request, log, answer>>
    BY <1>5 DEF Execute, Moves
  <2>2. answer[count] = Absent /\ Received' = Received
    BY <2>1 DEF IInv, Coherence, ProgressInv, Fresh, Received
  <2>3. \A i \in Received : answer[i] # Absent => ran'[i] = ran[i]
    BY <2>1, <2>2, ReceivedNumbers DEF IInv, TypeOK
  <2>4. QED
    BY <2>1, <2>2, <2>3 DEF LogInv
<1>6. ASSUME NEW failed \in BOOLEAN, Executed(failed) PROVE LogInv'
  <2> DEFINE became == IF failed THEN "failed" ELSE "ok"
  <2>1. /\ phase = "executing" /\ phase' = "answered" /\ Answers(failed)
        /\ ran' = [ran EXCEPT ![count] = became] /\ UNCHANGED <<count, request>>
    BY <1>6 DEF Executed, Moves
  <2>2. request[count] \in HttpRequests /\ Executes(request[count])
    BY <2>1, CurrentRequest DEF IInv, Coherence, ProgressInv
  <2>3. failed \in {TRUE, FALSE} /\ (failed = TRUE <=> became = "failed")
    BY <1>6
  <2> HIDE DEF became
  <2>4. LET a == HandleJsonRpcPost(request[count], failed) IN OutcomeFits(RpcOutcome(a), a, became)
    BY <2>2, <2>3, ExecutedOutcome
  <2>5. QED
    BY <2>1, <2>3, <2>4, AnswersLog
<1>7. CASE Return
  <2>1. /\ phase = "answered" /\ phase' = "idle"
        /\ UNCHANGED <<count, request, ran, log, answer>>
    BY <1>7 DEF Return, Moves
  <2>2. QED
    BY <2>1 DEF LogInv, Received
<1>8. CASE UNCHANGED vars
  BY <1>8 DEF vars, LogInv, Received
<1>9. QED
  BY <1>1, <1>2, <1>3, <1>4, <1>5, <1>6, <1>7, <1>8 DEF Next

-----------------------------------------------------------------------------
(* Theorems *)

\* The logs are as they should be in every state.
LEMMA LogsKept == Spec => [](IInv /\ LogInv)
<1>1. Init => LogInv
  <2> SUFFICES ASSUME Init PROVE LogInv
    OBVIOUS
  <2>1. Received = {}
    BY DEF Init, Received
  <2>2. QED
    BY <2>1 DEF Init, LogInv
<1>2. QED
  BY <1>1, LogStep, Invariance, PTL DEF Spec

\* However the command ended and whatever was asked, the last line of the log
\* shows a success exactly if the client was told of one, and
\* tool_execute_end shows the same.
THEOREM LogsTellOutcome == Spec => []LogTellsOutcome
<1>1. IInv /\ LogInv => LogTellsOutcome
  <2> SUFFICES ASSUME IInv, LogInv, NEW i \in Answered, log[i] # <<>>
               PROVE  /\ Shown(i) = "success" <=>
                           answer[i].status = 200 /\ answer[i].body.kind = "result"
                             /\ ran[i] # "failed"
                      /\ ran[i] = "failed" => Shown(i) # "success"
                      /\ \A j \in 1..Len(log[i]) :
                           log[i][j].stage = "tool_execute_end" => log[i][j].outcome = Shown(i)
    BY DEF LogTellsOutcome
  <2> DEFINE l == log[i]
  <2>1. PICK o \in Outcomes : AnsweredLog(l, o) /\ OutcomeFits(o, answer[i], ran[i])
    BY DEF Answered, LogInv, LogFits
  <2>2. Shown(i) = o
    BY <2>1 DEF Shown, AnsweredLog
  <2>3. ASSUME NEW j \in 1..Len(l), l[j].stage = "tool_execute_end" PROVE l[j].outcome = o
    <3>1. Len(l) \in {2, 3, 5}
      BY <2>1 DEF AnsweredLog
    <3> HIDE DEF l
    <3>2. j \in {1, 2, 3, 4, 5} /\ j <= Len(l)
      BY <2>3, <3>1
    <3>3. QED
      BY <2>1, <2>3, <3>1, <3>2 DEF AnsweredLog
  <2>4. QED
    BY <2>1, <2>2, <2>3 DEF OutcomeFits
<1>2. QED
  BY <1>1, LogsKept, PTL

\* The stages of a log.
StagesIn(l) == [j \in 1..Len(l) |-> l[j].stage]

\* As a list, for the lengths a complete log may have: a refused request's,
LEMMA TwoStages ==
  ASSUME NEW l, NEW a, NEW b, Len(l) = 2, l[1].stage = a, l[2].stage = b
  PROVE  StagesIn(l) = <<a, b>>
  BY DEF StagesIn
\* that of a message which is no call,
LEMMA ThreeStages ==
  ASSUME NEW l, NEW a, NEW b, NEW c, Len(l) = 3,
         l[1].stage = a, l[2].stage = b, l[3].stage = c
  PROVE  StagesIn(l) = <<a, b, c>>
  BY DEF StagesIn
\* and a call's.
LEMMA FiveStages ==
  ASSUME NEW l, NEW a, NEW b, NEW c, NEW d, NEW e, Len(l) = 5, l[1].stage = a,
         l[2].stage = b, l[3].stage = c, l[4].stage = d, l[5].stage = e
  PROVE  StagesIn(l) = <<a, b, c, d, e>>
  BY DEF StagesIn

\* The path of a call, of which every log that is not complete is a beginning.
CallPath == <<"request_received", "route_dispatch", "tool_execute_start",
              "tool_execute_end", "response_sent">>

\* A log is a beginning of it if its stages are, one by one.
LEMMA Beginning ==
  ASSUME NEW l, Len(l) \in {1, 2, 3}, \A j \in 1..Len(l) : l[j].stage = CallPath[j]
  PROVE  StagesIn(l) = SubSeq(CallPath, 1, Len(l))
<1>1. CallPath \in Seq(Stages) /\ Len(CallPath) = 5
  <2>1. \A a, b, c, d, e \in Stages : <<a, b, c, d, e>> \in Seq(Stages)
    OBVIOUS
  <2>2. \A a, b, c, d, e : Len(<<a, b, c, d, e>>) = 5
    OBVIOUS
  <2>3. QED
    BY <2>1, <2>2, Lines DEF CallPath
<1> DEFINE s == SubSeq(CallPath, 1, Len(l))
<1>2. /\ s \in Seq(Stages) /\ Len(s) = Len(l)
      /\ \A j \in 1..Len(l) : s[j] = CallPath[j]
  <2>1. /\ s \in Seq(Stages) /\ Len(s) = IF 1 <= Len(l) THEN Len(l) - 1 + 1 ELSE 0
        /\ \A j \in 1..Len(l) - 1 + 1 : s[j] = CallPath[1 + j - 1]
    BY <1>1, SubSeqProperties
  <2> HIDE DEF s
  <2>2. QED
    BY <2>1
<1> HIDE DEF s
<1>3. s = [j \in 1..Len(l) |-> s[j]]
  BY <1>2
<1>4. s = StagesIn(l)
  BY <1>2, <1>3 DEF StagesIn
<1>5. QED
  BY <1>4 DEF s

\* Every request leaves a complete path of stages: a tool_execute_start is
\* followed by its tool_execute_end, and nothing comes after the answer.
THEOREM LogsComplete == Spec => []StagesComplete
<1>1. IInv /\ LogInv => StagesComplete
  <2> SUFFICES ASSUME IInv, LogInv, NEW i \in Received
               PROVE  IF i \in Answered THEN StagesIn(log[i]) \in Paths
                      ELSE \E p \in Paths :
                             /\ Len(StagesIn(log[i])) < Len(p)
                             /\ StagesIn(log[i]) = SubSeq(p, 1, Len(StagesIn(log[i])))
    BY DEF StagesComplete, StagesOf, StagesIn
  <2> DEFINE l == log[i]
  <2>1. CASE i \in Answered
    <3>1. LogFits(l, answer[i], ran[i])
      BY <2>1 DEF Answered, LogInv
    <3> HIDE DEF l
    <3>2. CASE l = <<>>
      <4>1. StagesIn(l) = <<>>
        BY <3>2 DEF StagesIn
      <4>2. QED
        BY <2>1, <4>1 DEF Paths, l
    <3>3. ASSUME NEW o, AnsweredLog(l, o) PROVE StagesIn(l) \in Paths
      <4>1. CASE Len(l) = 2
        <5>1. StagesIn(l) = <<"request_received", "response_sent">>
          BY <3>3, <4>1, TwoStages DEF AnsweredLog
        <5>2. QED
          BY <5>1 DEF Paths
      <4>2. CASE Len(l) = 3
        <5>1. StagesIn(l) = <<"request_received", "route_dispatch", "response_sent">>
          BY <3>3, <4>2, ThreeStages DEF AnsweredLog
        <5>2. QED
          BY <5>1 DEF Paths
      <4>3. CASE Len(l) = 5
        <5>1. StagesIn(l) = CallPath
          BY <3>3, <4>3, FiveStages DEF AnsweredLog, CallPath
        <5>2. QED
          BY <5>1 DEF Paths, CallPath
      <4>4. QED
        BY <3>3, <4>1, <4>2, <4>3 DEF AnsweredLog
    <3>4. QED
      BY <2>1, <3>1, <3>2, <3>3 DEF LogFits, l
  <2>2. CASE i \notin Answered
    <3>1. /\ i = count /\ phase \in {"received", "dispatch", "executing"}
          /\ phase = "received" => ReceivedLog(l)
          /\ phase # "received" => RoutedLog(l, request[i])
      BY <2>2 DEF Answered, LogInv
    <3> HIDE DEF l
    <3>2. /\ Len(l) \in {1, 2, 3} /\ l[1].stage = "request_received"
          /\ Len(l) > 1 => l[2].stage = "route_dispatch"
          /\ Len(l) = 3 => l[3].stage = "tool_execute_start"
      BY <3>1 DEF ReceivedLog, RoutedLog
    <3>3. Len(l) < 5 /\ \A j \in 1..Len(l) : j \in {1, 2, 3} /\ j <= Len(l)
      <4>1. \A n \in {1, 2, 3} : n < 5 /\ \A j \in 1..n : j \in {1, 2, 3} /\ j <= n
        OBVIOUS
      <4>2. QED
        BY <3>2, <4>1, Zenon
    <3>4. StagesIn(l) = SubSeq(CallPath, 1, Len(l))
      <4>1. ASSUME NEW j \in 1..Len(l) PROVE l[j].stage = CallPath[j]
        <5>1. j \in {1, 2, 3} /\ j <= Len(l)
          BY <3>3
        <5>2. QED
          BY <3>2, <5>1 DEF CallPath
      <4>2. QED
        BY <3>2, <4>1, Beginning
    <3>5. Len(StagesIn(l)) = Len(l)
      BY <3>2 DEF StagesIn
    <3>6. CallPath \in Paths
      BY DEF CallPath, Paths
    <3>7. Len(l) < Len(CallPath)
      <4>1. Len(CallPath) = 5
        BY DEF CallPath
      <4>2. QED
        BY <3>3, <4>1
    <3>8. QED
      BY <2>2, <3>4, <3>5, <3>6, <3>7 DEF l
  <2>3. QED
    BY <2>1, <2>2
<1>2. QED
  BY <1>1, LogsKept, PTL
=============================================================================
