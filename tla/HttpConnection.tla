----------------------------- MODULE HttpConnection -----------------------------
(***************************************************************************)
(* The worker with one connection: ReceiveRequest, the handler, and the    *)
(* answer sent in whatever pieces send takes, until the connection closes. *)
(* What the handler answers is McpRequest's; here it is any response.      *)
(***************************************************************************)
EXTENDS HttpReceive

CONSTANTS
  Responses,   \* what the handler returns: [status, has_body, body]
  SendSizes    \* how much one send takes, if there is as much left

VARIABLES
  response,    \* the HttpResponse, or None
  wire,        \* what has been sent of it
  connection   \* "open", or how it was closed: "sent" or "broken"

connectionVars == <<input, received, headerEnd, contentLength, result,
                    response, wire, connection>>

None == [status |-> 0, has_body |-> FALSE, body |-> <<>>]

ConnectionInit ==
  /\ Init
  /\ response = None
  /\ wire = <<>>
  /\ connection = "open"

-----------------------------------------------------------------------------
(* BuildHttpResponseText *)

LengthLine(r) == [name |-> "content-length", value |-> IF r.has_body THEN Len(r.body) ELSE 0]

StatusLine(r) == [name |-> "status", value |-> r.status]
OtherLine(name) == [name |-> name, value |-> 0]

ResponseHeader(r) ==
  IF r.has_body
  THEN <<StatusLine(r), OtherLine("connection"), OtherLine("content-type"), LengthLine(r)>>
  ELSE <<StatusLine(r), OtherLine("connection"), LengthLine(r)>>

BuildHttpResponseText(r) ==
  FlattenSeq([i \in 1..Len(ResponseHeader(r)) |-> <<ResponseHeader(r)[i], CR, LF>>])
  \o <<CR, LF>> \o (IF r.has_body THEN r.body ELSE <<>>)

-----------------------------------------------------------------------------
(* The worker *)

Receive ==
  /\ Next
  /\ UNCHANGED <<response, wire, connection>>

\* The handler's response, or 400 for what ReceiveRequest rejected.
BadRequest == [status |-> 400, has_body |-> TRUE, body |-> <<Byte>>]
Answers == Responses \cup {BadRequest}

\* A response without a body has none to show, and a line is not a \r or \n.
ASSUME ConnectionAssumption ==
  /\ Responses \subseteq [status : Nat, has_body : BOOLEAN, body : Seq(Symbols)]
  /\ \A r \in Responses : ~r.has_body => r.body = <<>>
  /\ \A r \in Answers : \A i \in 1..Len(ResponseHeader(r)) : ResponseHeader(r)[i] \notin {CR, LF}
  /\ SendSizes \subseteq Nat

Handle ==
  /\ result # Reading
  /\ response = None
  /\ response' \in IF result.status = "request" THEN Responses ELSE {BadRequest}
  /\ UNCHANGED <<vars, wire, connection>>

\* Mutant of Piece: every send starts at the beginning of the text.
PieceFromStart(text, k) == SubSeq(text, 1, k)

\* What SendAll passes to send, after sent_total bytes, of which k are taken.
Piece(text, k) == SubSeq(text, Len(wire) + 1, Len(wire) + k)

Sending == response # None /\ connection = "open"

Send(k) ==
  LET text == BuildHttpResponseText(response) IN
  /\ Sending
  /\ Len(wire) < Len(text)
  /\ wire' = wire \o Piece(text, Min({k, Len(text) - Len(wire)}))
  /\ UNCHANGED <<vars, response, connection>>

\* send fails, at any point: SendAll gives up, and its result is ignored.
SendFails ==
  /\ Sending
  /\ Len(wire) < Len(BuildHttpResponseText(response))
  /\ connection' = "broken"
  /\ UNCHANGED <<vars, response, wire>>

Close ==
  /\ Sending
  /\ Len(wire) = Len(BuildHttpResponseText(response))
  /\ connection' = "sent"
  /\ UNCHANGED <<vars, response, wire>>

ConnectionNext ==
  \/ Receive \/ Handle \/ SendFails \/ Close
  \/ \E k \in SendSizes : Send(k)

ConnectionSpec == ConnectionInit /\ [][ConnectionNext]_connectionVars

-----------------------------------------------------------------------------
(* Properties *)

\* An HTTP client's reading of the bytes that reached it: not an answer yet,
\* or the status and the bytes announced.
Partial == <<>>
Understood(bytes) ==
  LET end == FindHeaderEnd(bytes)
      lines == HeaderLines(bytes, end)
      length == lines[CHOOSE i \in 1..Len(lines) : lines[i].name = "content-length"].value
  IN IF end = npos \/ Len(bytes) < end + 4 + length THEN Partial
     ELSE <<bytes[1].value, SubSeq(bytes, end + 5, end + 4 + length)>>

\* SendAll's result is ignored, a reset can lose what was sent last, and the
\* connection just ends: wherever an answer is cut off the client notices, and
\* never takes a part, or another answer, for the whole.  An answer that was
\* sent to the end is whole.
AnswerWholeOrPartial ==
  LET whole == <<response.status, response.body>>
      reads(n) == Understood(SubSeq(wire, 1, n))
  IN /\ \A n \in 0..Len(wire) : reads(n) \in {Partial, whole}
     /\ connection = "sent" => reads(Len(wire)) = whole
=============================================================================
