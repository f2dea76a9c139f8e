----------------------------- MODULE HttpReceive -----------------------------
(***************************************************************************)
(* ReceiveRequest: one HTTP request read from a connection, in whatever    *)
(* pieces recv returns it, framed by its Content-Length and parsed.        *)
(*                                                                         *)
(* A line of the header is one symbol: where in a line a chunk ends makes  *)
(* no difference, where in the \r\n\r\n after the header it ends does.     *)
(***************************************************************************)
EXTENDS Integers, Sequences, SequencesExt

CONSTANTS
  CR, LF,
  RequestLine,      \* a well-formed request line
  NoColon,          \* a line ParseRequestLine and the header loop both reject
  Byte,             \* any byte of a body
  Headers,          \* header lines: [name, value], value a sequence of digits
  Inputs,           \* what clients send
  MaxHeaderBytes, MaxBodyBytes,  \* kMaxHeaderBytes, kMaxBodyBytes
  BufferSize        \* 4096: the most one recv returns

Symbols == {CR, LF, RequestLine, NoColon, Byte} \cup Headers

ASSUME ReceiveAssumption ==
  /\ Inputs \subseteq Seq(Symbols)
  /\ \A h \in Headers : h.value \in Seq(0..10)   \* 10: not a digit
  /\ MaxHeaderBytes \in Nat /\ MaxBodyBytes \in Nat
  /\ BufferSize \in Nat \ {0}

VARIABLES
  input,          \* what the client sends on this connection
  received,       \* how many symbols of it have been received
  headerEnd,      \* header_end: symbols before the \r\n\r\n, or npos
  contentLength,  \* content_length
  result          \* what ReceiveRequest returned, or Reading

vars == <<input, received, headerEnd, contentLength, result>>

npos == -1
Reading == [status |-> "reading"]
Invalid(why) == [status |-> "invalid", why |-> why]

Init ==
  /\ input \in Inputs
  /\ received = 0
  /\ headerEnd = npos
  /\ contentLength = 0
  /\ result = Reading

TooLarge(n) == n > MaxHeaderBytes + MaxBodyBytes + 4

\* received.find("\r\n\r\n")
FindHeaderEnd(raw) ==
  LET ends == {i \in 0..(Len(raw) - 4) : SubSeq(raw, i + 1, i + 4) = <<CR, LF, CR, LF>>}
  IN IF ends = {} THEN npos ELSE CHOOSE i \in ends : \A j \in ends : i <= j

HeaderLines(raw, end) ==
  FlattenSeq([i \in 1..end |-> IF raw[i] \in {CR, LF} THEN <<>> ELSE <<raw[i]>>])

-----------------------------------------------------------------------------
(* ParseContentLength *)

Bad == -1

\* Mutant of TakeDigit: the limit is only applied before the multiplication.
TakeDigitUnbounded(acc, ch) ==
  IF acc = Bad \/ ch > 9 \/ acc > MaxBodyBytes \div 10 THEN Bad ELSE acc * 10 + ch

\* The limit is far below 2^64 / 10, so that std::size_t never wraps.
TakeDigit(acc, ch) ==
  IF acc = Bad \/ ch > 9 \/ acc > MaxBodyBytes \div 10 \/ acc * 10 + ch > MaxBodyBytes
  THEN Bad ELSE acc * 10 + ch

ParseContentLength(value) ==
  LET acc[i \in 0..Len(value)] == IF i = 0 THEN 0 ELSE TakeDigit(acc[i - 1], value[i])
  IN IF value = <<>> THEN Bad ELSE acc[Len(value)]

LengthLines(lines) ==
  {i \in 1..Len(lines) : lines[i] \in Headers /\ lines[i].name = "content-length"}

\* The last Content-Length counts, but each must be valid.
DeclaredLength(lines) ==
  LET is == LengthLines(lines) IN
  IF is = {} THEN 0
  ELSE IF \E i \in is : ParseContentLength(lines[i].value) = Bad THEN Bad
  ELSE ParseContentLength(lines[Max(is)].value)

-----------------------------------------------------------------------------
(* ParseHttpRequest *)

\* headers[name] of the request: insert_or_assign keeps the last.
HeaderMap(lines) ==
  [name \in {lines[i].name : i \in 1..Len(lines)} |->
     LET is == {i \in 1..Len(lines) : lines[i].name = name}
     IN lines[CHOOSE i \in is : \A j \in is : j <= i].value]

\* Only lines that end with \r\n within the header block are seen, which the
\* last one does not; a request of the request line alone is malformed.
SeenLines(raw, end) ==
  LET lines == HeaderLines(raw, end) IN IF Len(lines) < 2 THEN <<>> ELSE Front(lines)

ParseHttpRequest(raw, end, length) ==
  LET seen == SeenLines(raw, end) IN
  IF seen = <<>> \/ seen[1] # RequestLine THEN Invalid("request line")
  ELSE IF Contains(seen, NoColon) THEN Invalid("header")
  ELSE [status |-> "request", headers |-> HeaderMap(Tail(seen)),
        body |-> SubSeq(raw, end + 5, Min({end + 4 + length, Len(raw)}))]

-----------------------------------------------------------------------------
(* ReceiveRequest *)

\* Mutants of Complete: the separator is forgotten; one byte more is awaited.
CompleteShort(n, end, length) == end # npos /\ n >= end + length
CompleteLate(n, end, length) == end # npos /\ n > end + 4 + length

Complete(n, end, length) == end # npos /\ n >= end + 4 + length

\* Mutant of EndAfter: only what this recv returned is searched.
EndWithin(n) ==
  LET found == FindHeaderEnd(SubSeq(input, received + 1, n))
  IN IF headerEnd # npos THEN headerEnd
     ELSE IF found = npos THEN npos ELSE received + found

\* Everything received so far is searched, until the end has been found.
EndAfter(n) ==
  IF headerEnd # npos THEN headerEnd ELSE FindHeaderEnd(SubSeq(input, 1, n))

\* recv returned the next k symbols.
Recv(k) ==
  LET n == received + k
      end == EndAfter(n)
      length == IF headerEnd # npos \/ end = npos THEN contentLength
                ELSE DeclaredLength(HeaderLines(input, end))
  IN
  /\ result = Reading
  /\ n <= Len(input)
  /\ received' = n
  /\ IF TooLarge(n)
     THEN /\ result' = Invalid("too large")
          /\ UNCHANGED <<headerEnd, contentLength>>
     ELSE /\ headerEnd' = end
          /\ IF length = Bad
             THEN /\ result' = Invalid("content length")
                  /\ UNCHANGED contentLength
             ELSE /\ contentLength' = length
                  /\ result' = IF Complete(n, end, length)
                               THEN ParseHttpRequest(SubSeq(input, 1, n), end, length)
                               ELSE Reading
  /\ UNCHANGED input

\* recv returned 0 or an error: the client closed or reset the connection.
Closed ==
  /\ result = Reading
  /\ result' = Invalid("closed")
  /\ UNCHANGED <<input, received, headerEnd, contentLength>>

Next == (\E k \in 1..BufferSize : Recv(k)) \/ Closed

Spec == Init /\ [][Next]_vars

-----------------------------------------------------------------------------
(* Properties *)

TypeOK ==
  /\ input \in Inputs
  /\ received \in 0..Len(input)
  /\ headerEnd \in {npos} \cup 0..received
  /\ contentLength \in 0..MaxBodyBytes
  /\ result.status \in {"reading", "invalid", "request"}

\* The value of a decimal number, without a limit.
ValueOf(digits) ==
  LET v[i \in 0..Len(digits)] == IF i = 0 THEN 0 ELSE v[i - 1] * 10 + digits[i]
  IN v[Len(digits)]
GoodLength(h) ==
  /\ h.value # <<>> /\ \A i \in 1..Len(h.value) : h.value[i] <= 9
  /\ ValueOf(h.value) <= MaxBodyBytes

\* A request is accepted with the body its Content-Length announces, byte for
\* byte, and only if every length announced is a number within the limit.
BodyAsAnnounced ==
  result.status = "request" =>
    LET end == FindHeaderEnd(input)
        lines == HeaderLines(input, end)
        lengths == LengthLines(lines)
    IN
    /\ \A i \in lengths : GoodLength(lines[i])
    /\ Len(result.body) = IF lengths = {} THEN 0 ELSE ValueOf(lines[Max(lengths)].value)
    /\ result.body = SubSeq(input, end + 5, end + 4 + Len(result.body))

\* How the network cuts the request makes no difference: what was received
\* is judged as if it had come at once (a request with bytes after it that
\* exceed the size limit excepted, where it does).
AtOnce(n) ==
  LET end == FindHeaderEnd(SubSeq(input, 1, n))
      length == DeclaredLength(HeaderLines(input, end))
  IN IF end = npos THEN Reading
     ELSE IF length = Bad THEN Invalid("content length")
     ELSE IF n < end + 4 + length THEN Reading
     ELSE ParseHttpRequest(SubSeq(input, 1, n), end, length)
ChunksInvisible ==
  ~TooLarge(received) /\ result # Invalid("closed") => result = AtOnce(received)

\* A client that has sent its whole request and waits for the answer is never
\* left waiting: ReceiveRequest does not ask for another byte.
AnsweredWhenComplete ==
  LET end == FindHeaderEnd(SubSeq(input, 1, received)) IN
  result = Reading => end = npos \/ received < end + 4 + contentLength

\* docs/MCP-transports.md:281 asks for a 400 when a header has an unsupported
\* value: the header must be among those the handler is shown.
EveryHeaderShown ==
  result.status = "request" =>
    LET lines == HeaderLines(input, FindHeaderEnd(input)) IN
    \A i \in 2..Len(lines) : lines[i] \in Headers => lines[i].name \in DOMAIN result.headers
=============================================================================
