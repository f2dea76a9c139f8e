---------------------------- MODULE MCHttpReceive ----------------------------
EXTENDS HttpConnection

Length(digits) == [name |-> "content-length", value |-> digits]
Plain == [name |-> "origin", value |-> <<>>]

\* With kMaxBodyBytes = 11, lengths below, at and above the limit, with leading
\* zeros, with a character that is no digit, and with three digits.
MCHeaders ==
  {Plain} \cup {Length(v) : v \in {<<>>, <<0>>, <<2>>, <<0, 0, 3>>, <<1, 1>>, <<1, 2>>,
                                   <<1, 10>>, <<2, 5, 6>>, <<1, 3, 0>>}}

Line(l) == <<l, CR, LF>>
Raw(first, headers, body) ==
  Line(first) \o FlattenSeq([i \in 1..Len(headers) |-> Line(headers[i])])
  \o <<CR, LF>> \o [i \in 1..body |-> Byte]

MCInputs ==
  {Raw(RequestLine, hs, body) : hs \in BoundedSeq(MCHeaders \cup {NoColon}, 2), body \in {0, 2, 3, 11, 13}}
  \cup {Raw(NoColon, hs, 0) : hs \in BoundedSeq({Plain}, 2)}
  \cup {Raw(RequestLine, <<Plain, Length(<<1, 1>>), Plain>>, body) : body \in {11, 24}}

\* A result, an answer with an empty body, and one without.
MCResponses ==
  {[status |-> 200, has_body |-> TRUE, body |-> <<Byte, CR, LF>>],
   [status |-> 404, has_body |-> TRUE, body |-> <<>>],
   [status |-> 202, has_body |-> FALSE, body |-> <<>>]}
=============================================================================
