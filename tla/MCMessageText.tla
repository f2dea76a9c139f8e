----------------------------- MODULE MCMessageText -----------------------------
EXTENDS JsonGrammar

Digit1 == <<49>>
Blank == <<Space>>
Member(name, raw) == <<Comma>> \o Field(name, raw)

\* Structure: every text of separators, blanks, quotes, backslashes and scalars,
\* alone and where a value and a further member are expected.
Separators ==
  {<<c>> : c \in {LBrace, RBrace, LBracket, RBracket, Comma, Colon, Quote, Backslash, Space, 49}}
Structure ==
  {[text |-> <<>>, chunks |-> Separators, length |-> 3],
   [text |-> <<LBrace>> \o Field("id", <<>>), chunks |-> Separators \ {Blank}, length |-> 4],
   [text |-> <<LBrace>> \o Field("id", Digit1) \o <<Comma>>, chunks |-> Separators, length |-> 3]}

\* Characters: of one to three bytes, controls, what must be escaped, and
\* escape sequences, whole or begun, in a text of its own and in a method.
Characters ==
  {Digit1, <<127>>, <<195, 169>>, <<226, 130, 172>>, <<1>>, <<9>>, <<10>>, <<31>>,
   <<Quote>>, <<Backslash>>, <<Backslash, 110>>, <<Backslash, 117, 48, 48, 48, 100>>}
Strings ==
  {[text |-> <<>>, chunks |-> Characters, length |-> 3],
   [text |-> <<LBrace>> \o Field("method", <<Quote>>),
    chunks |-> Characters \cup {<<Quote, RBrace>>}, length |-> 3]}

\* Messages: members in any order, repeated, and of the wrong kind.
MessageMembers ==
  {Member("id", Digit1), Member("id", Quoted(<<Backslash, Quote>>)), Member("id", Blank \o W["null"]),
   Member("method", Quoted(W["tools/call"])), Member("method", Quoted(W["initialized"])),
   Member("method", Quoted(W["other"])), Member("jsonrpc", Digit1),
   Member("params", Object(<<Field("name", Quoted(W["windbg.eval"])),
                             Field("arguments", Object(<<Field("command", Quoted(Digit1))>>))>>)),
   <<RBrace>>}
Messages ==
  {[text |-> <<LBrace>> \o Version, chunks |-> MessageMembers, length |-> 4]}

\* Calls: the members of params and arguments, likewise.
CallMembers ==
  {Member("name", Quoted(W["other"])), Member("name", Quoted(W["windbg.eval"])),
   Member("arguments", Digit1), Member("arguments", Object(<<>>)),
   Member("arguments", Object(<<Field("command", Quoted(<<>>))>>)),
   Member("arguments", Object(<<Field("command", Quoted(Digit1)), Field("pattern", Digit1)>>)),
   <<RBrace, RBrace>>}
Calls ==
  {[text |-> <<LBrace>> \o Version \o Member("id", Digit1) \o Member("method", Quoted(W["tools/call"]))
             \o Member("params", <<LBrace>> \o Field("type", Digit1)),
    chunks |-> CallMembers, length |-> 4]}

MCStarts == Structure \cup Strings \cup Messages \cup Calls
MCNames == {W["id"], W["method"], Digit1, <<>>}
\* Besides the body, whose quotes, backslashes and braces would end what they are
\* put into.
MCOutputs == {<<>>}
=============================================================================
