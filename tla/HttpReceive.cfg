SPECIFICATION ConnectionSpec
CONSTANTS
  CR = CR
  LF = LF
  RequestLine = RequestLine
  NoColon = NoColon
  Byte = Byte
  Headers <- MCHeaders
  Inputs <- MCInputs
  MaxHeaderBytes = 14
  MaxBodyBytes = 11
  BufferSize = 4
  Responses <- MCResponses
  SendSizes = {8, 100}
INVARIANTS
  TypeOK
  BodyAsAnnounced
  ChunksInvisible
  AnsweredWhenComplete
  AnswerWholeOrPartial
\* the connection is closed
CHECK_DEADLOCK FALSE
