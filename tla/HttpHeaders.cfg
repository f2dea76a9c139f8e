SPECIFICATION ConnectionSpec
CONSTANTS
  CR = CR
  LF = LF
  RequestLine = RequestLine
  NoColon = NoColon
  Byte = Byte
  Headers <- MCHeaders
  Inputs <- MCInputs
  MaxHeaderBytes = 14
  MaxBodyBytes = 11
  BufferSize = 4
  Responses <- MCResponses
  SendSizes = {8, 100}
INVARIANT EveryHeaderShown
CHECK_DEADLOCK FALSE
