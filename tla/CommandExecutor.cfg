SPECIFICATION Spec
CONSTANTS
  a = a
  b = b
  n = n
  Chars <- MCChars
  NL = n
  Marker = Marker
  Patterns <- MCPatterns
  Limits <- MCLimits
  MaxText = 5
  MaxChunk = 3
INVARIANTS
  TypeOK
  CaptureAlive
  PrefixReturned
  OutputBounded
  FilterOfWholeLines
\* Execute has returned
CHECK_DEADLOCK FALSE
