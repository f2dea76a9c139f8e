SPECIFICATION Spec
CONSTANTS
  a = a
  b = b
  n = n
  Chars <- MCChars
  NL = n
  Marker = Marker
  Patterns <- MCPatterns
  Limits = {2}
  MaxText = 3
  MaxChunk = 3
INVARIANT FilterOfLines
CHECK_DEADLOCK FALSE
