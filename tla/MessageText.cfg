SPECIFICATION Spec
CONSTANTS
  IntMax = 12
  kSummaryValueLimit = 6
  MaxCommand = 7
  Absent = Absent
  NotJson = NotJson
  Starts <- MCStarts
  Names <- MCNames
  Outputs <- MCOutputs
INVARIANTS
  FieldsAsWritten
  TextUnchanged
  AnswersAsModelled
  EchoesTrue
\* the body is written
CHECK_DEADLOCK FALSE
