SPECIFICATION FairSpec
CONSTANT MaxLines = 4
INVARIANTS
  TypeOK
  AnswersInOrder
  CommandsInOrder
PROPERTY LinesDone
\* all lines have been read
CHECK_DEADLOCK FALSE
