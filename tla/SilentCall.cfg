SPECIFICATION FairSpec
CONSTANTS
  Callers = {k1}
  Workers = {w1}
  Clients = {c1}
  None = None
PROPERTY SilentCallIsExecuting
CHECK_DEADLOCK FALSE
