SPECIFICATION FairSpec
CONSTANTS
  s1 = s1
  s2 = s2
  Servers = {s1, s2}
  Restarted = {s2}
  MaxPort = 3
  InitialPorts <- MCInitialPorts
  AttemptLimits <- MCAttemptLimits
  DefaultAttempts = 3
  MaxOpen = 1
  Free = Free
  Foreign = Foreign
  INVALID_SOCKET = INVALID_SOCKET
INVARIANTS
  TypeOK
  NoSocketLeak
  IdleHoldsNothing
  ReportTrue
  ExhaustedAfterAll
PROPERTY StartReturns
