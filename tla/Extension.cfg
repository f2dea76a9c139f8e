SPECIFICATION ThreadSpec
CONSTANTS
  Callers = {k1, k2}
  Workers = {w1, w2}
  Clients = {c1, c2}
  None = None
INVARIANTS
  TypeOK
  LifecycleExclusion
  NoOrphanThread
  ServingOrReleased
  RouterNeverMissing
  ConnectionsAccounted
PROPERTIES
  NoCommandAfterStopRequest
  ImplementsEvalService
  UnloadHangsOnlyAtStalls
  ConnectionsEnd
\* a worker waiting for the lock of the unload that joins it stops everything
CHECK_DEADLOCK FALSE
