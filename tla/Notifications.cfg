SPECIFICATION Spec
CONSTANTS
  id1 = id1
  id2 = id2
  Ids <- MCIds
  NullId = NullId
  Absent = Absent
  NotJson = NotJson
  Requests <- SomeRequests
  MaxRequests = 2
INVARIANT NotificationUnanswered
\* all requests have been handled
CHECK_DEADLOCK FALSE
