SPECIFICATION FairPages
CONSTANTS
  Requests = {r1, r2}
  Clients = {c1, c2}
  PageConns = {c1, c2}
  BatchLen = 1
  MaxCrashes = 0
  Sensors = {s1, s2}
  Polls = {q1, q2}
  Limit = 1
  MaxReadings = 2
  MaxTime = 2
  MaxLosses = 2
INVARIANTS ShownSinceOpen
PROPERTIES EventuallyLatest
CHECK_DEADLOCK FALSE
