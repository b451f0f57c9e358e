SPECIFICATION FairSpec
CONSTANTS
  r1 = r1
  r2 = r2
  c1 = c1
  c2 = c2
  c3 = c3
  Requests = {r1, r2}
  Clients = {c1, c2}
  BatchLen = 2
  MaxCrashes = 1
INVARIANTS
  SubscribersServed
  CountedBetween
PROPERTIES
  ImplementsStore
  EventuallyAnswered
CHECK_DEADLOCK FALSE
