SPECIFICATION ConnectedFirstSpec
CONSTANTS
  r1 = r1
  r2 = r2
  c1 = c1
  c2 = c2
  c3 = c3
  Requests = {r1, r2}
  Clients = {c1, c2}
  BatchLen = 2
  MaxCrashes = 0
INVARIANTS
  ProblemsIgnored
CHECK_DEADLOCK FALSE
