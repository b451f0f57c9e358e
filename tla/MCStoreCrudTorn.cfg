SPECIFICATION TwoPutsSpec
CONSTANTS
  r1 = r1
  r2 = r2
  r3 = r3
  NoRow = NoRow
  a = a
  b = b
  Requests = {r1, r2}
  Ids = {1}
  Columns = {a, b}
  Values = {0, 1}
INVARIANT PutAnswersRow
CHECK_DEADLOCK FALSE
