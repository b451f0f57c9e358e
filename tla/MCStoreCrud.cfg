SPECIFICATION WritersSpec
CONSTANTS
  r1 = r1
  r2 = r2
  r3 = r3
  NoRow = NoRow
  a = a
  b = b
  Requests = {r1, r2, r3}
  Ids = {1}
  Columns = {a, b}
  Values = {0, 1}
INVARIANTS HoldersCommit AcknowledgedTookPlace
PROPERTIES DeletedStaysDeleted EventuallyAnswered
CHECK_DEADLOCK FALSE
