SPECIFICATION EachSpec
CONSTANTS
  Sources = 2
  Contents <- MCContents
  Bad = Bad
  Delays = {1, 2}
  Second = 2
  MaxLate = 1
  MaxRows = 3
  MaxTime = 3
  None = None
  Messages <- MCMessages
  MaxLosses = 1
  MaxSent = 1
INVARIANTS MergedInSlices WholeSlices RoundComplete FlagsAreDue
CHECK_DEADLOCK FALSE
