SPECIFICATION OneFaultSpec
CONSTANTS
  BatchSize = 2
  MaxItems = 2
  MaxGlitches = 3
  MaxStarts = 2
  v1 = v1
  v2 = v2
  Visitors = {v1, v2}
PROPERTIES
  ImplementsEndToEnd
  EventuallyShown
CHECK_DEADLOCK FALSE
