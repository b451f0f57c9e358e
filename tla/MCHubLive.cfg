SPECIFICATION FairSpec
CONSTANTS
  BatchSize = 2
  MaxItems = 3
  MaxGlitches = 1
  MaxStarts = 2
PROPERTIES
  StopTerminates EventuallyStored
CHECK_DEADLOCK FALSE
