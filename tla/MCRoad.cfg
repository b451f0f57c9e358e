SPECIFICATION ShapesSpec
CONSTANTS
  MaxRows = 3
  BatchSize = 2
  MaxRecords = 3
  Accelerations <- MCAccelerations
  Invalid = Invalid
  MaxLosses = 1
INVARIANTS NothingLeftUnread HubSeesFilesInStep WorseIsWorse NoThreadLeft
PROPERTIES SubscribedAgain
CHECK_DEADLOCK FALSE
