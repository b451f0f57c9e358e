SPECIFICATION Spec
CONSTANTS
  BatchSize = 2
  MaxItems = 4
  MaxGlitches = 2
  MaxStarts = 2
INVARIANTS
  TypeOK
  NoRecordVanishes
  FlushIsExclusive
  DeletesWhatItSent
  UnfinishedCount
  PendingInOrder
  DuplicatesNeedFaults
  CleanStopDrains
PROPERTIES
  SafeStaysSafe
  ImplementsContract
CHECK_DEADLOCK FALSE
