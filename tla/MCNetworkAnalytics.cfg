SPECIFICATION EachLevel
CONSTANTS
  MinSamples = 2
  MaxRequests = 3
  MaxWindows = 3
  Values = {0, 1, 2, 3}
  MinSeries = 4
  MaxSeries = 6
  l1 = l1
  l2 = l2
  Labels = {l1, l2}
  Num = 3
  Den = 4
  Bounds <- MCBounds
  MaxObservations = 8
SYMMETRY Symmetry
INVARIANTS EachRequestInOneWindow EventsAreOutliers
PROPERTIES NothingAfterDispose QuantileFollows
CHECK_DEADLOCK FALSE
