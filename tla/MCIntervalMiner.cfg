SPECIFICATION IMFairSpec
CONSTANTS
  blockTime = 2
  MaxLine = 4
INVARIANT IntervalAlive
PROPERTIES
  KeepsMining
  StopIsFinalUnlessTickWaits
