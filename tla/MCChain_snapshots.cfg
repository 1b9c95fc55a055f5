SPECIFICATION FairSpec
CONSTANTS
  Accounts = {a1}
  Shapes <- TimeShapes
  BlockGasLimit = 1
  OnInterval = FALSE
  Advances = {1}
  MaxHeight = 3
  MaxPool = 1
  MaxNonce = 1
  MaxSnapshots = 2
  MaxClock = 2
INVARIANTS
  TypeOK
  RootIsReplay
  ReceiptsExact
  TimeNeverRunsBack
PROPERTIES
  SnapshotsKept
  LoopsEnd
CHECK_DEADLOCK FALSE
