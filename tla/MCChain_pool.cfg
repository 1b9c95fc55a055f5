SPECIFICATION Spec
CONSTANTS
  Accounts = {a1, a2}
  Shapes <- PoolShapes
  BlockGasLimit = 2
  OnInterval = FALSE
  Advances = {}
  MaxHeight = 4
  MaxPool = 3
  MaxNonce = 3
  MaxSnapshots = 0
  MaxClock = 0
INVARIANTS
  NoncesFollowTheChain
  PoolNoncesConsecutive
PROPERTIES
  NoTransactionLost
  OnlyFailedBlocksStrand
SYMMETRY AccountSymmetry
CHECK_DEADLOCK FALSE
