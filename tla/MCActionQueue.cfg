SPECIFICATION FairSpec
CONSTANTS
  a1 = a1
  a2 = a2
  Accounts <- MCAccounts
  MaxCalls = 3
  Kinds <- MCKinds
  Overlapping <- All
  BlockGasLimit = 1
INVARIANTS
  StateIsOfLastBlock
  ChainIsReplay
  ReadsStateOfBlock
PROPERTY
  EveryCallEnds
CHECK_DEADLOCK FALSE
