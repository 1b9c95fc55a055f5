SPECIFICATION FairSpec
CONSTANTS
  Filters = {f1}
  MaxPolls = 2
  NoBlock = NoBlock
  NoNumber = NoNumber
  MaxBlocks = 3
  MaxChanges = 2
INVARIANTS
  OneBlockMissed
  ThrowsOnlyForNoBlock
PROPERTY PollsEnd
CHECK_DEADLOCK FALSE
