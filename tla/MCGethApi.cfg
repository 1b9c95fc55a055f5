SPECIFICATION FairSpec
CONSTANTS
  Addresses = {main, made, ghost}
  main = main
  made = made
  ghost = ghost
  p1 = p1
  p2 = p2
  Passwords = {p1, p2}
  InitialAccounts = {main}
  UnlockedByOption = {ghost}
  Requests <- RequestsHere
  Overlapping = TRUE
  MaxRequests = 3
INVARIANTS
  LockedUntilUnlocked
  HeldOnceInOrder
  AnsweredOnce
PROPERTY RequestsAnswered
CHECK_DEADLOCK FALSE
