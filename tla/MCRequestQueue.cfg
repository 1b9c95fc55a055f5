SPECIFICATION FairSpec
CONSTANTS
  c1 = c1
  c2 = c2
  c3 = c3
  c4 = c4
  c5 = c5
  c6 = c6
  c7 = c7
  c8 = c8
  c9 = c9
  Calls <- MCCalls
  Payloads <- MCPayloads
  Failing <- SomeFail
  Reverting <- SomeRevert
  Executing <- SomeExecute
  vmErrorsOnRPCResponse = TRUE
  Throwers <- OneThrows
INVARIANTS
  NoLostWakeup
  CallsIsolated
PROPERTIES
  ServedInOrder
  PayloadsAnsweredUntilWedged
CHECK_DEADLOCK FALSE
