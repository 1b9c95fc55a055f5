SPECIFICATION Spec
CONSTANTS
  BlockIds = {"b0", "b1", "b2"}
  Txs = {"t1", "t2"}
  TxsOf <- MCTxsOf
  MaxRestarts = 2
  Reverts = TRUE
  MaxLength = 2
INVARIANTS
  StoreTellsOneChain
  PopNeverFails
PROPERTY
  ReopenFailsOnlyAtTheLength
CHECK_DEADLOCK FALSE
