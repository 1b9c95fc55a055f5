SPECIFICATION Spec
CONSTANTS
  Accounts = {own, other}
  OwnAccounts = {own}
  own = own
  other = other
  Parts = {code, nonce}
  Code = code
  Contract = other
  UpstreamTxs <- TxsThere
  OwnTxs <- Additions
  CallTxs <- NoCalls
  UpstreamFails = FALSE
  NoAnswer = NoAnswer
  NoBlock = NoBlock
  MaxUpstream = 3
  MaxOwn = 3
  MaxMined = 3
INVARIANTS
  StorageOfLastBlock
CHECK_DEADLOCK FALSE
