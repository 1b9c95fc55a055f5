SPECIFICATION Spec
CONSTANTS
  Accounts = {own, other}
  OwnAccounts = {own}
  own = own
  other = other
  Parts = {code, nonce}
  Code = code
  Contract = other
  UpstreamTxs <- TxsThere
  OwnTxs <- TxsHere
  CallTxs <- CallsHere
  UpstreamFails = TRUE
  NoAnswer = NoAnswer
  NoBlock = NoBlock
  MaxUpstream = 3
  MaxOwn = 3
  MaxMined = 3
INVARIANTS
  StopsOnlyWhenLost
  StorageUntilParted
PROPERTIES
  LooksLikeOneChain
CHECK_DEADLOCK FALSE
