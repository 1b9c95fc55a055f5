SPECIFICATION PSSpec
CONSTANTS
  Senders = {a1, a2, a3}
  Prices = {1, 2}
  Gases = {1, 2}
  maxGasLimit = 3
  MaxTxs = 4
INVARIANTS
  SortsByPriceAndNonce
  PacksLongestPrefix
