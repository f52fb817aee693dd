SPECIFICATION Spec
CONSTANTS
  Accounts = {dep}
  NoAccount = zero
  Deployer = dep
  Fdcs = {f1}
  TxHashes = {x1, x2}
  NoHash = nohash
  Payloads = {p}
  NoPayload = empty
  MaxBlock = 1
  Guessable <- AllGuessable
INVARIANT SettlementsNameSubmittedOrders
CHECK_DEADLOCK FALSE
