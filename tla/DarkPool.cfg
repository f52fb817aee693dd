SPECIFICATION Spec
CONSTANTS
  Accounts = {dep, t1}
  NoAccount = zero
  Deployer = dep
  Fdcs = {f1, f2}
  TxHashes = {x1, x2}
  NoHash = nohash
  Payloads = {p}
  NoPayload = empty
  MaxBlock = 2
  Guessable <- FewGuessable
SYMMETRY TxSymmetry
INVARIANTS TypeOK DepositBacksOneOrder DepositsWereProven SettledInCrossingPairs RefundOrSwapNotBoth
PROPERTIES SubmittedOrdersAreImmutable ImplementsEscrow
CHECK_DEADLOCK FALSE
