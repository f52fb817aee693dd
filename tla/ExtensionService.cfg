SPECIFICATION FairSpec
CONSTANTS
  Requests = {r1, r2, r3}
  NoRequest = none
  Keys = {k1}
  NoKey = nokey
  Orders <- MCOrders
  NoOrder = noorder
  Pairs <- MCPairs
  Calls <- AllCalls
  MaxRestarts = 1
INVARIANTS TypeOK BooksAreUncrossed OrdersAreAccountedFor
PROPERTIES ImplementsService WaitsOnlyForOwnDecryption
CHECK_DEADLOCK FALSE
