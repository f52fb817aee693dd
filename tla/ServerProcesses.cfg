SPECIFICATION FairSpec
CONSTANTS
  Requests = {r1, r2, r3}
  NoRequest = none
  Keys = {k1, k2}
  NoKey = nokey
  Orders = {}
  NoOrder = noorder
  Pairs = {}
  Calls <- AllCalls
  MaxRestarts = 1
INVARIANTS TypeOK OneHandlerAtATime SignedInArrivalOrder
PROPERTIES ImplementsService EveryRequestEnds FailsFast SignalEnds
CHECK_DEADLOCK FALSE
