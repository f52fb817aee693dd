SPECIFICATION FairSpec
CONSTANTS
  Requests = {r1}
INVARIANTS StopsGracefully
CHECK_DEADLOCK FALSE
