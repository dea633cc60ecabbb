SPECIFICATION FairSpec
CONSTANTS
  Rows = {r1, r2}
  Streams = {1, 2, 3}
  MaxQuits = 2
INVARIANTS ResetReachesLoop
PROPERTIES SubscribedToAgterm
CHECK_DEADLOCK FALSE
