SPECIFICATION LiveSpec
CONSTANTS
  n1 = n1
  n2 = n2
  None = None
  Nodes = {n1, n2}
  Pinging = {n1}
  Expiring = {n1}
  Neighbours = {{n2}}
  Seeds = {}
  Nursery = {n1}
  BucketSize = 1
  MaxBonding = 1
  MaxFails = 1
  MaxWarps = 1
CONSTRAINT JumpWhilePending
INVARIANTS PendingExact BondsExact BondedBeforeFind
PROPERTIES EvictedForCause BondEnds RefreshReturns
CHECK_DEADLOCK FALSE
