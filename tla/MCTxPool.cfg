CONSTANTS
  acc = acc
  x0 = x0
  z0 = z0
  x1 = x1
  y1 = y1
  x2 = x2
  x3 = x3
  Txs = {x0, z0, x1, y1, x2}
  Addrs = {acc}
  Sender <- MCSender
  Nonce <- MCNonce
  Cost <- MCCost
  Price <- MCPrice
  Funds <- MCFunds
  Malformed = {}
  Removable = {x1}
  Prices = {0, 2}
  MaxQueued = 1
  MaxChanges = 3
  None = None
SPECIFICATION LiveSpec
INVARIANTS
  PendingFresh
  ExecutablePromoted
PROPERTIES
  LeavesForCause
  HeadHandled
CHECK_DEADLOCK FALSE
