SPECIFICATION Spec
CONSTANTS
  n1 = n1
  n2 = n2
  n3 = n3
  c1 = c1
  c2 = c2
  None = None
  Nodes = {n1, n2}
  Me = n3
  Conns = {c1, c2}
  Static = {}
  Trusted = {}
  PeerLimits = {1, 2, 4}
  Discovery = TRUE
  MaxActive = 1
  Slots = 1
  MaxResults = 2
CONSTRAINT DynamicOnly
SYMMETRY Alike
INVARIANTS PeersExact WithinBudget DialingExact TickComing
CHECK_DEADLOCK FALSE
