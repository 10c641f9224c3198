SPECIFICATION Spec
CONSTANTS
  p1 = p1
  p2 = p2
  Peers <- TwoPeers
  N = 3
  CacheSize = 2
  MaxCount = 2
  Fast = FALSE
  Pivot = 1
  ForceVerify = 0
  Noop <- EmptyFirst
  StateBatches = 0
  Gaps = TRUE
  MaxExpiries = 1
  MaxLost = 1
  MaxDrops = 1
CONSTRAINT TwoUpsets
SYMMETRY PeerSymmetry
INVARIANTS ExactlyOnePlace NeverCorrupt NoLostWakeup AllHandedOut
CHECK_DEADLOCK FALSE
