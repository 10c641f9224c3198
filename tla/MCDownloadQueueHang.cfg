SPECIFICATION LiveSpec
CONSTANTS
  p1 = p1
  p2 = p2
  Peers <- OnePeer
  N = 3
  CacheSize = 2
  MaxCount = 2
  Fast = FALSE
  Pivot = 1
  ForceVerify = 0
  Noop <- EmptyFirst
  StateBatches = 0
  Gaps = TRUE
  MaxExpiries = 0
  MaxLost = 0
  MaxDrops = 0
PROPERTIES CycleEnds
CHECK_DEADLOCK FALSE
