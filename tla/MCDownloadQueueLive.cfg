SPECIFICATION LiveSpec
CONSTANTS
  p1 = p1
  p2 = p2
  Peers <- OnePeer
  N = 2
  CacheSize = 2
  MaxCount = 2
  Fast = TRUE
  Pivot = 1
  ForceVerify = 1
  Noop <- NoNoop
  StateBatches = 1
  Gaps = FALSE
  MaxExpiries = 1
  MaxLost = 0
  MaxDrops = 0
PROPERTIES CycleEnds ImplementsStream
CHECK_DEADLOCK FALSE
