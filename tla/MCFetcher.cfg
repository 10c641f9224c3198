SPECIFICATION LiveSpec
CONSTANTS
  a1 = a1
  b2 = b2
  c1 = c1
  p1 = p1
  p2 = p2
  empty = empty
  full = full
  Genesis = Genesis
  Unknown = Unknown
  None = None
  Hashes = {a1, b2}
  Peers = {p1, p2}
  Eth61 = {}
  Honest = {p1}
  Parent <- MCParent
  Number <- MCNumber
  Body <- MCBody
  EmptyBody = empty
  Verdict <- MCVerdict
  HashLimit = 2
  BlockLimit = 1
  MaxUncleDist = 0
  MaxQueueDist = 1
  MaxNotify = 1
INVARIANTS ImportedOnce QueueAccounting HonestKept
PROPERTIES AnnouncedFetched ImportForgotten
CHECK_DEADLOCK FALSE
