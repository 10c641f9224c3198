CONSTANTS
  g = g  a1 = a1  a2 = a2  a3 = a3  b1 = b1  b2 = b2  b3 = b3
  None = None
  Genesis = g
  Blocks <- MCBlocks
  Parent <- MCParent
  Number <- MCNumber
  Difficulty <- MCDifficulty
  Td <- MCTd
  AncestorsOf <- MCAncestorsOf
  Tips = {a3, b3}
  BadSets <- MCBadSets
  Pivot = 2
  Window = 1
  SafetyNet = 2
  ForceVerify = 1
  MaxCycles = 3
SPECIFICATION Spec
INVARIANTS
  CanonicalHeaders
  CommitReady
  BodyWithReceipts
CHECK_DEADLOCK FALSE
