CONSTANTS
  g = g  a1 = a1  a2 = a2  a3 = a3  b1 = b1  b2 = b2
  t1 = t1  t2 = t2  t3 = t3
  None = None
  Genesis = g
  Txs = {t1, t2, t3}
  Blocks <- MCBlocks
  Parent <- MCParent
  Number <- MCNumber
  Difficulty <- MCDifficulty
  Td <- MCTd
  AncestorsOf <- MCAncestorsOf
  Verdict <- MCVerdict
  TxsIn <- MCTxsIn
  MinedSets <- MCMinedSets
  MaxFuture = 1
  MaxUpsets = 1
SPECIFICATION Spec
INVARIANTS
  CanonicalChain HeadComplete HeaviestHead TxIndexExact
CHECK_DEADLOCK FALSE
