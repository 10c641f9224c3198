CONSTANTS
  r1 = r1 r2 = r2 a = a b = b s = s c = c p1 = p1 p2 = p2
  Nodes <- MCNodes
  Refs <- MCRefs
  Leaves <- MCLeaves
  Peers <- TwoPeers
  Have <- MCHave
  Roots <- TwoRoots
  MaxCount = 2
  MaxProcs = 2
  MaxUpsets = 1
  MaxFailures = 0
SPECIFICATION Spec
INVARIANTS DatabaseClosed DepsExact CompleteWhenIdle EntryOnePlace
PROPERTIES UnavailableHasCause
