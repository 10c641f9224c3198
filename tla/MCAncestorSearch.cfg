CONSTANTS
  Fetch = 2
  MaxHeight = 5
  MaxLate = 2
SPECIFICATION LiveSpec
INVARIANTS AncestorCommon AncestorHighest
PROPERTIES SearchEnds
