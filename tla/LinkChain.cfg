CONSTANTS
  Cells <- MCCells
  Root <- MCRoot
  NoLink <- MCNone
  MaxDepth = 3
  Entries <- MCEntries
SPECIFICATION ChainFairSpec
INVARIANTS
  VerdictExact
  EncodesBounded
PROPERTY Returns
