CONSTANTS
  Cells <- MCCells
  Root <- MCRoot
  NoLink <- MCNone
  MaxDepth = 3
  Entries <- MCEntries
SPECIFICATION ChainSpec
INVARIANT ChainsCheckedBeforeEncoding
