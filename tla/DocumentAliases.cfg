CONSTANTS
  None = None
  Documents <- MCDocuments
SPECIFICATION PassesSpec
INVARIANT NoResourceTwice
