CONSTANTS
  None = None
  Documents <- MCDocuments
SPECIFICATION PassesSpec
INVARIANTS
  ReportsUnlinkedExactly
  FollowsOnce
  DuplicatesExactly
  ConflictsExactly
  LookupsUnambiguous
  LeadsToEachIncluded
PROPERTY PassesEnd
