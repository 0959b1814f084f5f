CONSTANTS
  None = None
  Requests <- MCRequests
  Results <- MCResults
SPECIFICATION FairCallSpec
INVARIANTS
  PassDecidesOperationsValid
  RollbackExactlyOnce
  CommitOnlyWhole
  FailureNamesProgress
  LocalIdentitiesResolve
  OpenOnlyIfReported
  AtMostOneLateCall
PROPERTIES
  ImplementsExecution
  KeepsPromise
  Settles
