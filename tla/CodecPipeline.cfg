CONSTANTS
  Options <- MCOptions
  Documents <- MCDocuments
  Payloads <- MCPayloads
  AbsoluteURIs = {"e", "f", "p", "q"}
  Namespaces = {"a", "b"}
  Suffixes = {"x", "y", "n"}
  NameRank <- MCNameRank
  MaxCalls = 2
SPECIFICATION Spec
INVARIANTS
  TypeOK
  CarriesRegistered
  ReportsEveryFault
  AcceptsItsOwn
  RoundTrip
  ReturnsWhatWasValidated
CHECK_DEADLOCK FALSE
