CONSTANTS
  Options <- MCOptions
  Documents <- MCDocuments
  Payloads <- MCPayloads
  AbsoluteURIs = {"e", "f", "p", "q"}
  Namespaces = {"a", "b"}
  Suffixes = {"x", "y", "n"}
  NameRank <- MCNameRank
  MaxCalls = 1
SPECIFICATION Spec
INVARIANT IgnoresAtMembers
CHECK_DEADLOCK FALSE
