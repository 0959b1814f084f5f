CONSTANTS
  Queries <- MCQueries
  ParserLimits <- MCParserLimits
  DefaultLimits <- MCDefault
  SortNameBytes = 1
  Calls = {c1}
SPECIFICATION Spec
INVARIANTS
  LimitsExact
  AdmitExact
  AdmitsParsed
