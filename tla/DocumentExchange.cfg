CONSTANTS
  AtNames <- MCAtNames
  MaxNestingDepth = 4
  Valid <- MCValid
  Built <- MCBuilt
  Payloads <- MCPayloads
  Options <- MCOptions
  None = None
  Fresh = "fresh"
  AtomicExtensionURI = "u:u"
SPECIFICATION ExchangeSpec
INVARIANTS
  DeliversWhatIsSent
  RelaysWhatItReads
  AcceptsWhatContextDemands
CHECK_DEADLOCK FALSE
