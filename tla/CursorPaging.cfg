CONSTANTS
  Results = 5
  Families <- MCFamilies
  DefaultSize = 1
  MaxSize = 2
  RangePolicies = {TRUE, FALSE}
SPECIFICATION Spec
INVARIANTS
  TypeOK
  CallbacksObeyed
  DeliveredIsFull
  LinksLeadThrough
CHECK_DEADLOCK FALSE
