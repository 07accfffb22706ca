CONSTANTS
  Address = {a1}
  N = 1
  Window = 1
  TriggerCount = 2
  StackingWindow = 2
  StackingTriggerCount = 1
  RowLimit = 2
  MaxTime = 2
  MaxRequests = 3
  MaxFaults = 1
SPECIFICATION FaucetsSpec
INVARIANTS RequestsLimited PaidOnce AnsweredKept FaucetsInv
PROPERTIES FaucetsLive
CHECK_DEADLOCK FALSE
