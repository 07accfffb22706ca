CONSTANTS
  None = None
  Session = {s1, s2}
  Intents <- MCIntents
  Rates = {0, 2}
  Size = 2
  MaxFaults = 1
SPECIFICATION RosettaSpec
INVARIANTS MinedIsIntended PlainBlockReconciles RosettaInv
PROPERTIES RosettaLive
CHECK_DEADLOCK FALSE
