CONSTANTS
  a1 = a1  a2 = a2  p1 = p1  q1 = q1  p2 = p2  none = none  x = x  y = y
  Block = {a1, a2}
  Parent <- MCParent
  Height <- MCHeight
  BurnBlock = {p1, q1, p2}
  BurnHeight <- MCBurnHeight
  Rewarded = {p1, p2}
  Slotted = {p1, q1}
  OtherKind = {"mempool", "drop", "attachments"}
  NoMessage = none
  MaxFaults = 2
SPECIFICATION StreamSpec
INVARIANTS BurnTablesExact AckedBlockDurable EventIndexIsRank MeaningKept StreamInv
PROPERTIES StreamLive
CHECK_DEADLOCK FALSE
