CONSTANTS
  h1 = h1  h2 = h2  h3 = h3
  Exports <- MCExports
  Documented <- WithMissing
  Signals = {"SIGINT", "SIGTERM"}
  MaxMessages = 2
  MaxClients = 2
  BatchSize = 2
  MaxFaults = 2
SPECIFICATION ProcessSpec
INVARIANTS StoreClosedLast BnsAllOrNothing ReachesIntended ProcessInv
PROPERTIES ProcessLive
CHECK_DEADLOCK FALSE
