\* All three connectors, the loop and one request to sync now, every fault once.
SPECIFICATION SyncFairSpec
CONSTANTS
  Size = 2
  Connectors = {"imap", "gmail", "graph"}
  Workers = {loop, r1}
  Loop = loop
  Limit = 1
  PageSize = 1
  MaxPages = 2
  MaxClock = 4
  MaxFaults = 1
INVARIANTS
  SyncTypeOK
  CursorCovers
PROPERTIES
  Converges
CHECK_DEADLOCK FALSE
