SPECIFICATION TeardownSpec
CONSTANTS
  f1 = f1
  f2 = f2
  f3 = f3
  Files = {f1, f2, f3}
  Hub = Hub
  Nobody = Nobody
INVARIANTS
  TypeOK
  FileKeepsPort
  NoPortIsLeaked
  PowerBalanced
PROPERTIES
  NothingStartsOnFreedPort
  DisconnectReturns
CHECK_DEADLOCK FALSE
