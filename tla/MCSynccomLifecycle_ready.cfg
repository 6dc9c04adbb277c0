SPECIFICATION Spec
CONSTANTS
  f1 = f1
  f2 = f2
  f3 = f3
  Files = {f1}
  Hub = Hub
  Nobody = Nobody
INVARIANT
  FilesFindReadyPort
CHECK_DEADLOCK FALSE
