SPECIFICATION Spec
CONSTANTS
  r1 = r1
  r2 = r2
  p1 = p1
  q1 = q1
  Readers = {r1, r2}
  Pollers = {}
  Purgers = {}
  FrameSizes = {2, 4}
  ReadCounts = {1, 6}
  InitCap = 20
  Caps = {}
  NumberOfUrbs = 2
  UrbPayload = 3
  Streams = {FALSE}
  Toggles = {"rx_multiple"}
  MaxFrames = 2
  Faults = {}
  MaxFaults = 0
  LeftoverSizes = {}
  LeftoverCounts = {}
  UintRange = 64
  Worker = Worker
  Nobody = Nobody
  NoFrame = NoFrame
SYMMETRY Symmetry
INVARIANTS
  TypeOK
  Aligned
  ReadCountExact
PROPERTIES
  EnobufsExplained
  ImplementsRxQueue
CHECK_DEADLOCK FALSE
