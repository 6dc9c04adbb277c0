SPECIFICATION Spec
CONSTANTS
  r1 = r1
  r2 = r2
  p1 = p1
  q1 = q1
  Readers = {r1}
  Pollers = {}
  Purgers = {p1}
  FrameSizes = {3}
  ReadCounts = {6}
  InitCap = 20
  Caps = {}
  NumberOfUrbs = 2
  UrbPayload = 3
  Streams = {FALSE}
  Toggles = {}
  MaxFrames = 2
  Faults = {}
  MaxFaults = 0
  LeftoverSizes = {}
  LeftoverCounts = {}
  UintRange = 64
  Worker = Worker
  Nobody = Nobody
  NoFrame = NoFrame
INVARIANT
  PurgeStartsFresh
CHECK_DEADLOCK FALSE
