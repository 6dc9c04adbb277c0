SPECIFICATION FairSpec
CONSTANTS
  r1 = r1
  r2 = r2
  p1 = p1
  q1 = q1
  Readers = {r1}
  Pollers = {q1}
  Purgers = {}
  FrameSizes = {3}
  ReadCounts = {6}
  InitCap = 20
  Caps = {}
  NumberOfUrbs = 2
  UrbPayload = 3
  Streams = {TRUE, FALSE}
  Toggles = {}
  MaxFrames = 2
  Faults = {"signal"}
  MaxFaults = 1
  LeftoverSizes = {}
  LeftoverCounts = {}
  UintRange = 64
  Worker = Worker
  Nobody = Nobody
  NoFrame = NoFrame
PROPERTIES
  SizesAreFetched
  WaitingEnds
CHECK_DEADLOCK FALSE
