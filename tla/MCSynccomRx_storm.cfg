SPECIFICATION Spec
CONSTANTS
  r1 = r1
  r2 = r2
  p1 = p1
  q1 = q1
  Readers = {r1}
  Pollers = {}
  Purgers = {p1}
  FrameSizes = {3}
  ReadCounts = {6}
  InitCap = 4
  Caps = {6}
  NumberOfUrbs = 2
  UrbPayload = 3
  Streams = {TRUE, FALSE}
  Toggles = {"append_status"}
  MaxFrames = 2
  Faults = {"urb", "errorcheck", "enomem", "register", "copy"}
  MaxFaults = 1
  LeftoverSizes = {0, 40}
  LeftoverCounts = {2}
  UintRange = 64
  Worker = Worker
  Nobody = Nobody
  NoFrame = NoFrame
INVARIANTS
  InputWithinCap
  FetchFindsSize
  NoLostWake
PROPERTY
  EnobufsExplained
CHECK_DEADLOCK FALSE
