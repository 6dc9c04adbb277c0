SPECIFICATION FairSpec
CONSTANTS
  w1 = w1
  w2 = w2
  p1 = p1
  Writers = {w1}
  Purgers = {p1}
  Sizes = {3}
  InitCap = 9
  Caps = {}
  TxFifoSize = 8
  MaxFrames = 1
  Faults = {}
  MaxFaults = 0
  MaxUrbs = 1
  Tasklet = Tasklet
  Nobody = Nobody
  NoFrame = NoFrame
PROPERTY
  PurgeReturns
CHECK_DEADLOCK FALSE
