SPECIFICATION FairPollSpec
CONSTANTS
  w1 = w1
  w2 = w2
  q1 = q1
  Writers = {w1, w2}
  Purgers = {}
  Pollers = {q1}
  Sizes = {6}
  InitCap = 6
  Caps = {}
  TxFifoSize = 8
  MaxFrames = 2
  Faults = {}
  MaxFaults = 0
  MaxUrbs = 1
  Tasklet = Tasklet
  Nobody = Nobody
  NoFrame = NoFrame
INVARIANTS
  RoomIsNoticed
PROPERTIES
  AcceptedFrameIsSent
  WriteReturns
  PollReturns
CHECK_DEADLOCK FALSE
