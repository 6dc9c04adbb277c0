SPECIFICATION Spec
CONSTANTS
  w1 = w1
  w2 = w2
  p1 = p1
  Writers = {w1, w2}
  Purgers = {p1}
  Sizes = {3, 6}
  InitCap = 9
  Caps = {5}
  TxFifoSize = 8
  MaxFrames = 2
  Faults = {"enomem", "copy", "submit", "urb"}
  MaxFaults = 1
  MaxUrbs = 1
  Tasklet = Tasklet
  Nobody = Nobody
  NoFrame = NoFrame
SYMMETRY Symmetry
INVARIANTS
  TypeOK
  AdmittedFits
  OutputWithinCap
  EstimateIsExact
  TransmitWithinBuffer
  WorkIsScheduled
  PurgeDropsOld
  SizeAnnouncedOnce
PROPERTIES
  FinishedWasAnnounced
  ImplementsTxQueue
CHECK_DEADLOCK FALSE
