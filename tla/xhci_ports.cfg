SPECIFICATION Spec
CONSTANTS
  RingLen = 16
  MaxDevices = 2
  MaxSlots = 3
  SlowBoards <- NoBoards
  MaxReports = 1
  Boards <- Webcam
  OnForeignTrb <- RunOrHalt
INVARIANT FirstOfEachKindIsKept
