SPECIFICATION LiveSpec
CONSTANTS
  RingLen = 5
  MaxDevices = 2
  MaxSlots = 3
  SlowBoards <- Slow
  MaxReports = 4
  Boards <- PlainAndSlow
  OnForeignTrb <- RunOrHalt
INVARIANTS
  AnswersAreTheRequests
  EventsAreTakenOnce
PROPERTIES
  QueuedWorkIsNotOverwritten
  BringUpEnds
