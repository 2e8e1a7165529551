SPECIFICATION LiveSpec
CONSTANTS
  ValueBits <- OneValueBit
  CodeBits <- OneCodeBit
  Upset <- FlipEight
  EVENTS_PER_FRAME = 2
  MAX_LAPS = 2
  DEFAULT_NS = 2
  STEP_NS = 1
  Hz = 2
  NS_PER_S = 3
  CardsFade = 1
  Damages <- OfEachTier
  MaxTicks = 2
  MaxTarget = 2
  MaxPresses = 5
INVARIANTS
  WrongTimeIsFlagged
  TimerSpendsWhatItRan
  SessionCardIsCurrent
PROPERTY ChangesReachTheScreen
