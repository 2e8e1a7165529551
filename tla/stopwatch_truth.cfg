SPECIFICATION TruthSpec
CONSTANTS
  Width = 3
  NanosPerSecond = 3
  TrueHz = 2
  Boot = 7
  MaxTicks = 2
  MaxLaps = 1
  MaxFolds = 1
  UpsetBudget = 4
  ValueBits <- OneValueBit
  CodeBits <- OneCodeBit
  Upset <- XorBits
  Exposed <- RunWords
  MaxFlips <- Excessive
INVARIANT WrongReadingIsCounted
