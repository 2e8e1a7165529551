SPECIFICATION Spec
CONSTANTS
  Width = 3
  NanosPerSecond = 3
  TrueHz = 2
  Boot = 6
  MaxTicks = 2
  MaxLaps = 1
  UpsetBudget = 3
  ValueBits <- TwoValueBits
  CodeBits <- OneCodeBit
  Upset <- XorBits
  Exposed <- OwnWords
  MaxFlips <- OneReplica
INVARIANTS
  OriginOnlyWhileRunning
PROPERTY KeepsTime
