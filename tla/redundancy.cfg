SPECIFICATION Spec
CONSTANTS
  DataWidth = 3
  ParityWidth = 3
  Values = {{}, {0, 2}}
  Exposed <- EveryBit
  FlipsPerCopy = 2
  UpsetBudget = 4
INVARIANTS
  AnswersAreTrue
  RecoverableIsRecovered
PROPERTIES
  RepairIsComplete
  KeepsPromise
