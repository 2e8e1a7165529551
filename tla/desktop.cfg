SPECIFICATION LiveSpec
CONSTANTS
  ValueBits <- OneValueBit
  CodeBits <- OneCodeBit
  Upset <- NoWidth
  Damages <- OneByOne
  Modes <- TwoModes
  Kernels <- SomeKernels
  RowsFor <- SomeRows
  Available = {"scalar", "aes"}
  Virtualized = TRUE
  UpsetBudget = 4
  MaxCalibrations = 1
INVARIANTS
  WindowMatchesTasks
PROPERTIES
  WindowComesBack
  LossesAreAnnounced
  DamageIsHealed
