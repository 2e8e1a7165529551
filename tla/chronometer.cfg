SPECIFICATION Spec
CONSTANTS
  Width = 5
  NanosPerSecond = 4
  TrueHz = 8
  Rate = 2
  Boot = 20
  MaxTicks = 6
  DeclaredHz <- NoRate
  CalibrationNs = 3
  MaxGap = 1
  MaxSpin = 1
  ValueBits <- OneValueBit
  CodeBits <- OneCodeBit
  Upset <- FlipTwo
  HzFlips <- Single
  StartFlips <- Excessive
INVARIANTS
  RateIsSound
  ElapsedIsTrueOrCounted
  DriftBlamesTheRate
  SpinBelowTheWrapIsLongEnough
