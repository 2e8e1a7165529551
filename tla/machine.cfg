SPECIFICATION AllSpec
CONSTANTS
  Inputs <- InputsOf
  MaxPath = 3
  Budget = 60
  IntBits = 3
  Depth = 2
  EisaName <- NameOfNumber
  Cid = "PNP0C50"
  Uuid <- HidUuid
  MaxRegister = 6
  Windows = 2
  GpioPath <- GpioController
  MostInfo = 1000
  IdentityMap = 9
  Slots = 2
  Functions = 2
  Half = 8
  Limit = 100
  Header = 36
  MostRoot = 80
  MostTable = 60
  MostAml = 70
  MaxReports = 3
  MaxUsages = 3
  ByteBits = 8
  FifoDepth = 2
  MaxTracked = 2
  LegacyCount = 2
  CoreDefault = 2
  Word = 16
  LongestBody = 2
  Era = 24
  Delta = 9
  LongestQuery = 4
  MostSent = 2
  Threads = {1, 2}
  LongestPairing = 3
  Rate = 2
  Cpus = {1, 2}
  LongestGap = 3
  Slowest = 2
  Fastest = 3
  Longest = 3
  MostFiles = 3
  Payload = 2
  Calls = 2
  Loops <- LoopsOfPasses
  Repeats <- RepeatsOfPasses
  Threshold = 5
  Hz = 4
  Lowest = 2
  Highest = 9
  AssumedCrystal = 2
  UnknownHz = 1
  Interval = 3
  HalfDay = 2
  Minutes = 3
  Seconds = 2
  Base = 2
  Nibble = 4
  Tries = 2
  LongestStart = 9
  LongestRun = 5
  Width = 3
  Height = 2
  Pitch = 4
  ShadowWidth = 3
  ShadowHeight = 2
  Size = 2
  Edge = 6
  Title = 7
  Draws <- SomeDraws
  Frames = 2
  WidthOf <- BodyWidths
  TitleWidth = 100
  ReadoutWidth <- Readouts
  Line <- FaceLines
  MostLaps = 6
  Changes = 1
INVARIANTS
  TablesAreAnswered
  MachineIsDescribed
  ReportsMeanTheSame
  TransfersAreWhole
  CountersAreTrue
  TimesAreTrue
  WorkIsAccountedFor
  NothingMissingIsRun
  VerdictFollowsTheMachine
  BootCanBePlaced
  ScreenIsTheScene
  NothingOverlaps
  DevicesComeUp
