SPECIFICATION LiveSpec
CONSTANTS
  Keys <- PlainKeys
  Set1 <- PlainSet1
  Set2 <- PlainSet2
  PacketLen = 3
  LineLen = 3
  MaxTyped = 3
  MaxLost = 2
  Pads = {pin1, pin2}
  Wire = pin1
  ActiveLevel = FALSE
  Needed = 2
  AuditEvery = 3
  GateStrikes = 2
  GiveUpAfter = 2
  Machines <- AllMachines
  Interval = 1
  Width = 3
  MaxLate = 1
INVARIANTS
  KeysArriveAsTyped
  CalibrationFindsTheWire
PROPERTIES
  CursorStopsWandering
  ReportsAreServed
