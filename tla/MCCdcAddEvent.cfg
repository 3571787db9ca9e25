SPECIFICATION Spec
CONSTANTS
  Horizon = 1000
  CyclesPerFrame = 1
  SpuPeriod = 1
  AckDelay = 2
  MaxTicks = 1
  MaxLate = 0
  MaxSectorCopies = 1
  CommandTicks = 1
  InitTicks = 2
  SecondTicks = 1
  PauseTicks <- MCPauseTicks
  SectorTicks <- MCSectorTicks
  ParameterFifoSize = 1
  SectorWords = 1
  EndOfDisc = 3
  Commands = {"SetLoc", "ReadN", "Pause", "Init", "SetMode", "SeekL", "Test", "GetId"}
  Locations = {1}
  EnableSets <- MCEnableSets
  AckSets <- MCAckSets
INVARIANT CommandEventIsInactive

