SPECIFICATION Spec
CONSTANTS
  Horizon = 1000
  CyclesPerFrame = 6
  SpuPeriod = 2
  AckDelay = 3
  CommandDelays = {5}
  SecondDelays = {4}
  SectorDelays = {6}
  MaxSectorCopies = 1
  MaxTicks = 1
  MaxLate = 1
INVARIANTS TypeOK NoEventOverlooked IdleNeverFires SpuAtMostOnePeriodEarly
PROPERTIES RequestsAreAnswered FramesKeepComing QuitIsNoticed
