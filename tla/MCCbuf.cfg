SPECIFICATION Spec
CONSTANTS
  Capacity = 8
  ElementSize = 2
  Chunk = 3
  Request = 5
  MaxSamples = 26
INVARIANTS TypeOK NoRace NothingOverwritten NoShortRead
PROPERTIES RefinesBoundedFifo SamplesArePlayed
