SPECIFICATION Spec
CONSTANTS
  Frame = {f1, f2, f3}
  Rows = 3
  Unset = Unset
INVARIANTS TypeOK NoRace
PROPERTIES RefinesFrameRegister
