SPECIFICATION MCSpec
CONSTANTS
    ByteBits = 2
    Vector = 136
    BootVector = 168
    Istat = 248
    Imask = 252
    RamWords = {0, 4}
    Garbage = 165
PROPERTIES ImplementsInterpreter
CHECK_DEADLOCK FALSE
