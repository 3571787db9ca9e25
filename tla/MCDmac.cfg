CONSTANTS
    VramWidth = 3
    VramHeight = 3
    Interrupt = {"Dma", "Vblank"}
    RamWords = 25
    AddressWords = 64
    Table <- Tables
    Node <- Nodes
    Packet <- Packets
    Buffer = 23
    DicrSetting <- Settings
SPECIFICATION FairSpec
INVARIANTS TypeOK InStep RectanglesInOrder SignalledUntilHandled
PROPERTIES TransfersEnd CompletionsAreHandled
