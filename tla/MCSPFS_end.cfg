SPECIFICATION Spec
CONSTANTS
    NBlocks = 5
    SectorBlocks = 4
    PageUnits = 3
    HeaderSize = 1
    DataOffset = 2
    LenMod = 64
    DirCap = 2
    Names = {a}
    Texts <- Long
    Sizes = {1}
PROPERTIES WriteStaysInside
CHECK_DEADLOCK FALSE
