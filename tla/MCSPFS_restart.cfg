SPECIFICATION Spec
CONSTANTS
    NBlocks = 5
    SectorBlocks = 4
    PageUnits = 3
    HeaderSize = 1
    DataOffset = 2
    LenMod = 64
    DirCap = 2
    Names = {a}
    Texts <- Short
    Sizes = {1}
INVARIANTS FreeSpaceIsUsable
CHECK_DEADLOCK FALSE
