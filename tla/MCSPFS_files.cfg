SPECIFICATION Spec
CONSTANTS
    NBlocks = 6
    SectorBlocks = 4
    PageUnits = 3
    HeaderSize = 1
    DataOffset = 2
    LenMod = 64
    DirCap = 2
    Names = {a, b}
    Texts <- ShortAndLong
    Sizes = {2}
INVARIANTS TypeOK NothingTorn FreeSpaceIsErased SearchFindsFree
 
CHECK_DEADLOCK FALSE
