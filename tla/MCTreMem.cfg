CONSTANTS
    Sizes <- MCSizes
    TRE_MEM_BLOCK_SIZE = 16
    SIZE_MAX = 255
    MaxPieces = 6
SPECIFICATION Spec
INVARIANTS
    PiecesInsideBlocks
    PiecesDisjoint
    ChainReachesEverything
