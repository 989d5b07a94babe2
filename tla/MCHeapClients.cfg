CONSTANTS
    Addresses = {1, 2, 3, 4, 5, 6, 7, 8, 9, 10, 11, 12, 13, 14, 15, 16}
    MaxFaults = 2
    MaxCalls = 3
    Tree <- MCTree
    Patterns <- MCPatterns
    FlagSets <- MCFlagSets
    Offsets = {1}
    MaxPaths = 3
    Listings <- MCListings
    Selected <- MCSelected
    DEFARRSZ = 15
    WideTexts <- MCWideTexts
    ByteTexts <- MCByteTexts
    MaxTexts = 2
SPECIFICATION Spec
CHECK_DEADLOCK FALSE
INVARIANTS
    NothingLost
    ResultsAreTrue
    AllOrNothing
    StringsFit
PROPERTIES
    ResultsOnlyGrow
