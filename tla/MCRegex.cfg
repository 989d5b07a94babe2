CONSTANTS
    Chars <- MCChars
    WordChars <- MCWordChars
    Patterns <- MCPatterns
    Strings <- MCStrings
    EFlags <- MCEFlags
    MatchSlots <- MCMatchSlots
SPECIFICATION FairSpec
CHECK_DEADLOCK FALSE
INVARIANTS
    RefusesOnlyMalformed
    LeftmostLongest
    GroupsOfOneMatch
PROPERTIES
    SearchEnds
