CONSTANTS
    Chars <- MCChars
    WordChars <- MCWordChars
    Patterns <- BackrefPatterns
    Strings <- MCStrings
    EFlags <- MCEFlags
    MatchSlots <- MCMatchSlots
SPECIFICATION Spec
CHECK_DEADLOCK FALSE
INVARIANTS
    BackrefsLeftmostLongest
