SPECIFICATION Spec
CONSTANTS
    Chars <- MCChars
    UINT16_MAX = 7
    INT16_MAX = 5
    CharLen = 2
    UnicodeLen = 0
    Executors <- AltRangeExecutors
    Asked <- MCAsked
    Repeated <- MCRepeated
INVARIANT TestIsMembership
