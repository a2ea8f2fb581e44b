SPECIFICATION Spec
CONSTANTS
    Chars <- MCChars
    UINT16_MAX = 7
    INT16_MAX = 5
    CharLen = 4
    UnicodeLen = 3
    Executors <- MCExecutors
    Asked <- MCAsked
    Repeated <- MCRepeated
INVARIANTS
    TestIsMembership
    TestsFindAnEnd
    MatchesListEveryEnd
PROPERTY
    EveryCallReturns
