SPECIFICATION Spec
CONSTANTS
    Chars <- MCChars
    UINT16_MAX = 7
    INT16_MAX = 5
    CharLen = 0
    UnicodeLen = 2
    Executors <- FromLetterAExecutors
    Asked <- BackAsked
    Repeated <- BackAsked
PROPERTY EveryCallReturns
