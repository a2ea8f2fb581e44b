SPECIFICATION Spec
CONSTANTS
    Chars <- MCChars
    UINT16_MAX = 7
    INT16_MAX = 5
    WordLen = 4
    Requests <- MCRequests
INVARIANTS
    AllOrNothing
    EmitsWellFormed
    CompilesTheLanguage
    RefusesExactlyTheBad
CHECK_DEADLOCK FALSE
