SPECIFICATION Spec
CONSTANTS
    MaxLen = 4
    Texts <- MCTexts
    Asked <- MCAsked
INVARIANTS
    TestSplitsTheInterval
    FrontIsLongest
    BackIsLongest
    ContainsFirstAndLast
CHECK_DEADLOCK FALSE
