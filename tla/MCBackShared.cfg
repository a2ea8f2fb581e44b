SPECIFICATION Spec
CONSTANTS
    MaxLen = 3
    Texts <- MCTexts
    Asked <- BackSharedAsked
INVARIANT BackIsLongest
CHECK_DEADLOCK FALSE
