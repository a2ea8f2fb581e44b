SPECIFICATION FairSpec
CONSTANTS
    Chars <- MCChars
    UINT16_MAX = 5
    INT16_MAX = 3
    Machines <- MCMachines
INVARIANTS
    TypeOK
    AcceptIsSimple
    NeverAborts
    CountInBounds
    WorklistSound
PROPERTIES
    ReturnsClosed
    ImplementsSteps
