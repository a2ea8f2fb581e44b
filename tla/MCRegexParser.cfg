\* Parsing and printing: texts of fragments, texts near the anchored templates
SPECIFICATION ParsingSpec
CONSTANTS
    Chars = {}
    UINT16_MAX = 20
    INT16_MAX = 10
    Sessions <- MCSessions
    Trees <- MCTrees
INVARIANTS
    WantedIsKept
    AcceptedIsWellBuilt
    UnnamedParsesBack
    BlanksAreIgnored
    BuildsWhatIsWritten
PROPERTY EveryParseReturns
CHECK_DEADLOCK FALSE
