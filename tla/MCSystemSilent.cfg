SPECIFICATION Spec
CONSTANTS
    Chars <- MCChars
    UINT16_MAX = 7
    INT16_MAX = 5
    Systems <- MCSystems
    Names <- MCNames
    NoRegex <- MCNoRegex
    Parse <- parseText
    ConstNames <- constNamesOf
    EnvRequired <- envRequiredBy
    CompileErrors <- errorsOfCompile
    Executor <- executorFrom
INVARIANT
    NoErrorsMeansExecutors
CHECK_DEADLOCK FALSE
