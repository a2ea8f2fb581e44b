SPECIFICATION Spec
CONSTANTS
    Chars <- MCChars
    UINT16_MAX = 7
    INT16_MAX = 5
    Systems <- MCSystems
    Names <- MCNames
    NoRegex <- MCNoRegex
    Parse <- parseText
    ConstNames <- constNamesOf
    EnvRequired <- envRequiredBy
    CompileErrors <- errorsOfCompile
    Executor <- executorFrom
INVARIANTS
    TypeOK
    PendingIsAPath
    NamesAreBuilt
    DependenciesAreNamed
    FailureIsReported
    ErrorsAreTrue
    AlikeTextsAreMeant
PROPERTIES
    Implements
CHECK_DEADLOCK FALSE
