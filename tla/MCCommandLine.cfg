\* The brex tool: options and words in every order
SPECIFICATION Spec
CONSTANTS
    CommandLines <- MCCommandLines
    EnvNames = {E, F}
    EnvValues <- MCEnvValues
    MaxArgs = 4
INVARIANTS
    StdinWhenAskedFirst
    CompiledWithItsEnvironment
CHECK_DEADLOCK FALSE
