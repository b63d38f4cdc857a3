SPECIFICATION Spec
CONSTANTS
    Methods <- MCMethods
    Switch = Switch
    EmptyArg = EmptyArg
    MaxArgs = 3
CHECK_DEADLOCK FALSE
INVARIANTS
    TypeOK
    ExecutedMethodIsTheOnlyOne
PROPERTIES
    Terminates
