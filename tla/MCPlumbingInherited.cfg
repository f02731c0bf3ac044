SPECIFICATION FairPlumbingSpec
CONSTANTS
    Lines <- MCLines
    Builtins = {"jobs"}
    PipeCapacity = 1
    BuiltinOutput = 2
PROPERTIES
    EndAlwaysReachesReaders
CHECK_DEADLOCK FALSE
