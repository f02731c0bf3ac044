SPECIFICATION FairPlumbingSpec
CONSTANTS
    Lines <- MCLines
    Builtins = {"jobs"}
    PipeCapacity = 1
    BuiltinOutput = 2
INVARIANTS
    HoldsItsOwnPipes
    OpenAsLongAsNeeded
PROPERTIES
    ImplementsStreams
    EndReachesReaders
    WritesGetThrough
CHECK_DEADLOCK FALSE
