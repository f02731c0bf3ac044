SPECIFICATION FairSpec
CONSTANTS
    N = 3
    MayFail = TRUE
    MayDie = TRUE
INVARIANTS
    TypeOK
    GroupIsThere
    RunsWhereItShould
    NoEndKept
PROPERTIES
    ImplementsLaunch
    LaunchEnds
    ChildrenDecide
CHECK_DEADLOCK FALSE
