SPECIFICATION FairShellSpec
CONSTANTS
    Jobs = {j1}
    NULL = NULL
    INITIAL_JOB_TABLE_CAPACITY = 1
    Pids = {p1, p2}
    SHELL = SHELL
    ExitCodes = {0, 1}
    MaySpawn = TRUE
    OutsideContinue = TRUE
    StopsEarly = FALSE
    LaunchMayFail = FALSE
    Commands <- LiveCommands
PROPERTIES
    VerdictIsTrue
    ZombiesAreReaped
    UpdateEnds
    BlocksOnTheLiving
