SPECIFICATION ShellSpec
CONSTANTS
    Jobs = {j1, j2}
    NULL = NULL
    INITIAL_JOB_TABLE_CAPACITY = 1
    Pids = {p1, p2, p3}
    SHELL = SHELL
    ExitCodes = {0, 1}
    MaySpawn = FALSE
    OutsideContinue = FALSE
    StopsEarly = FALSE
    LaunchMayFail = TRUE
    Commands <- StopCommands
SYMMETRY Symmetry
INVARIANTS
    NoStrayWait
    GroupsAreDistinct
