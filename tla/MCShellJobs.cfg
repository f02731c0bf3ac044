SPECIFICATION ShellSpec
CONSTANTS
    Jobs = {j1, j2}
    NULL = NULL
    INITIAL_JOB_TABLE_CAPACITY = 1
    Pids = {p1, p2}
    SHELL = SHELL
    ExitCodes = {0, 1}
    MaySpawn = FALSE
    OutsideContinue = TRUE
    StopsEarly = FALSE
    LaunchMayFail = FALSE
    Commands <- JobCommands
SYMMETRY Symmetry
INVARIANTS
    ShellTypeOK
    AnnouncedAtPrompt
    NothingLost
    StatusCatchesUp
    TerminalAtPrompt
PROPERTIES
    RemovalAnnounced
    ExitLeavesNoChild
    ChiefGivesCode
