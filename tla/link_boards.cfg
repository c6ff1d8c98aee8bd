SPECIFICATION SpecLink
CONSTANTS
    SlaveCount = 1
    ArgLen = 1
    Arg <- MCArgOne
    InitWord <- MCInitWord
    ResetOnLoss = FALSE
    SeqMax = 6
    ReconnMod = 1
    CmdWords <- MCOneCommand
    Telemetry <- MCTelemetry
    MaxPubs = 2
    MaxCmds = 0
    LateCallbacks = 0
    Boards <- MCBoards
    SmWatchdog = TRUE
    SlowLinkUp = FALSE
    MayBeOutdated = TRUE
    SdoMayFail = TRUE
    MaxFaults = 2
    PauseFrames = 0
INVARIANTS LinkSafe
PROPERTIES LostIsQuiet
CHECK_DEADLOCK FALSE
