SPECIFICATION FairSpecLink
CONSTANTS
    SlaveCount = 1
    ArgLen = 1
    Arg <- MCArgOne
    InitWord <- MCInitWord
    ResetOnLoss = FALSE
    SeqMax = 6
    ReconnMod = 2
    CmdWords <- MCOneCommand
    Telemetry <- MCTelemetry
    MaxPubs = 2
    MaxCmds = 1
    LateCallbacks = 0
    Boards <- MCBoards
    SmWatchdog = FALSE
    SlowLinkUp = TRUE
    MayBeOutdated = FALSE
    SdoMayFail = FALSE
    MaxFaults = 1
    PauseFrames = 2
PROPERTIES WorkingRecovers
CHECK_DEADLOCK FALSE
