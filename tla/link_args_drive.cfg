SPECIFICATION SpecLink
CONSTANTS
    SlaveCount = 1
    ArgLen = 1
    Arg <- MCArgOne
    InitWord <- MCInitWord
    ResetOnLoss = FALSE
    SeqMax = 6
    ReconnMod = 2
    CmdWords <- MCOneCommand
    Telemetry <- MCTelemetry
    MaxPubs = 2
    MaxCmds = 0
    LateCallbacks = 0
    Boards <- MCOneBoard
    SmWatchdog = FALSE
    SlowLinkUp = TRUE
    MayBeOutdated = FALSE
    SdoMayFail = FALSE
    MaxFaults = 1
    PauseFrames = 2
INVARIANTS OnlyCommandsActuate
CHECK_DEADLOCK FALSE
