SPECIFICATION Spec
CONSTANTS
    SlaveCount = 1
    ArgLen = 1
    Arg <- MCArgOne
    InitWord <- MCInitWord
    ResetOnLoss = FALSE
    SeqMax = 6
    ReconnMod = 2
    CmdWords <- MCOneCommand
    Telemetry <- MCTelemetry
    MaxPubs = 1
    MaxCmds = 1
    LateCallbacks = 1
INVARIANTS ExitResets
CHECK_DEADLOCK FALSE
