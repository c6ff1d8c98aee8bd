SPECIFICATION FairSpec
CONSTANTS
    SlaveCount = 1
    ArgLen = 3
    Arg <- MCArgThree
    InitWord <- MCInitWord
    ResetOnLoss = FALSE
    SeqMax = 6
    ReconnMod = 2
    CmdWords <- MCCommands
    Telemetry <- MCTelemetry
    MaxPubs = 5
    MaxCmds = 2
    LateCallbacks = 1
INVARIANTS TypeOK ArgsDelivered OnlyCommandsActuate LatestCommandKept ExitResetsOnTime
PROPERTIES FreshSample PublishesTelemetry ImplementsTransfer KeepsPublishing ShutdownCompletes
\* The data thread ends after a shutdown.
CHECK_DEADLOCK FALSE
