CONSTANTS
    Calls <- MCCalls
    Follows <- MCFollows
    Hooked <- MCHooked
    Ethernet <- MCEthernet
    FieldSize <- MCFieldSize
    FrameRoom = 24
    Block = 8
    mbx_l = 21
    MaxCnt = 3
    MaxFaults = 2
    MaxAnswers = 1
    MaxCalls = 2
    EC_MAXELIST = 2
SPECIFICATION Spec
INVARIANTS SdoSafe FailsOnlyDisturbed TransfersWhole
PROPERTIES CallEnds
\* The calls are bounded.
CHECK_DEADLOCK FALSE
