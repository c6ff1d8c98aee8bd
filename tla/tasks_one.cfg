CONSTANTS
    M2SLen = 36
    ArgBound = 1
    Boards <- MCBoards
    SlaveCount = 2
    MotorCount = 2
    Enabled <- MCEnabled
    Versions = {1, 2}
SPECIFICATION ViewsSpec
INVARIANTS
    TaskTypeOK
    ArgsFill
    EachKeepsItsOwn
    SlaveSeesCommand
    DisabledUntilCommand
    MessagesRight
CHECK_DEADLOCK FALSE
