CONSTANTS
    Buses <- MCBuses
    Types <- MCTypes
    Overlapped <- MCOverlapped
    ClockSpan = 4096
    EC_MAXLRWDATA = 8
    EC_FIRSTDCDATAGRAM = 2
    SyncDelay = 5
    Cycles <- MCCycles
    Shifts <- MCShifts
    Times <- MCTimes
    Synced <- MCSynced
SPECIFICATION Spec
INVARIANTS BusSafe ParentsFound ClocksTogether MappingsTrue FramesCarryImage CounterTells FullCounterIsFresh
\* A bus whose slaves have been synchronized exchanges no data.
CHECK_DEADLOCK FALSE
