SPECIFICATION LaterSpec
CONSTANTS
    MaxPid = 3
    TickMod <- EarlyRange
    Horizon = 2
    Pauses = {0, 2}
    Intervals = {1, 2}
    Delays = {0, 1}
    Signals = {1}
INVARIANTS
    TypeOK
    
    PauseEndsOnTime
PROPERTIES
    PauseNotCutShort
    RemovedTaskNeverRuns
    
CHECK_DEADLOCK FALSE
