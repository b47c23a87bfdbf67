SPECIFICATION Spec
CONSTANTS
    MaxPid = 3
    TickMod <- EarlyRange
    Horizon = 1
    Pauses = {}
    Intervals = {}
    Delays = {}
    Signals = {}
INVARIANTS EveryIterationCompletes
CHECK_DEADLOCK FALSE
