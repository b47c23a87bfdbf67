SPECIFICATION Spec
CONSTANTS
    Commands <- AllLines
    Typed <- Lines
    Scripts <- StartUp
    EnvFiles <- Stored
    Directories = {"root", "sub"}
    Samples = {2, 5}
    Watched = {1, 2}
    MaxLines = 3
    MaxTicks = 1
    MaxEdges = 1
    MaxRestarts = 1
INVARIANTS
    DeviceShowsVariable
    LoopHoldsLiveHandlers
PROPERTIES
    EnvComesBack
    
