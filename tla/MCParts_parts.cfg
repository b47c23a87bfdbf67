SPECIFICATION PartsSpec
CONSTANTS
    Buzzers = {buzzer}
    Strips = {strip}
    Melodies <- TwoMelodies
    Patterns <- TwoPatterns
    Leds = 2
    MaxTasks = 2
    SizeRange = 16
    Opens <- OpenLines
    MaxDevices = 6
    Gpios = {6}
    Pwms = {2, 3}
    Frequencies = {8, 1000, 40000}
    MaxPinOpens = 3
    DisplayKinds <- Shown
    Texts <- Words
    Keys <- Typed
    Values <- Known_
    MaxLine = 4
    ChunkSize = 7
    BufferCap = 16
    MaxFrames = 2
    MaxPending = 10
    Signatures = {"A", "B"}
    FieldContents <- SomeContents
    SpaceRange = 64
    MaxAppends = 3
    Uploads = {"u1", "u2"}
    Downloads = {"d"}
    Visits = {"v"}
    Pieces = 2
    MaxStarted = 2
    Chunks = 1
    LastChunk <- LastBytes
    MaxManual = 1
    Colours = {90, 300}
    NotANumber = NotANumber
    StripCms <- StripTexts
    PatternLengths <- LengthTexts
    Jumps <- JumpTexts
    RelayKinds <- SomeRelays
    PortSize = 3
    PortRoom = 2
    RelayJunks = 2
    MaxArrivals = 6
    ByteStrings <- SomeBytes
    Ints <- SomeInts
    FieldNames <- SomeNames
    DefaultLeds = 3
    MaxEdits = 4
    MaxThreads = 1
    Sets <- SetWords
    Garbage <- Unread
    TaskTimeout = 2
    MaxSets = 2
    Lapses = {50, 3540}
    MaxLapses = 2
INVARIANTS
    SoundHasPlayer
    
    ReaderIsUser
    ClaimsFit
    PinsAsConfigured
    PictureIsText
    QuotesAgree
    ReadingsAreSent
    FieldsReadBack
    
    PaintSurvives
    
    RelaysKeepOrder
    ClockObeys
PROPERTIES
    StoppedShowsOneFrame
    
CHECK_DEADLOCK FALSE
