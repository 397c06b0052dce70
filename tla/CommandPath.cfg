SPECIFICATION PathSpec
CONSTANTS
    VoiceCount = 2
    Entries = 2
    MaxOut = 2
    Window = 2
    MaxDelay = 2
    TickMod = 6
    TimeMod = 32
    Commands <- PathCommands
    Offsets <- PathOffsets
    MaxAhead = 3
    MaxPass = 3
    Depth = 1
    Epoch = 30
    Horizon = 2
INVARIANTS NoOverrun ScheduleInOrder ChainWithinWindow ShadowIsTheFuture
PROPERTIES IsControl NeverEarly
CHECK_DEADLOCK FALSE
