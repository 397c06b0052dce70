SPECIFICATION Spec
CONSTANTS
    VoiceCount = 3
    Entries = 1
    MaxOut = 3
    Window = 0
    MaxDelay = 0
    TickMod = 10
    TimeMod = 2
    Commands <- AllocatorCommands
    Offsets <- AtThisSample
    MaxAhead = 0
    MaxPass = 0
INVARIANT StampsTellApart
PROPERTIES IsVoicePool NoteOffSilencesOne
CHECK_DEADLOCK FALSE
