SPECIFICATION FairSpec
CONSTANTS
    CommandBytes = 2
    StatusBytes = 2
    Requests <- EveryKind
    Faults = {"crc"}
    ByteTime = 1
    Depth = 1
    Gap = 2
INVARIANTS WholeFrames WritesLand
PROPERTIES FlagsOutlast IsReplySlot AlwaysAnswers
