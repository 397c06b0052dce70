SPECIFICATION FairSpec
CONSTANTS
    Scores <- Pieces
    Capacity = 8
    Voices = 2
    MaxTime = 40
    Margin = 4
    MaxDelay = 3
    Horizon = 8
    LeadIn = 6
    Refill = 2
    WireTime = 1
    Late = 1
    Torn = 1
INVARIANTS NothingDropped AsWritten
PROPERTY PlayedToTheEnd
CHECK_DEADLOCK FALSE
