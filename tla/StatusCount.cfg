SPECIFICATION StatusSpec
CONSTANTS
    Bits = 6
    DigitBits = 2
    Digits = 3
    Pace = 1
    MaxAsked = 3
INVARIANTS ReadsARecentCount TornByOneCarry FreshAnswer
PROPERTY CountsInOrder
