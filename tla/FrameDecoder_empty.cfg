SPECIFICATION DecoderFairSpec
CONSTANTS
    ByteBits = 2
    Poly = 3
    MaxPayload = 2
    SOF0 = 2
    SOF1 = 1
    Gap = 4
    Empty = TRUE
PROPERTY ReplayEnds
