SPECIFICATION LineSpec
CONSTANTS
    ByteBits = 2
    Poly = 3
    MaxPayload = 2
    SOF0 = 2
    SOF1 = 1
    Gap = 4
    Empty = FALSE
    DataBits = 2
    Divisor = 4
    Slack = 1
INVARIANT BytesArrive
PROPERTY IsReference
