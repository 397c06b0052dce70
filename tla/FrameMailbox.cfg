SPECIFICATION MailSpec
CONSTANTS
    Depth = 4
    CommandBytes = 2
    Bodies = {2, 3}
    Frames = {f1, f2, f3, f4, f5}
    Data <- Words
INVARIANTS NeverMisSliced DroppedWhole StreamIsFrames
