SPECIFICATION FairSpec
CONSTANTS
    Data = {d1, d2}
    Depth = 4
INVARIANT LevelIsCautious
PROPERTIES IsBoundedQueue EachSideSees
