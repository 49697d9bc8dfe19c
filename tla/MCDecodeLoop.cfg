CONSTANTS
    Length = 56
    BlockLen = 3
    BlockSize = 2
    BlockCut = 1
    ReadLen = 3
    PrefetchBlocks = 1
    RewindBand = 4
    CapBlocks = 7
    Starts = {9}
    Offsets = {4, 37}
    Rewinds = {4, 15}
    MaxRewinds = 1
    MaxFields = 1
    Limits = {1, 2}
SPECIFICATION FairSpec
CHECK_DEADLOCK FALSE
INVARIANTS WindowIsInput BandSuffices WindowBounded EndsAtEnd
PROPERTIES Ends
