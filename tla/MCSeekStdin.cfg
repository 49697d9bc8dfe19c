CONSTANTS
    Fields = 10
    Defect = 3
    Length = 61
    BlockLen = 3
    BlockSize = 2
    BlockCut = 1
    ReadLen = 5
    PrefetchBlocks = 1
    RewindBand = 4
    CapBlocks = 2
    FieldLen = 6
    ScanFields = 4
    Tries = 3
    Skips = {1, 6, 13}
    Targets = {2, 3}
    Frames = {0, 1, 4}
    FramesPerSecond = 25
    Discs <- MCDiscs
SPECIFICATION Spec
CHECK_DEADLOCK FALSE
INVARIANTS DecodeReadsFromBase
