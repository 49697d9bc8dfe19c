CONSTANTS
    BlockLen = 5
    BlockSize = 4
    ReadLen = 3
    PrefetchBlocks = 2
    CacheSize = 4
    Mtfs = {m0, m1}
    Levels = {l0, l1}
    ReadlocBlocks = {0, 1, 3, 4}
    CaptureLen = 28
    ReadEnd = 24
    Windows <- MCWindows
SPECIFICATION Spec
CHECK_DEADLOCK FALSE
INVARIANTS CacheListed
PROPERTIES RedoServesFresh ImplementsSerial
