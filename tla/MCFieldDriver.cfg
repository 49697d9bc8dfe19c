CONSTANTS
    Ratios = {0, 1, 3}
    NoRatio = NoRatio
    Keeps = {1, 2}
    MtfLevel <- MCMtfLevel
    InitialLevel = 3
    NearLevels <- MCNearLevels
    Offsets = {1, 2}
    End = 6
SPECIFICATION FairSpec
INVARIANTS PrevfieldIsPredecessor LastWrittenIsItsEntry
PROPERTIES ImplementsPipeline ReachesEnd
