CONSTANTS
    Streams <- MCStreams
    Levels = {l0}
    Bound = 2
    Room = 3
    Early = 2
    Grid = 4
    MaxFields = 6
    Behind = 2
    MaxLost = 1
SPECIFICATION FairSpec
CHECK_DEADLOCK FALSE
INVARIANTS TypeOK StreamsInStep CleanExitIsComplete LossIsLocal JsonAsDrained
PROPERTIES Exits
