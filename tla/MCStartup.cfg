CONSTANTS
    Jobs <- MCJobs
    Bytes = 3
    DrainBlock = 2
    DrainQueue = 1
    PipeCap = 1
    ProbeWindow = 2
SPECIFICATION FairSpec
INVARIANTS
    OpensWhatItHolds
    RefusedUntouched
    PipeDelivers
PROPERTIES
    JsonOfDecoded
    PipeEnds
