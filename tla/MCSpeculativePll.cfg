CONSTANTS
    Inputs = {a, b, none}
    NoEfm = none
    States <- MCStates
    PowerOn <- MCPowerOn
    PllState <- MCPllState
    PllOut <- MCPllOut
    TValues <- MCTValues
    MaxTokens = 3
    MaxWritten = 4
SPECIFICATION Spec
CHECK_DEADLOCK FALSE
INVARIANTS SpeculationSound
PROPERTIES ImplementsSerial
