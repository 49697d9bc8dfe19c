CONSTANTS
    Length = 12
    Garbled = Garbled
    Chunk = 4
    Formats <- MCFormats
    Targets <- MCTargets
SPECIFICATION FairSpec
CHECK_DEADLOCK FALSE
INVARIANTS ChannelsCounted
PROPERTIES ImplementsStream CallsEnd
