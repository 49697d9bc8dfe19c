SPECIFICATION Spec
CHECK_DEADLOCK FALSE
CONSTANTS
  LineLen = 20
  Systems <- MCSystems
  NextSearch = 40
  SkipLimit = 38
  EndAnchored = 23
  BlockLen = 260
  BlockSize = 250
  ReadLen = 1040
  PrefetchBlocks = 0
  BlockCut = 6
  SkipLines = 31
  Second = 1800
  Tapes <- MCTapes
INVARIANTS
  TypeOK
  NoFieldLost
  Relocks
  LinesAscend
PROPERTY
  Advances
