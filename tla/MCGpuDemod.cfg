SPECIFICATION GpuSpec
CONSTANTS
  Lens <- MCLens
  RfTaps <- MCRfTaps
  MtfTaps <- MCMtfTaps
  HpfTaps <- MCHpfTaps
  EfmTaps <- MCEfmTaps
  VideoTaps <- MCVideoTaps
  VideoOffsets <- MCVideoOffsets
  AudioSlice <- MCAudioSlice
  AudioTaps <- MCAudioTaps
  BlockCut <- MCBlockCut
  HalfTurn = 32
  ClampLo = 6
  ClampHi = 48
  Ire50 = 20
  EfmMax = 40
  Callers <- MCCallers
  MaxBatch = 2
  CodeMax = 8
  Stream <- MCStream
  Scenarios <- MCScenarios
INVARIANTS KernelsAgree StreamTiles
