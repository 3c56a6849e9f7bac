SPECIFICATION FairSpec
CONSTANTS
  FrameDepth = 4
  QueueSize = 2
  HostIsSlow = TRUE
INVARIANTS
  TypeOK
  SpiOffWithRadar
  ControlBlockFree
  NoStaleChirps
PROPERTIES
  QueuedInOrder
  FrameEnds
  RadarReturns
  TestUndisturbed
