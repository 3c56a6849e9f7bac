SPECIFICATION FairSpec
CONSTANTS
  BufSize = 4
  CmdRecvTimeout = 5
  FrameLens <- MCFrameLens
  MaxChunk = 2
  FramePolls = 4
  MaxFrames = 3
INVARIANTS
  TypeOK
  InOrder
  NothingLost
  NoTornRead
PROPERTIES
  EveryByteParsed
