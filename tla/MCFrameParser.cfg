CONSTANTS
  BodyLen = 4
  BUF_LEN = 24
  FrameDepth = 2
  Bodies <- MCBodies
  DataTypes <- MCTypes
SPECIFICATION Spec
INVARIANTS TypeOK DispatchedWhole BackInStep
