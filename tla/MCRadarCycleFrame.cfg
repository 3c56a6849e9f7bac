SPECIFICATION Spec
CONSTANTS
  FrameDepth = 4
  QueueSize = 2
  HostIsSlow = TRUE
PROPERTY
  OnlyCompleteFrames
