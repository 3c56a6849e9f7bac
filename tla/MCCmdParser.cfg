CONSTANTS
  BufLen = 14
  Bodies <- MCBodies
  NoiseBytes <- MCNoise
  LengthSpared = TRUE
  MaxFrames = 4
  MaxFaults = 2
SPECIFICATION Spec
INVARIANTS TypeOK CalledWhenFramed FillTerminates LossBounded
CHECK_DEADLOCK FALSE
