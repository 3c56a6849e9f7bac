SPECIFICATION FairSpec
CONSTANTS
  Headers <- MCHeaders
  HeaderBak = 8
  Tasks = {t}
  Images = {"a", "b", "c"}
  Good = {"a", "c"}
  Stock = "a"
  None = None
  ImageLen <- MCImageLen
  PackHead = 2
  AiPackHeadLen = 1
  BufSize = 12
  Sector = 4
  PartSize = 8
  MaxStarts = 2
  MaxRestarts = 1
  OneAtATime = TRUE
  FlashFails = FALSE
CHECK_DEADLOCK FALSE
INVARIANTS TypeOK BodyFound LengthSeen
PROPERTIES BootSpec WholeIsStarted UpdateEnds
