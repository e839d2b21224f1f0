SPECIFICATION FairSpec
CONSTANTS
  j1 = j1
  j2 = j2
  c1 = c1
  c2 = c2
  NoJob = NoJob
  Jobs <- TwoJobs
  Clients <- OneClient
  BufCap = 3
  MaxBuffered = 1
  MaxFrames = 1
  MaxCancels = 1
  MaxClears = 1
CHECK_DEADLOCK FALSE
INVARIANTS
  BoundedBuffers
  ReceivedInOrder
PROPERTIES
  FinishedStreamsEnd
