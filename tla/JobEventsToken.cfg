SPECIFICATION Spec
CONSTANTS
  j1 = j1
  j2 = j2
  c1 = c1
  c2 = c2
  NoJob = NoJob
  Jobs <- OneJob
  Clients <- TwoClients
  BufCap = 4
  MaxBuffered = 1
  MaxFrames = 1
  MaxCancels = 1
  MaxClears = 0
CHECK_DEADLOCK FALSE
INVARIANT ClosedHasToken
