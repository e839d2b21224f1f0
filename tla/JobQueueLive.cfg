SPECIFICATION FairSpec
CONSTANTS
  j1 = j1
  j2 = j2
  NoJob = NoJob
  Jobs <- TwoJobs
  MaxCalls = 2
  PageSize = 1
  MaxClears = 1
  MaxFaults = 0
  MaxStops = 0
PROPERTIES
  EveryJobSettles
  CancelSettles
