SPECIFICATION Spec
CONSTANTS
  j1 = j1
  j2 = j2
  NoJob = NoJob
  Jobs <- TwoJobs
  MaxCalls = 2
  PageSize = 1
  MaxClears = 0
  MaxFaults = 0
  MaxStops = 0
INVARIANT CancelIsNeverOverwritten
