SPECIFICATION Spec
CONSTANTS
  j1 = j1
  j2 = j2
  NoJob = NoJob
  Jobs <- TwoJobs
  MaxCalls = 2
  PageSize = 1
  MaxClears = 1
  MaxFaults = 1
  MaxStops = 1
SYMMETRY JobSymmetry
CHECK_DEADLOCK FALSE
INVARIANTS
  CompleteHasResult
  NoStrandedJob
  EarlyCancelWins
  RunsWithPayload
  ShutdownLeavesNoQueued
PROPERTIES
  FinishedRowIsFinal
  CancelSurvivesStart
  ImplementsLifecycle
