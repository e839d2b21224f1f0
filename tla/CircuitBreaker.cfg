SPECIFICATION FairSpec
CONSTANTS
  p1 = p1
  p2 = p2
  p3 = p3
  Callers <- ThreeCallers
  Threshold = 2
  Cooldown = 2
  MaxRetries = 2
  FailCap = 3
INVARIANTS
  OpensOnRunOfFailures
PROPERTIES
  OpenDrains
  OpenIsTemporary
  CallsEnd
