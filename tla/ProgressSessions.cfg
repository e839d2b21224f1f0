SPECIFICATION FairSpec
CONSTANTS
  MaxSessions = 2
  MaxSockets = 3
  MaxAttempts = 1
  FrameCap = 1
  MaxUp = 1
INVARIANTS
  TypeOK
  OneListenerPerSession
PROPERTIES
  GivesUp
