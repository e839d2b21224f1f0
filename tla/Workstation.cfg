SPECIFICATION Spec
CONSTANTS
  Limits <- SmallLimits
  MaxDocs = 2
CHECK_DEADLOCK FALSE
INVARIANTS
  BusyIsAccountable
  PatientUserSeesOneDocument
PROPERTIES
  RendersTheLoadedBytes
