SPECIFICATION FairEngineSpec
CONSTANTS
  Words <- AllWords
  Letters <- Alphabetic
  Stops <- EndingWords
  FullPage <- WholeArea
  LengthOf <- Lengths
  BoxPages <- ColumnPages
  Texts <- PlainTexts
  Garbage = Garbage
  Radius = 1
  MaxPages = 2
  MaxBoxes = 2
  Boxes <- AllBoxes
  Layouts <- PageLayouts
  FitBoxes <- CropBoxes
  Readings <- PageReadings
  Crops <- CropReadings
  Settings <- RunSettings
  Concurrency = 2
  DenseThreshold = 1
  Target = 4
  MaxRetries = 2
CHECK_DEADLOCK FALSE
INVARIANTS
  UnreadUntilReturned
  StructuredCalls
  PagesAccounted
  RepairAccounts
  AlignerKeepsLines
  AlignmentIsCheapest
  ColumnsAreRead
PROPERTIES
  Spec
  StopIsHonoured
  RunEnds
