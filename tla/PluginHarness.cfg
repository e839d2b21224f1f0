SPECIFICATION Spec
CONSTANTS
  Plugins <- AllPlugins
  Steps <- ApplySteps
  Trees <- AllTrees
  Runtime = "runtime"
  Backend = "StateBackend"
CHECK_DEADLOCK FALSE
INVARIANTS
  ServicesOutliveUsers
  NothingHalfMounted
