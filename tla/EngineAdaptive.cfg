SPECIFICATION FairSpec
CONSTANTS
  NumOps = 4
  MaxFixups = 4
  Inputs <- AdaptiveInputs
  HookIds = {h1, h2}
  h1 = h1
  h2 = h2
  NoHook = NoHook
  NumFactories = 1
  Capacity = 1
  Preload = 1
  Injects = {TRUE, FALSE}
  MeasurementCycles = 1
  FixupCost = 0
  NoLimit = NoLimit
INVARIANTS
  FeedbackOrder
  ExecutedOnce
  WorkRemains
  NothingLeftBehind
PROPERTIES
  TimeMonotone
  StallTakesTime
  Terminates
