SPECIFICATION TracedSpec
CONSTANTS
  NumOps = 3
  MaxFixups = 3
  Inputs <- ProfiledInputs
  HookIds = {h1, h2}
  h1 = h1
  h2 = h2
  NoHook = NoHook
  NumFactories = 2
  Capacity = 1
  Preload = 1
  Injects = {TRUE, FALSE}
  MeasurementCycles = 1
  FixupCost = 1
  NoLimit = NoLimit
  NoStart = NoStart
  Resolutions = {0, 2}
INVARIANTS
  TypeOK
  StatesConserved
  NoIdleStock
  DependencyOrder
  FactoriesBusy
  WithinLimit
  StallsReported
  ActivityCounted
  NeverIdle
  MagicAccounted
  FixupTimeIsCost
  ReductionsAgree
PROPERTIES
  ServesInOrder
