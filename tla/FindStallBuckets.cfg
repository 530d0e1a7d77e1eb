SPECIFICATION TracedSpec
CONSTANTS
  NumOps = 3
  MaxFixups = 0
  Inputs <- ProfiledInputs
  HookIds = {h1, h2}
  h1 = h1
  h2 = h2
  NoHook = NoHook
  NumFactories = 1
  Capacity = 1
  Preload = 0
  Injects = {FALSE}
  MeasurementCycles = 1
  FixupCost = 1
  NoLimit = NoLimit
  NoStart = NoStart
  Resolutions = {1}
INVARIANTS WaitingShown
