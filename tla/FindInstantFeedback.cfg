SPECIFICATION Spec
CONSTANTS
  NumOps = 4
  MaxFixups = 0
  Inputs <- InstantInputs
  HookIds = {h1, h2}
  h1 = h1
  h2 = h2
  NoHook = NoHook
  NumFactories = 1
  Capacity = 1
  Preload = 1
  Injects = {FALSE}
  MeasurementCycles = 1
  FixupCost = 0
  NoLimit = NoLimit
INVARIANTS DependencyOrder
