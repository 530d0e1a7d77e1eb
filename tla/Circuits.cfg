SPECIFICATION Spec
CONSTANTS
  Sources <- MCSources
  Q = 3
  K = 3
  N = 4
  a = a
  b = b
  NonFinite = NonFinite
  NoParam = NoParam
  Symbolic = Symbolic
  NoHook = NoHook
  NoPositions = NoPositions
  NoCircuit = NoCircuit
  NoOp = NoOp
  NoIndex = NoIndex
  Hardware = Hardware
  NoFirst = NoFirst
INVARIANTS
  KahnCorrect
  ProgramOrder
  DepthIsLongestChain
  AdaptersAccepted
  TCountKept
