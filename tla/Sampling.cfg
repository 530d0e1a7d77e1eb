SPECIFICATION Spec
CONSTANTS
  Modulus = 16
  Multiplier = 7
  MaxDim = 4
  MinSamples = 2
  MinResamples = 2
  Bits = 8
  Jobs <- MCJobs
  NoAnswer = NoAnswer
  NoThreads = NoThreads
  One = One
INVARIANTS
  SeedsApart
  PercentilesOrdered
  EffectsIsolated
  SaltelliPartition
  Stratified
PROPERTIES
  BatchAnswered
