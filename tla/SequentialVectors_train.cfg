SPECIFICATION Spec
CONSTANTS
  Layers = {a, b}
  a = a
  b = b
  NumVectors = 3
  seq_raw_steps = 1
  MinSteps = 2
  MiniBatches = 1
  TotalSteps = 8
  MaxContent = 2
CHECK_DEADLOCK FALSE
INVARIANTS
  OrthogonalRows
  EvaluatesEachFinished
PROPERTIES
  WaitsForAll
  TrainsOneAtATime
