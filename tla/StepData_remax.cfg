SPECIFICATION PartsSpec
CONSTANTS
  Total = 6
  Tests <- UpToFour
  World = 2
  Agents = 3
  Mini = 2
  MaxTokens = 2
  Lengths <- OneLong
  Settings <- RemaxOfTwo
  NumItems = 6
  K = 3
  Weights <- SomeWorkloads
  Equal = {TRUE, FALSE}
  Groups <- Partitions
  Scores = {0, 1, 2}
  LengthOf <- Lengths4
  gen_len = 4
  Rewards = {0, 1}
  Values = {0, 2}
  Gamma = 2
  Lambda = 3
  GenPrompts = 2
  TrainPrompts = 3
  Rollouts = 2
  MaxGen = 3
  DataBatches = 5
  TotalSteps = 2
CHECK_DEADLOCK FALSE
INVARIANT UnionsFit
