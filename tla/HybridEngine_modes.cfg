SPECIFICATION PartsSpec
CONSTANTS
  Configs <- AllConfigs
  MaxStep = 2
  max_test_iterations = 2
  Scores = {0, 1}
  Random = Random
  Gone = Gone
  Teacher = Teacher
  NumLayers = 4
  MicroBatches = 2
  ComputeSlots = {a1, a2, a3}
  ReloadSlots = {b1, b2}
  a1 = a1
  a2 = a2
  a3 = a3
  b1 = b1
  b2 = b2
  NoSlot = NoSlot
  OnHost = OnHost
  Nothing = Nothing
SYMMETRY Blocks
INVARIANTS
  GeneratesWithCurrentPolicy
  TrainingStreamApart
  KeepsBest
  ReadsOwnActivation
  AtMostTwoGroups
