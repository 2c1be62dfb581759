SPECIFICATION Spec
CONSTANTS
  Rank = {r0, r1}
  Root = r0
  Configs <- RawConfigs
  MiniBatches = 1
  MaxStep = 4
  MaxCrashes = 1
  r0 = r0
  r1 = r1
CHECK_DEADLOCK FALSE
INVARIANT
  LearnedScale
