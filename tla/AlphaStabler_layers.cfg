SPECIFICATION FairSpec
CONSTANTS
  Rank = {r0, r1}
  Root = r0
  NumLayers = 2
  warmup_steps = 5
  monitor_interval = 2
  persistence = 2
  release_mad = 2
  warning_mad = 3
  control = TRUE
  BetaNum = 1
  BetaDen = 2
  Scale = 16
  MinShift = 0
  Shifts <- UsableOrNot
  MicroBatches = 1
  SaveFreq = 6
  MaxStep = 8
  MaxCrashes = 1
  r0 = r0
  r1 = r1
INVARIANTS
  CollectivesAligned
  CalibrationAtomic
PROPERTY
  NoRankWaitsForever
