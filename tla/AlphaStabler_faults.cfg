SPECIFICATION Spec
CONSTANTS
  Rank = {r0, r1}
  Root = r0
  NumLayers = 1
  warmup_steps = 2
  monitor_interval = 1
  persistence = 2
  release_mad = 2
  warning_mad = 3
  control = TRUE
  BetaNum = 1
  BetaDen = 2
  Scale = 16
  MinShift = 0
  Shifts <- AllShifts
  MicroBatches = 2
  SaveFreq = 1
  MaxStep = 6
  MaxCrashes = 1
  r0 = r0
  r1 = r1
INVARIANTS
  RanksAgree
  UniformProjection
  FlagConsistent
PROPERTY
  Hysteresis
