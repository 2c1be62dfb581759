SPECIFICATION Spec
CONSTANTS
  Rank = {r0, r1}
  Root = r0
  Missing = Missing
  Torn = Torn
  Mixed = Mixed
  r0 = r0
  r1 = r1
  use_critic = TRUE
  alpha_stabler = TRUE
  max_ckpt_to_keep = 2
  save_freq = 2
  esi = TRUE
  total_training_steps = 3
  ResumeModes = {"auto"}
  MaxStep = 4
  MaxRuns = 3
INVARIANTS
  TrackerNamesCheckpoint
PROPERTY
  ResumesLastSave
