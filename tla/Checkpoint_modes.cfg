SPECIFICATION Spec
CONSTANTS
  Rank = {r0, r1}
  Root = r0
  Missing = Missing
  Torn = Torn
  Mixed = Mixed
  r0 = r0
  r1 = r1
  use_critic = FALSE
  alpha_stabler = TRUE
  max_ckpt_to_keep = 1
  save_freq = 1
  esi = FALSE
  total_training_steps = 2
  ResumeModes = {"auto", "disable", "resume_path"}
  MaxStep = 3
  MaxRuns = 3
INVARIANTS
  StepsInLine
