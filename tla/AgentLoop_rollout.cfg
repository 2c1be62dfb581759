SPECIFICATION Spec
CONSTANTS
  Worker = {w}
  w = w
  ChunkSize = 2
  Server = {s0, s1}
  s0 = s0
  s1 = s1
  MaxCache = 2
  prompt_length = 2
  response_length = 4
  max_assistant_turns = 3
  max_user_turns = 2
  interactions = TRUE
  calculate_log_probs = TRUE
  MaxInput = 2
  AgentNames <- ToolsAndMixed
  MaxBatch = 3
INVARIANTS
  OutputAligned
  RoomForTurns
  ServersReady
PROPERTIES
  StickySession
  RolloutEnds
