----------------------------- MODULE MCAgentLoop -----------------------------
\* Instance of AgentLoop for TLC.
EXTENDS AgentLoop

\* All conversations of a batch use tools, or the first of every chunk has one turn.
ToolsAndMixed ==
  {[c \in Conversation |-> "tool_agent"],
   [c \in Conversation |-> IF c[2] = 1 THEN "single_turn_agent" ELSE "tool_agent"]}
=============================================================================
