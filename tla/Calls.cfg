SPECIFICATION FairSpec
CONSTANTS
  Callers = {c1, c2}
  Targets = {"memory", "runtime"}
  ServiceOps = {"get"}
  Phases <- MCPhases
  ProviderByPhase <- MCProviderByPhase
  DefaultProvider = "opencode"
  OptIn = {"ollama", "aider", "mcp"}
  MCPProvider = "claude"
  OllamaModel = ""
  Attempts = 2
  CBFailureThreshold = 2
INVARIANTS
  AgentRunsOnce
  OpenIsEarned
  ProbeIsAlone
  EnvelopeIsGenuine
PROPERTIES
  BreakerRecovers
