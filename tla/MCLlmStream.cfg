SPECIFICATION FairSpec
CONSTANTS
  Providers = {"anthropic", "openai", "ollama"}
  bufferSize = 1
  MaxChunks = 4
INVARIANTS
  TextIsComplete
  FailureIsReported
PROPERTIES
  GoroutineEnds
CHECK_DEADLOCK FALSE
