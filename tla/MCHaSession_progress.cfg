SPECIFICATION FairSpec
CONSTANTS
  QueueCap = 2
  BackoffCount = 1
  Taps <- TapsKeepSlot
  Env <- EnvServer
  Prompt = TRUE
PROPERTY Recovers
PROPERTY LoadingEnds
