SPECIFICATION Spec
CONSTANTS
  QueueCap = 3
  BackoffCount = 2
  Taps <- TapsPlain
  Env <- AllEnv
  Prompt = TRUE
INVARIANT OnlineIsTrue
INVARIANT TokenErrorMeansOffline
INVARIANT FreshAttempt
