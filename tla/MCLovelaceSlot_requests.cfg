SPECIFICATION Spec
CONSTANTS
  Views = {"a", "b"}
  FirstView = "a"
  MaxId = 4
  MaxSessions = 2
  Taps = {"select", "refresh", "command", "setup"}
  Env = {"loss", "bad", "late"}
  Overlaps = {}
CHECK_DEADLOCK FALSE
INVARIANT TypeOK
INVARIANT IdsRise
PROPERTY OwnAnswer
PROPERTY ServesSelected
