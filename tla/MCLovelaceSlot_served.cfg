SPECIFICATION FairSpec
CONSTANTS
  Views = {"a", "b"}
  FirstView = "a"
  MaxId = 5
  MaxSessions = 1
  Taps = {"select", "refresh", "setup"}
  Env = {"loss", "bad", "late"}
  Overlaps = {}
CHECK_DEADLOCK FALSE
PROPERTY RequestEnds
PROPERTY StatesFollow
