SPECIFICATION FairSpec
CONSTANTS
  QueueCap = 1
  BackoffCount = 1
  Taps = {"select", "setup", "wizard", "status"}
  Env = {"ha_down", "ha_closes", "wifi_drops"}
  Prompt = FALSE
INVARIANT TypeOK
INVARIANT SessionEnds
INVARIANT EntitiesBacked
PROPERTY SetupKeepsScreen
PROPERTY UsesClientStates
PROPERTY StaleOnlineEnds
