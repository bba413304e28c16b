SPECIFICATION Spec
CONSTANTS
  QueueCap = 2
  BackoffCount = 1
  Taps = {"select"}
  Env = {"ha_down"}
  Prompt = TRUE
PROPERTY ReconnectRestoresView
