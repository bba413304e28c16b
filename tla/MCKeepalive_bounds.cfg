SPECIFICATION Spec
CONSTANTS
  PingInterval = 3
  PongTimeout = 8
  RoundMax = 2
  ReadLag = 2
  PeerDelay = 2
INVARIANT TypeOK
INVARIANT LossNoticed
INVARIANT AliveKept
