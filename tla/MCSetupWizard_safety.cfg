SPECIFICATION Spec
CONSTANTS
  home = home
  secret = secret
  empty = empty
  f1 = f1
  f2 = f2
  Networks <- OneNetwork
  Passwords <- TwoPasswords
  NoPassword = empty
  Works <- HomeWorks
  Forms <- OneForm
  ConnectTicks = 1
  MaxTimers = 2
  Env = {"restart", "resubmit", "drop", "http_fails"}
INVARIANT TypeOK
INVARIANT ConfiguredComplete
INVARIANT HandlesLive
