SPECIFICATION FairSpec
CONSTANTS
  home = home
  secret = secret
  empty = empty
  f1 = f1
  f2 = f2
  Networks <- OneNetwork
  Passwords <- TwoPasswords
  NoPassword = empty
  Works <- HomeWorks
  Forms <- TwoForms
  ConnectTicks = 1
  MaxTimers = 2
  Env = {"drop"}
INVARIANT StoredAsFilledIn
PROPERTY FormIsStored
