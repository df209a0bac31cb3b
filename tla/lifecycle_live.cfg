SPECIFICATION FairSpec
CONSTANTS
  c1 = c1
  c2 = c2
  a1 = a1
  a2 = a2
  good = good
  bad = bad
  Conns = {c1, c2}
  Accounts = {a1}
  None = None
  Versions = {good, bad}
  NoVersion = bad
  Credentials <- SharedDevices
  StatAgents = {}
  RuleSets <- OnlyGood
  AccessLevels = {}
  MaxUsers = 1
  HoldLogins = TRUE
  Cooldowns = FALSE
  Relogins = FALSE
  Deletes = FALSE
PROPERTIES HeldLoginsResolve
