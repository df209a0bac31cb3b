SPECIFICATION Spec
CONSTANTS
  c1 = c1
  c2 = c2
  a1 = a1
  a2 = a2
  good = good
  bad = bad
  Conns = {c1, c2}
  Accounts = {a1, a2}
  None = None
  Versions = {good, bad}
  NoVersion = bad
  Credentials <- SharedDevices
  StatAgents = {}
  RuleSets <- AllRules
  AccessLevels = {"normal", "never"}
  MaxUsers = 1
  HoldLogins = TRUE
  Cooldowns = TRUE
  Relogins = FALSE
  Deletes = TRUE
ACTION_CONSTRAINT InFamily
INVARIANTS TypeOK NobodyLockedOut EverythingGivenBack AccessCurrent
PROPERTIES RejectedStaysOut
