SPECIFICATION ServicesSpec
CONSTANTS
  Names = {"ann", "bob"}
  Mails = {"", "x"}
  AdminsList = {"ann"}
  FirstAccounts <- CreatedInOrder
  NoAccount = NoAccount
  NoSession = NoSession
  Idle = Idle
  MaxIds = 3
  MaxPasswords = 2
  Tokens = {1, 2}

  Players = {"1", "2"}
  Clients = {"1", "2"}
  Codes = {"x", "y"}
  NoGrant = NoGrant
  firstPlayer = "1"
  LifetimeSecs = 1
  AccessTokenLifetimeSecs = 2
  MaxOutstandingPerUser = 1
  MaxIssued = 3
  MaxSecs = 2

  Users = {1, 2}
  vuser = vuser
  VirtualUsers <- VirtualPlayers
  Friends <- Befriended
  Slots = {0, 1}
  Values = {1}
  Deltas = {1}
  Ops = {1, 2}
  Guards <- Conditions
  NoRow = NoRow
  Unasked = Unasked
  Nobody = Nobody
  MaxValue = 2
  MaxTime = 1
  TusMaxSlotsPerRequest = 2
  TusMaxSelectedFriends = 1

  MaxFailuresPerPeer = 4
  FailureWindowSeconds = 2
  BlockSeconds = 4
  kMaxLoginFailures = 3
  kLoginBlockSeconds = 2
  Never = Never
  MaxSeconds = 6

  Titles <- TwoTitles
  Labels <- Both
  Grants <- ThreeGrants
  Counts <- Both
  Pages <- Both
  NoDate = NoDate
  NotGranted = NotGranted
  NoUse = NoUse
  MaxDays = 1

  People <- Both
  Scopes <- TwoScopes
  Attachments <- ThreeAttachments
  Forever = Forever
  NoItem = NoItem
  NothingInHand = NothingInHand
  kMaxReceivedPerUser = 2
  MaxItems = 3
  MaxHours = 1

  Services <- ThreeServices
  Texts <- FourTexts
  Garbled = Garbled
  NoFile = NoFile
  NoTransaction = NoTransaction
  ServerId = 1
  DefaultRules <- OneWorld

  Gamers <- Both
  Games <- TwoGames
  TrophyIds <- FourIds
  Stamps <- Ones
  Uploads <- UploadsOf
  Configs <- FourConfigs
  MainThread = MainThread
  NoWork = NoWork
  Nothing = Nothing
  uploader = 1
  mainGame = "a"
  MaxTrophyId = 9
  MaxTrophiesPerSync = 3
  RankingLimit = 1
  m_cacheLife = 2
  MaxMoments = 3
ACTION_CONSTRAINT ServicesInFamily
INVARIANTS TypesOK PagesWhole PagesCover  StaysAdministrable
INVARIANTS GuessesBounded CodesSound UsesAccounted 
PROPERTIES  InboxKept ConfigSound
