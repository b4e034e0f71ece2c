SPECIFICATION WorkshopSpec
CONSTANTS
  Feeds = {"threads", "discord"}
  BoundsOf <- BoundsOfFeeds
  MaxCycles = 2
  FeedFaults = {"encode_fails", "attempt_timeout", "restart", "prune"}
  MaxRenders = 4
  StoryFaults = {"render_fails", "operator", "repair", "restart", "prune"}
  Releases = {1, 2, 3}
  Bad = {3}
  Attempts = 2
  MaxOps = 3
  MaxCrashes = 1
  DeployFaults = {"flaky", "same_release"}
  Accounts = {"anna", "boris"}
  MaxTokens = 5
  MaxRestarts = 2
  CredentialFaults = {}
  Commands = {"c1", "c2"}
  Parts = 2
  MaxObjects = 4
  MaxAsked = 3
  MaxSent = 2
  MaxMoves = 5
  AlbumTries = 2
  DeskFaults = {}
  Administrators = 2
  Blocking = {2}
  Horizon = 2
  Lead = 1
  ReminderAge = 0
  OutcomeAge = 1
  Cooldown = 0
  PageSize = 2
  MaxReminders = 2
  MaxJournal = 4
  MaxActs = 2
  MaxKills = 1
  RemoteFaults = {"refused", "killed"}
  AlbumSizes = {0, 1, 3}
  ChainLengths = {1, 2}
  Patience = 2
  FetchRetries = 2
  ReadyPolls = 3
  PublishAttempts = 2
  ContainerAttempts = 2
  Budget = 3
  PartialBudget = 3
  Deliveries = {1}
  Threshold = 2
  Pause = 1
  PingEvery = 2
  PingRetry = 1
  AlertQuiet = 2
  Tries = 2
  PartialTries = 2
  LastInstant = 6
INVARIANTS WorkshopTypeOK DeliveredFits StoryIsItsOwn ReleasesHold CredentialHolds CopiesAccounted DialogsHold NoticesHold PlaceHolds BreakerHolds
CHECK_DEADLOCK FALSE
