SPECIFICATION SiteFairSpec
CONSTANTS
  Scenes <- SiteScenes
  MaxAttempts = 2
  MaxRows = 4
  MaxCommands = 2
  MaxTroubles = 2
INVARIANTS SiteTypeOK PageKeepsItsMedia NoStalePage ChangeIsAnnounced
PROPERTIES SiteSettles
CHECK_DEADLOCK FALSE
