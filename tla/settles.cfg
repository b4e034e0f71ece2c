SPECIFICATION FairSpec
CONSTANTS
  t1 = t1
  t2 = t2
  w1 = w1
  w2 = w2
  Targets <- OneTarget
  Workers <- OneWorker
  Adapter <- AllChain
  Parts <- TwoParts
  MaxJobs = 2
  MaxAttempts = 2
  PartialMaxAttempts = 3
  ReconcileMax = 2
  Operations = {"plan", "retry", "republish", "settle", "skip"}
  Faults = {}
  MaxOps = 3
  MaxCrashes = 2
PROPERTIES PublishingEnds DeliverySettles
CHECK_DEADLOCK FALSE
