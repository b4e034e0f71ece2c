SPECIFICATION Spec
CONSTANTS
  t1 = t1
  t2 = t2
  w1 = w1
  w2 = w2
  Targets <- OneTarget
  Workers <- TwoWorkers
  Adapter <- AllChain
  Parts <- TwoParts
  MaxJobs = 2
  MaxAttempts = 2
  PartialMaxAttempts = 2
  ReconcileMax = 1
  Operations = {"plan"}
  Faults = {}
  MaxOps = 3
  MaxCrashes = 0
SYMMETRY WorkerSymmetry
INVARIANTS PublishedIsWhole
CHECK_DEADLOCK FALSE
