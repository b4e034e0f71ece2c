SPECIFICATION Spec
CONSTANTS
  t1 = t1
  t2 = t2
  w1 = w1
  w2 = w2
  Targets <- TwoTargets
  Workers <- TwoWorkers
  Adapter <- Mixed
  Parts <- MixedParts
  MaxJobs = 2
  MaxAttempts = 2
  PartialMaxAttempts = 2
  ReconcileMax = 1
  Operations = {"plan", "cancel_rest", "skip", "settle", "replan_skipped"}
  Faults = {}
  MaxOps = 3
  MaxCrashes = 0
SYMMETRY WorkerSymmetry
PROPERTIES CancelBinds
CHECK_DEADLOCK FALSE
