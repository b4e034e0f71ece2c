SPECIFICATION Spec
CONSTANTS
  t1 = t1
  t2 = t2
  w1 = w1
  w2 = w2
  Targets <- OneTarget
  Workers <- TwoWorkers
  Adapter <- AllChain
  Parts <- TwoParts
  MaxJobs = 2
  MaxAttempts = 2
  PartialMaxAttempts = 3
  ReconcileMax = 2
  Operations = {"plan", "cancel_rest", "cancel_draft", "retry", "republish", "resend", "skip", "settle"}
  Faults = {"lease_lapse"}
  MaxOps = 3
  MaxCrashes = 1
SYMMETRY WorkerSymmetry
INVARIANTS TypeOK PhaseTruthful PublishedIsLive NothingForgotten
PROPERTIES KeepsPromise
CHECK_DEADLOCK FALSE
