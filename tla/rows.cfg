SPECIFICATION Spec
CONSTANTS
  t1 = t1
  t2 = t2
  w1 = w1
  w2 = w2
  Targets <- OneTarget
  Workers <- TwoWorkers
  Adapter <- AllStaged
  Parts <- TwoParts
  MaxJobs = 2
  MaxAttempts = 2
  PartialMaxAttempts = 2
  ReconcileMax = 1
  Operations = {"plan", "cancel_rest", "cancel_draft", "retry", "republish", "resend", "skip", "settle", "replan_skipped", "resume_from"}
  Faults = {"lease_lapse", "unreadable_answer"}
  MaxOps = 3
  MaxCrashes = 0
SYMMETRY WorkerSymmetry
INVARIANTS IndInv OneOpenRow MirrorAgrees
PROPERTIES HeldRowIsFenced
CHECK_DEADLOCK FALSE
