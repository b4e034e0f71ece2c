SPECIFICATION Spec
CONSTANTS
  t1 = t1
  t2 = t2
  w1 = w1
  w2 = w2
  Targets <- OneTarget
  Workers <- TwoWorkers
  Routes = {"youtube", "native", "zernio"}
  MaxObjects = 3
  MaxAttempts = 2
  ReconcileMax = 1
  Operations = {"choose", "remove", "schedule", "retry", "settle", "cancel"}
  Faults = {"overlap"}
  MaxOps = 4
  MaxCrashes = 1
INVARIANTS TypeOK TargetTellsTheTruth OneReel CancelledIsHeld SourceKept PreparedGoesOut
PROPERTIES PublishedStays
CHECK_DEADLOCK FALSE
SYMMETRY WorkerSymmetry
