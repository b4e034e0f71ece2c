SPECIFICATION FairSpec
CONSTANTS
  t1 = t1
  t2 = t2
  w1 = w1
  w2 = w2
  Targets <- OneTarget
  Workers <- OneWorker
  Routes = {"youtube", "native", "zernio"}
  MaxObjects = 2
  MaxAttempts = 3
  ReconcileMax = 1
  Operations = {"schedule", "retry", "cancel"}
  Faults = {"unprepared", "older_post", "unread_answer"}
  MaxOps = 2
  MaxCrashes = 2
PROPERTIES VideoJobsEnd
CHECK_DEADLOCK FALSE
