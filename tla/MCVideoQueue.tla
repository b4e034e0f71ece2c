---------------------------- MODULE MCVideoQueue ----------------------------
(* Instances of VideoQueue for TLC. *)
EXTENDS VideoQueue, TLC

CONSTANTS t1, t2, w1, w2

OneTarget == {t1}
TwoTargets == {t1, t2}
OneWorker == {w1}
TwoWorkers == {w1, w2}
WorkerSymmetry == Permutations(TwoWorkers)
=============================================================================
