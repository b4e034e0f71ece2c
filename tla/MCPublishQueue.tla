--------------------------- MODULE MCPublishQueue ---------------------------
(* Instances of PublishQueue for TLC. *)
EXTENDS PublishQueueClaims, TLC

CONSTANTS t1, t2, w1, w2

OneTarget == {t1}
TwoTargets == {t1, t2}
OneWorker == {w1}
TwoWorkers == {w1, w2}

AllSingle == [t \in Targets |-> "single"]
AllChain == [t \in Targets |-> "chain"]
AllStaged == [t \in Targets |-> "staged"]
AllSplit == [t \in Targets |-> "split"]
Mixed == [t \in Targets |-> IF t = t1 THEN "chain" ELSE "single"]

OnePart == [t \in Targets |-> 1]
TwoParts == [t \in Targets |-> 2]
ThreeParts == [t \in Targets |-> 3]
MixedParts == [t \in Targets |-> IF t = t1 THEN 2 ELSE 1]

WorkerSymmetry == Permutations(TwoWorkers)
=============================================================================
