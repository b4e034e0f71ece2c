----------------------------- MODULE FeedMedia ------------------------------
(***************************************************************************)
(* One video asset on its way to the feed targets.  A publish cycle        *)
(* prepares media one target at a time (createPlatformPorts): the asset is *)
(* encoded for the target's bounds into a cache, the result is staged      *)
(* under a public name, and the platform fetches it from there             *)
(* (prepareMediaItems).                                                    *)
(*                                                                         *)
(* A file is "none", "partial" or "whole", and is made for some bounds.    *)
(* Age is left out: a pruning pass may take any cached file nobody is      *)
(* writing.                                                                *)
(***************************************************************************)
EXTENDS Naturals

CONSTANTS
  Feeds,        \* feed targets
  BoundsOf,     \* the video bounds of each feed target (videoBounds)
  MaxCycles,    \* publish cycles
  FeedFaults    \* subset of AllFeedFaults

\* "encode_fails": ffmpeg exits with an error or is killed.
\* "attempt_timeout": an attempt is given up while its preparation runs on.
\* "restart": the process dies.   "prune": cached files age out.
AllFeedFaults == {"encode_fails", "attempt_timeout", "restart", "prune"}

ASSUME FeedAssumption ==
  /\ MaxCycles \in Nat /\ FeedFaults \subseteq AllFeedFaults
  /\ \A t \in Feeds : t \in DOMAIN BoundsOf

Bounds == {BoundsOf[t] : t \in Feeds}
Cycles == 1 .. MaxCycles
FileState == {"none", "partial", "whole"}

VARIABLES
  normalized,   \* [Bounds -> File]: the encode cache (MEDIA_CACHE_DIR)
  staged,       \* [Bounds -> File]: the public copies (REMOTE_MEDIA_PATH)
  cycle,        \* the current publish cycle
  prep,         \* [Cycles \X Feeds -> where the preparation is]
  waiting,         \* the attempts that still wait for their preparation
  shown         \* [Feeds -> File]: what the platform was handed

feedVars == <<normalized, staged, cycle, prep, waiting, shown>>

NoFile == [state |-> "none", bounds |-> "none"]
File == [state: FileState, bounds: Bounds \cup {"none"}]
PrepStep == {"off", "queued", "absent", "encoding", "encoded", "ready", "failed", "sent"}
Over == {"off", "ready", "failed", "sent"}

FeedTypeOK ==
  /\ normalized \in [Bounds -> File] /\ staged \in [Bounds -> File]
  /\ cycle \in 0 .. MaxCycles /\ prep \in [Cycles \X Feeds -> PrepStep]
  /\ waiting \subseteq Cycles \X Feeds /\ shown \in [Feeds -> File]

FeedInit ==
  /\ normalized = [b \in Bounds |-> NoFile] /\ staged = [b \in Bounds |-> NoFile]
  /\ cycle = 0 /\ prep = [ct \in Cycles \X Feeds |-> "off"] /\ waiting = {}
  /\ shown = [t \in Feeds |-> NoFile]

\* MUTANT: the encode cache is keyed by the asset alone.
NameWithoutBounds(t) == CHOOSE b \in Bounds : TRUE

\* The name the encode for a target is cached and staged under.
CacheName(t) == BoundsOf[t]

\* A cycle ends when none of its attempts waits any more; then the next one
\* claims jobs and starts with a preparation lane of its own.
PublishCycle(ts) ==
  /\ cycle < MaxCycles /\ ts # {}
  /\ \A ct \in waiting : prep[ct] \in {"failed", "sent"}
  /\ cycle' = cycle + 1
  /\ prep' = [ct \in Cycles \X Feeds |-> IF ct \in {cycle + 1} \X ts THEN "queued" ELSE prep[ct]]
  /\ waiting' = {cycle + 1} \X ts
  /\ UNCHANGED <<normalized, staged, shown>>

\* The preparations of one cycle run one at a time, abandoned or not.
HasTheLane(c, t) == \A u \in Feeds \ {t} : prep[<<c, u>>] \in Over \cup {"queued"}

Moved(c, t, pc) == prep' = [prep EXCEPT ![<<c, t>>] = pc]

\* normalizeVideoForPublicUpload: a file of that name is taken as it is.
FindNormalized(c, t) ==
  /\ prep[<<c, t>>] = "queued" /\ HasTheLane(c, t)
  /\ Moved(c, t, IF normalized[CacheName(t)] = NoFile THEN "absent" ELSE "encoded")
  /\ UNCHANGED <<normalized, staged, cycle, waiting, shown>>

\* ffmpeg writes its output in place.
StartNormalize(c, t) ==
  /\ prep[<<c, t>>] = "absent"
  /\ normalized' = [normalized EXCEPT ![CacheName(t)] = [state |-> "partial", bounds |-> BoundsOf[t]]]
  /\ Moved(c, t, "encoding")
  /\ UNCHANGED <<staged, cycle, waiting, shown>>

OtherWriter(c, t) == \E d \in Cycles, u \in Feeds :
  <<d, u>> # <<c, t>> /\ prep[<<d, u>>] = "encoding" /\ CacheName(u) = CacheName(t)

Normalized(c, t) ==
  /\ prep[<<c, t>>] = "encoding"
  /\ normalized' = [normalized EXCEPT ![CacheName(t)].state = IF OtherWriter(c, t) THEN "partial" ELSE "whole"]
  /\ Moved(c, t, "encoded")
  /\ UNCHANGED <<staged, cycle, waiting, shown>>

\* ffmpeg fails or is killed; nothing removes what it wrote.
NormalizeFails(c, t) ==
  /\ "encode_fails" \in FeedFaults /\ prep[<<c, t>>] = "encoding"
  /\ Moved(c, t, "failed")
  /\ UNCHANGED <<normalized, staged, cycle, waiting, shown>>

\* copyIfMissing: the public copy is made once, by rename.  A file pruned since
\* it was found fails the preparation.
Stage(c, t) ==
  LET name == CacheName(t) IN
  /\ prep[<<c, t>>] = "encoded"
  /\ IF staged[name] # NoFile THEN Moved(c, t, "ready") /\ UNCHANGED staged
     ELSE IF normalized[name] = NoFile THEN Moved(c, t, "failed") /\ UNCHANGED staged
     ELSE /\ Moved(c, t, "ready")
          /\ staged' = [staged EXCEPT ![name] = normalized[name]]
  /\ UNCHANGED <<normalized, cycle, waiting, shown>>

\* The adapter hands the public name over and the platform fetches it.
Send(c, t) ==
  LET file == staged[CacheName(t)] IN
  /\ prep[<<c, t>>] = "ready" /\ <<c, t>> \in waiting
  /\ Moved(c, t, IF file = NoFile THEN "failed" ELSE "sent")
  /\ shown' = IF file = NoFile THEN shown ELSE [shown EXCEPT ![t] = file]
  /\ UNCHANGED <<normalized, staged, cycle, waiting>>

\* withTimeout releases the attempt and not the encoder.
AttemptTimesOut(c, t) ==
  /\ "attempt_timeout" \in FeedFaults /\ <<c, t>> \in waiting /\ prep[<<c, t>>] \notin Over
  /\ waiting' = waiting \ {<<c, t>>}
  /\ UNCHANGED <<normalized, staged, cycle, prep, shown>>

FileInUse(b) == \E c \in Cycles, t \in Feeds : prep[<<c, t>>] = "encoding" /\ CacheName(t) = b

PruneMediaCache(b) ==
  /\ "prune" \in FeedFaults /\ ~FileInUse(b)
  /\ \/ normalized[b] # NoFile /\ normalized' = [normalized EXCEPT ![b] = NoFile] /\ UNCHANGED staged
     \/ staged[b] # NoFile /\ staged' = [staged EXCEPT ![b] = NoFile] /\ UNCHANGED normalized
  /\ UNCHANGED <<cycle, prep, waiting, shown>>

\* The process dies: its encoders die with it and their files stay.
FeedRestart ==
  /\ "restart" \in FeedFaults /\ waiting # {}
  /\ prep' = [ct \in Cycles \X Feeds |-> "off"] /\ waiting' = {}
  /\ UNCHANGED <<normalized, staged, cycle, shown>>

FeedNext ==
  \/ \E ts \in SUBSET Feeds : PublishCycle(ts)
  \/ \E c \in Cycles, t \in Feeds :
       \/ FindNormalized(c, t) \/ StartNormalize(c, t) \/ Normalized(c, t) \/ NormalizeFails(c, t)
       \/ Stage(c, t) \/ Send(c, t) \/ AttemptTimesOut(c, t)
  \/ \E b \in Bounds : PruneMediaCache(b)
  \/ FeedRestart

FeedSpec == FeedInit /\ [][FeedNext]_feedVars

(***************************************************************************)
(* Properties                                                              *)
(***************************************************************************)

\* Every target is handed the encode for its own bounds, whichever target and
\* whichever attempt made the file (normalizeVideoForPublicUpload and
\* remoteVariantKey name files by bounds).
DeliveredFits == \A t \in Feeds : shown[t] # NoFile => shown[t].bounds = BoundsOf[t]

\* The platform is handed a whole encode: a file under the name that means
\* "this variant is ready" is finished (copyIfMissing takes it as it is).
DeliveredIsWhole == \A t \in Feeds : shown[t].state # "partial"
=============================================================================
