---------------------------- MODULE DeliveryProofs ----------------------------
(***************************************************************************)
(* Theorems of Adapters, FeedMedia and StoryMedia: what a platform is      *)
(* given to publish fits it and is whole, whoever reads, prunes and        *)
(* restarts meanwhile, and what an adapter knows of what it has published  *)
(* survives the answers, losses and restarts of its attempts.  For every   *)
(* value of their constants.                                               *)
(***************************************************************************)
EXTENDS Adapters, FeedMedia, StoryMedia, SequenceTheorems, TLAPS

-----------------------------------------------------------------------------
-----------------------------------------------------------------------------
(* Feed media *)

\* Several attempts write the same cache, some of them abandoned; what carries the
\* property past them is that a name stands for its bounds, in the cache and in the
\* public directory alike (NamesFit).  An encoder that ends completes the file it
\* began, and not one pruned meanwhile: EncodersOwnFiles.

FileFits(file, b) == file \in File /\ (file = NoFile \/ (file.bounds = b /\ file.state # "none"))

NamesFit ==
  /\ normalized \in [Bounds -> File] /\ staged \in [Bounds -> File]
  /\ \A b \in Bounds : FileFits(normalized[b], b) /\ FileFits(staged[b], b)
EncodersOwnFiles ==
  /\ prep \in [Cycles \X Feeds -> PrepStep]
  /\ \A c \in Cycles, t \in Feeds : prep[<<c, t>>] = "encoding" => normalized[BoundsOf[t]] # NoFile
ShownFits == shown \in [Feeds -> File] /\ DeliveredFits

CyclesCount == cycle \in 0 .. MaxCycles /\ waiting \subseteq Cycles \X Feeds
FeedInv == NamesFit /\ EncodersOwnFiles /\ ShownFits

LEMMA BoundsKnown == \A t \in Feeds : BoundsOf[t] \in Bounds
BY DEF Bounds

LEMMA NoFileFits == NoFile \in File /\ \A b : FileFits(NoFile, b)
BY DEF NoFile, File, FileState, FileFits

\* What a step may do to the preparations: start no encoder.
NoEncoder == \A c \in Cycles, t \in Feeds : prep'[<<c, t>>] = "encoding" => prep[<<c, t>>] = "encoding"

LEMMA MovedKeeps ==
  ASSUME FeedInv, NEW c \in Cycles, NEW t \in Feeds, NEW pc \in PrepStep \ {"encoding"}, Moved(c, t, pc)
  PROVE  prep' \in [Cycles \X Feeds -> PrepStep] /\ NoEncoder
<1>1. prep \in [Cycles \X Feeds -> PrepStep] /\ <<c, t>> \in Cycles \X Feeds
  BY DEF FeedInv, EncodersOwnFiles
<1>2. \A p \in Cycles \X Feeds : prep'[p] = IF p = <<c, t>> THEN pc ELSE prep[p]
  BY <1>1 DEF Moved
<1> QED BY <1>1, <1>2 DEF NoEncoder, Moved

\* Encoders go on or end, and no file in use goes.
LEMMA FilesStay ==
  ASSUME FeedInv, prep' \in [Cycles \X Feeds -> PrepStep], NoEncoder, normalized' = normalized
  PROVE  EncodersOwnFiles'
BY DEF FeedInv, EncodersOwnFiles, NoEncoder

-----------------------------------------------------------------------------
(* The steps *)

LEMMA StartKeeps ==
  ASSUME FeedInv, NEW c \in Cycles, NEW t \in Feeds, StartNormalize(c, t)
  PROVE  FeedInv'
<1> DEFINE begun == [state |-> "partial", bounds |-> BoundsOf[t]]
<1>1. FileFits(begun, BoundsOf[t]) /\ begun # NoFile
  BY BoundsKnown DEF FileFits, File, FileState, NoFile
<1>2. /\ normalized' = [normalized EXCEPT ![BoundsOf[t]] = begun] /\ staged' = staged /\ shown' = shown
      /\ prep' = [prep EXCEPT ![<<c, t>>] = "encoding"]
  BY DEF StartNormalize, CacheName, Moved
<1> HIDE DEF begun
<1>3. \A b \in Bounds : normalized'[b] = IF b = BoundsOf[t] THEN begun ELSE normalized[b]
  BY <1>2, BoundsKnown DEF FeedInv, NamesFit
<1>4. NamesFit'
  <2>1. normalized' \in [Bounds -> File]
    BY <1>1, <1>2, BoundsKnown DEF FeedInv, NamesFit, FileFits
  <2> QED BY <1>1, <1>2, <1>3, <2>1 DEF FeedInv, NamesFit
<1>5. EncodersOwnFiles'
  <2>1. prep' \in [Cycles \X Feeds -> PrepStep]
    BY <1>2 DEF FeedInv, EncodersOwnFiles, PrepStep
  <2>2. \A d \in Cycles, u \in Feeds :
          prep'[<<d, u>>] = IF <<d, u>> = <<c, t>> THEN "encoding" ELSE prep[<<d, u>>]
    BY <1>2 DEF FeedInv, EncodersOwnFiles
  <2> QED BY <1>1, <1>3, <2>1, <2>2, BoundsKnown DEF FeedInv, EncodersOwnFiles
<1> QED BY <1>2, <1>4, <1>5 DEF FeedInv, ShownFits, DeliveredFits

LEMMA EndKeeps ==
  ASSUME FeedInv, NEW c \in Cycles, NEW t \in Feeds, Normalized(c, t)
  PROVE  FeedInv'
<1> DEFINE name == BoundsOf[t]
           state == IF OtherWriter(c, t) THEN "partial" ELSE "whole"
           ended == [normalized[name] EXCEPT !.state = state]
<1>1. normalized[name] \in File /\ normalized[name].bounds = name /\ name \in Bounds
  BY BoundsKnown DEF Normalized, FeedInv, NamesFit, EncodersOwnFiles, FileFits
<1>2. /\ normalized' = [normalized EXCEPT ![name] = ended] /\ staged' = staged /\ shown' = shown
      /\ Moved(c, t, "encoded")
  BY DEF Normalized, CacheName
<1>3. FileFits(ended, name) /\ ended # NoFile
  <2>1. state \in {"partial", "whole"}
    OBVIOUS
  <2> HIDE DEF state
  <2> QED BY <1>1, <2>1 DEF FileFits, File, FileState, NoFile
<1> HIDE DEF ended
<1>4. \A b \in Bounds : normalized'[b] = IF b = name THEN ended ELSE normalized[b]
  BY <1>2 DEF FeedInv, NamesFit
<1>5. NamesFit'
  <2>1. normalized' \in [Bounds -> File]
    BY <1>1, <1>2, <1>3 DEF FeedInv, NamesFit, FileFits
  <2> QED BY <1>2, <1>3, <1>4, <2>1 DEF FeedInv, NamesFit
<1>6. EncodersOwnFiles'
  <2>1. prep' \in [Cycles \X Feeds -> PrepStep] /\ NoEncoder
    BY <1>2, MovedKeeps DEF PrepStep
  <2> QED BY <1>3, <1>4, <2>1, BoundsKnown DEF FeedInv, EncodersOwnFiles, NoEncoder
<1> QED BY <1>2, <1>5, <1>6 DEF FeedInv, ShownFits, DeliveredFits

LEMMA StageKeeps ==
  ASSUME FeedInv, NEW c \in Cycles, NEW t \in Feeds, Stage(c, t)
  PROVE  FeedInv'
<1>1. normalized' = normalized /\ shown' = shown /\ (Moved(c, t, "ready") \/ Moved(c, t, "failed"))
  BY DEF Stage
<1>2. prep' \in [Cycles \X Feeds -> PrepStep] /\ NoEncoder
  BY <1>1, MovedKeeps DEF PrepStep
<1>3. staged' = staged \/ staged' = [staged EXCEPT ![BoundsOf[t]] = normalized[BoundsOf[t]]]
  BY DEF Stage, CacheName
<1>4. NamesFit'
  BY <1>1, <1>3, BoundsKnown DEF FeedInv, NamesFit
<1> QED BY <1>1, <1>2, <1>4, FilesStay DEF FeedInv, ShownFits, DeliveredFits

LEMMA SendKeeps ==
  ASSUME FeedInv, NEW c \in Cycles, NEW t \in Feeds, Send(c, t)
  PROVE  FeedInv'
<1> DEFINE file == staged[BoundsOf[t]]
<1>1. normalized' = normalized /\ staged' = staged /\ (Moved(c, t, "sent") \/ Moved(c, t, "failed"))
  BY DEF Send
<1>2. prep' \in [Cycles \X Feeds -> PrepStep] /\ NoEncoder
  BY <1>1, MovedKeeps DEF PrepStep
<1>3. shown' = shown \/ (file # NoFile /\ shown' = [shown EXCEPT ![t] = file])
  BY DEF Send, CacheName
<1>4. file \in File /\ (file # NoFile => file.bounds = BoundsOf[t])
  BY BoundsKnown DEF FeedInv, NamesFit, FileFits
<1> HIDE DEF file
<1>5. ShownFits'
  BY <1>3, <1>4 DEF FeedInv, ShownFits, DeliveredFits
<1>6. NamesFit'
  BY <1>1 DEF FeedInv, NamesFit
<1> QED BY <1>1, <1>2, <1>5, <1>6, FilesStay DEF FeedInv

LEMMA PruneKeeps ==
  ASSUME FeedInv, NEW b \in Bounds, PruneMediaCache(b)
  PROVE  FeedInv'
<1>1. prep' = prep /\ shown' = shown
  BY DEF PruneMediaCache
<1>2. \/ normalized' = [normalized EXCEPT ![b] = NoFile] /\ staged' = staged
      \/ staged' = [staged EXCEPT ![b] = NoFile] /\ normalized' = normalized
  BY DEF PruneMediaCache
<1>3. NamesFit'
  BY <1>2, NoFileFits DEF FeedInv, NamesFit
<1>4. EncodersOwnFiles'
  <2>1. \A c \in Cycles, t \in Feeds : prep[<<c, t>>] = "encoding" => BoundsOf[t] # b
    BY DEF PruneMediaCache, FileInUse, CacheName
  <2>2. \A a \in Bounds : a # b => normalized'[a] = normalized[a]
    BY <1>2 DEF FeedInv, NamesFit
  <2> QED BY <1>1, <2>1, <2>2, BoundsKnown DEF FeedInv, EncodersOwnFiles
<1> QED BY <1>1, <1>3, <1>4 DEF FeedInv, ShownFits, DeliveredFits

\* The steps that touch no file.
LEMMA QueueKeeps ==
  ASSUME FeedInv,
         \/ \E ts \in SUBSET Feeds : PublishCycle(ts)
         \/ FeedRestart
         \/ \E c \in Cycles, t \in Feeds :
              FindNormalized(c, t) \/ NormalizeFails(c, t) \/ AttemptTimesOut(c, t)
         \/ UNCHANGED feedVars
  PROVE  FeedInv'
<1>1. normalized' = normalized /\ staged' = staged /\ shown' = shown
  BY DEF PublishCycle, FeedRestart, FindNormalized, NormalizeFails, AttemptTimesOut, feedVars
<1>2. prep \in [Cycles \X Feeds -> PrepStep]
  BY DEF FeedInv, EncodersOwnFiles
<1>3. prep' \in [Cycles \X Feeds -> PrepStep] /\ NoEncoder
  <2>1. ASSUME NEW ts \in SUBSET Feeds, PublishCycle(ts)
        PROVE  prep' \in [Cycles \X Feeds -> PrepStep] /\ NoEncoder
    <3>1. prep' = [ct \in Cycles \X Feeds |-> IF ct \in {cycle + 1} \X ts THEN "queued" ELSE prep[ct]]
      BY <2>1 DEF PublishCycle
    <3> QED BY <1>2, <3>1 DEF PrepStep, NoEncoder
  <2>2. CASE FeedRestart
    BY <2>2 DEF FeedRestart, PrepStep, NoEncoder
  <2>3. ASSUME NEW c \in Cycles, NEW t \in Feeds, FindNormalized(c, t) \/ NormalizeFails(c, t)
        PROVE  prep' \in [Cycles \X Feeds -> PrepStep] /\ NoEncoder
    <3>1. Moved(c, t, "absent") \/ Moved(c, t, "encoded") \/ Moved(c, t, "failed")
      BY <2>3 DEF FindNormalized, NormalizeFails
    <3> QED BY <3>1, MovedKeeps DEF PrepStep
  <2>4. CASE prep' = prep
    BY <1>2, <2>4 DEF NoEncoder
  <2> QED BY <2>1, <2>2, <2>3, <2>4 DEF AttemptTimesOut, feedVars
<1> QED BY <1>1, <1>3, FilesStay DEF FeedInv, NamesFit, ShownFits, DeliveredFits

LEMMA FeedStarts == FeedInit => FeedInv
BY NoFileFits, BoundsKnown DEF FeedInit, FeedInv, NamesFit, EncodersOwnFiles, ShownFits, DeliveredFits, PrepStep

LEMMA FeedStep == FeedInv /\ [FeedNext]_feedVars => FeedInv'
BY StartKeeps, EndKeeps, StageKeeps, SendKeeps, PruneKeeps, QueueKeeps DEF FeedNext

LEMMA CyclesStart == FeedInit => CyclesCount
BY FeedAssumption DEF FeedInit, CyclesCount

LEMMA CyclesKeep == CyclesCount /\ [FeedNext]_feedVars => CyclesCount'
<1> SUFFICES ASSUME CyclesCount, [FeedNext]_feedVars PROVE CyclesCount'
  OBVIOUS
<1>1. CASE \E ts \in SUBSET Feeds : PublishCycle(ts)
  <2>1. PICK ts \in SUBSET Feeds : PublishCycle(ts)
    BY <1>1
  <2>2. cycle + 1 \in 0 .. MaxCycles /\ cycle + 1 \in Cycles
    BY <2>1, FeedAssumption DEF PublishCycle, CyclesCount, Cycles
  <2> QED BY <2>1, <2>2 DEF PublishCycle, CyclesCount
<1>2. CASE \E c \in Cycles, t \in Feeds :
             \/ FindNormalized(c, t) \/ StartNormalize(c, t) \/ Normalized(c, t) \/ NormalizeFails(c, t)
             \/ Stage(c, t) \/ Send(c, t) \/ AttemptTimesOut(c, t)
  <2>1. cycle' = cycle /\ waiting' \subseteq waiting
    BY <1>2 DEF FindNormalized, StartNormalize, Normalized, NormalizeFails, Stage, Send, AttemptTimesOut
  <2> QED BY <2>1 DEF CyclesCount
<1>3. CASE \E b \in Bounds : PruneMediaCache(b)
  BY <1>3 DEF PruneMediaCache, CyclesCount
<1>4. CASE FeedRestart
  BY <1>4 DEF FeedRestart, CyclesCount
<1>5. CASE UNCHANGED feedVars
  BY <1>5 DEF feedVars, CyclesCount
<1> QED BY <1>1, <1>2, <1>3, <1>4, <1>5 DEF FeedNext

\* Every target is handed the encode for its own bounds, whichever target, attempt or
\* abandoned encoder made the file and whatever was pruned in between.
THEOREM EveryFeedFits == FeedSpec => [](FeedTypeOK /\ DeliveredFits)
<1>1. FeedInv /\ CyclesCount => FeedTypeOK /\ DeliveredFits
  BY DEF FeedInv, NamesFit, EncodersOwnFiles, ShownFits, CyclesCount, FeedTypeOK
<1> QED BY <1>1, FeedStarts, FeedStep, CyclesStart, CyclesKeep, PTL DEF FeedSpec

-----------------------------------------------------------------------------
-----------------------------------------------------------------------------
(* Story media *)

\* A variant appears under its final name by a rename of what an encoder finished
\* (LaneRender, Placed), by any number of processes that render one pair at a time, and
\* a prepared delivery has named both files of a pair (NamesThePair).

\* A local render that moves its files in has them whole, and never asks the processor.
LaneRender == {x \in Render :
  provider = "local" => x.pc # "posted" /\ (x.pc \in Variants => x.beside = "whole")}
\* A lane holds no more renders than were asked for.
LanesFit == \A p \in Processes : renders[p] \in Seq(LaneRender) /\ Len(renders[p]) <= calls
Placed == variant \in [Variants -> {"none", "whole"}]
NamesThePair == story.pc = "prepared" => story.named = Paths
StoryInv == StoryTypeOK /\ Placed /\ LanesFit /\ DOMAIN renders = Processes /\ NamesThePair /\ StoryIsItsOwn

\* The lanes are typed, and their fronts are renders.
LEMMA LanesAreTyped ==
  ASSUME LanesFit
  PROVE  /\ \A p \in Processes : renders[p] \in Seq(Render)
         /\ \A p \in Processes : Enclosed(p) => renders[p][1] \in LaneRender /\ FrontRender(p) = renders[p][1]
<1>1. LaneRender \subseteq Render
  BY DEF LaneRender
<1>2. \A p \in Processes : renders[p] \in Seq(Render)
  BY <1>1 DEF LanesFit
<1>3. ASSUME NEW p \in Processes, Enclosed(p) PROVE renders[p][1] \in LaneRender /\ FrontRender(p) = renders[p][1]
  <2>1. renders[p] \in Seq(LaneRender) /\ renders[p] # <<>>
    BY <1>3 DEF LanesFit, Enclosed
  <2>2. 1 \in 1 .. Len(renders[p])
    BY <2>1, EmptySeq, LenProperties
  <2> QED BY <2>1, <2>2, ElementOfSeq, HeadTailProperties DEF FrontRender
<1> QED BY <1>2, <1>3

\* One lane has another first render.
LEMMA LaneSteps ==
  ASSUME StoryInv, NEW p \in Processes, Enclosed(p), NEW x \in LaneRender,
         renders' = [renders EXCEPT ![p] = [@ EXCEPT ![1] = x]], calls' = calls, provider' = provider
  PROVE  LanesFit' /\ (DOMAIN renders = Processes)'
<1>1. renders[p] \in Seq(LaneRender) /\ 1 \in 1 .. Len(renders[p])
  BY EmptySeq, LenProperties DEF StoryInv, LanesFit, Enclosed
<1> DEFINE rs == [renders[p] EXCEPT ![1] = x]
<1>2. rs \in Seq(LaneRender) /\ Len(rs) = Len(renders[p])
  BY <1>1, ExceptSeq
<1>3. LaneRender' = LaneRender
  BY DEF LaneRender
<1>4. renders' = [renders EXCEPT ![p] = rs]
  OBVIOUS
<1> HIDE DEF rs
<1> QED BY <1>2, <1>3, <1>4 DEF StoryInv, LanesFit

\* A lane whose first render only moves to another phase.
LEMMA PhaseIsAnExcept ==
  ASSUME StoryInv, NEW p \in Processes, Enclosed(p), NEW pc \in RenderStep, NEW b \in VariantState
  PROVE  /\ Stepped(renders[p], pc) = [renders[p] EXCEPT ![1] = [renders[p][1] EXCEPT !.pc = pc]]
         /\ [Stepped(renders[p], pc) EXCEPT ![1].beside = b]
              = [renders[p] EXCEPT ![1] = [renders[p][1] EXCEPT !.pc = pc, !.beside = b]]
         /\ renders[p][1] \in LaneRender
<1>1. renders[p] \in Seq(LaneRender) /\ 1 \in 1 .. Len(renders[p]) /\ renders[p][1] \in LaneRender
  BY EmptySeq, LenProperties, ElementOfSeq DEF StoryInv, LanesFit, Enclosed
<1>2. 1 \in DOMAIN renders[p]
  BY <1>1, LenProperties
<1> QED BY <1>1, <1>2 DEF Stepped

\* One lane is done with its first render.
LEMMA LaneFinishes ==
  ASSUME StoryInv, NEW p \in Processes, Enclosed(p), Finished(p), calls' = calls, provider' = provider
  PROVE  LanesFit' /\ (DOMAIN renders = Processes)'
<1>1. /\ Tail(renders[p]) \in Seq(LaneRender) /\ Len(Tail(renders[p])) <= Len(renders[p])
      /\ Len(renders[p]) \in Nat
  BY HeadTailProperties, LenProperties DEF StoryInv, LanesFit, Enclosed
<1>2. Len(Tail(renders[p])) \in Nat /\ calls \in Nat
  BY <1>1, LenProperties, StoryAssumption DEF StoryInv, StoryTypeOK
<1>3. LaneRender' = LaneRender
  BY DEF LaneRender
<1> QED BY <1>1, <1>2, <1>3 DEF StoryInv, LanesFit, Finished

\* The end of a render changes nothing of what a delivery has named.
LEMMA WaitsLessTyped ==
  ASSUME StoryInv, NEW p \in Processes, WaitsLess(p), asset' = asset
  PROVE  story' \in Delivery /\ NamesThePair'
<1>1. story' \in Delivery
  <2>1. story \in Delivery /\ story.behind \in 0 .. MaxRenders /\ MaxRenders \in Nat
    BY StoryAssumption DEF StoryInv, StoryTypeOK, Delivery
  <2>2. CASE story.behind > 0 /\ story' = [story EXCEPT !.behind = @ - 1]
    <3>1. story.behind - 1 \in 0 .. MaxRenders
      BY <2>1, <2>2
    <3> QED BY <2>1, <2>2, <3>1 DEF Delivery
  <2> QED BY <2>1, <2>2 DEF WaitsLess
<1>2. NamesThePair'
  BY DEF StoryInv, StoryTypeOK, WaitsLess, NamesThePair, Delivery, Paths
<1> QED BY <1>1, <1>2

\* What is left to show of a step that hands nothing over: the lanes, the files, what a
\* delivery has named, and the types of what it writes.
LEMMA StoryInvKept ==
  ASSUME StoryInv, LanesFit', (DOMAIN renders = Processes)', Placed', NamesThePair',
         asset' = asset, provider' = provider, told' = told,
         calls' \in 0 .. MaxRenders, slot' \in {"free", "story", "other"}, cached' \subseteq Variants,
         late' \subseteq Processes \X Variants, story' \in Delivery
  PROVE  StoryInv'
<1>1. \A p \in Processes : renders'[p] \in Seq(Render)
  <2>1. LaneRender' \subseteq Render
    BY DEF LaneRender
  <2> QED BY <2>1 DEF LanesFit
<1>2. variant' \in [Variants -> VariantState]
  BY DEF Placed, VariantState
<1> QED BY <1>1, <1>2 DEF StoryInv, StoryTypeOK, StoryIsItsOwn

LEMMA RenderFailedKeeps ==
  ASSUME StoryInv, NEW p \in Processes, Enclosed(p), RenderFailed(p),
         slot' \in {"free", "story", "other"}, cached' \subseteq Variants, late' \subseteq Processes \X Variants
  PROVE  StoryInv'
<1>1. LanesFit' /\ (DOMAIN renders = Processes)'
  BY LaneFinishes DEF RenderFailed
<1>2. Placed' /\ calls' \in 0 .. MaxRenders
  BY DEF RenderFailed, Placed, StoryInv, StoryTypeOK
<1> QED BY <1>1, <1>2, WaitsLessTyped, StoryInvKept DEF RenderFailed

LEMMA EnsureKeeps ==
  ASSUME StoryInv, NEW p \in Processes, NEW force \in BOOLEAN, EnsureStoryDerivative(p, force)
  PROVE  StoryInv'
<1> DEFINE x == [force |-> force, pc |-> "queued", beside |-> "none"]
<1>1. x \in LaneRender
  BY DEF LaneRender, Render, RenderStep, VariantState, Variants
<1>2. renders' = renders \/ renders' = [renders EXCEPT ![p] = Append(@, x)]
  BY DEF EnsureStoryDerivative
<1> HIDE DEF x
<1>3. Append(renders[p], x) \in Seq(LaneRender) /\ Len(Append(renders[p], x)) = Len(renders[p]) + 1
  BY <1>1, AppendProperties DEF StoryInv, LanesFit
<1>4. \A q \in Processes : Len(renders[q]) \in Nat /\ calls \in Nat /\ MaxRenders \in Nat
  BY LenProperties, StoryAssumption DEF StoryInv, LanesFit, StoryTypeOK
<1>5. LaneRender' = LaneRender /\ calls' = calls + 1 /\ calls' \in 0 .. MaxRenders
  BY <1>4 DEF LaneRender, EnsureStoryDerivative, StoryInv, StoryTypeOK
<1>6. LanesFit' /\ (DOMAIN renders = Processes)'
  <2>1. \A q \in Processes : renders[q] \in Seq(LaneRender) /\ Len(renders[q]) <= calls
    BY DEF StoryInv, LanesFit
  <2>2. ASSUME NEW q \in Processes PROVE renders'[q] \in Seq(LaneRender) /\ Len(renders'[q]) <= calls'
    <3>1. renders'[q] = renders[q] \/ (q = p /\ renders'[q] = Append(renders[p], x))
      BY <1>2 DEF StoryInv
    <3>2. Len(renders[q]) <= calls /\ Len(renders[p]) <= calls
      BY <2>1
    <3>3. Len(renders[q]) <= calls' /\ Len(renders[p]) + 1 <= calls'
      BY <3>2, <1>4, <1>5
    <3> QED BY <3>1, <3>3, <2>1, <1>3
  <2> QED BY <2>2, <1>2, <1>5 DEF LanesFit, StoryInv
<1>7. Placed' /\ NamesThePair'
  BY DEF EnsureStoryDerivative, StoryInv, Placed, NamesThePair, Paths
<1> QED BY <1>5, <1>6, <1>7, StoryInvKept DEF EnsureStoryDerivative, StoryInv, StoryTypeOK

LEMMA EncodeKeeps ==
  ASSUME StoryInv, NEW p \in Processes, RenderNothing(p) \/ EncodeLocally(p) \/ EncodedLocally(p)
  PROVE  StoryInv'
<1>1. CASE RenderNothing(p)
  <2>1. LanesFit' /\ (DOMAIN renders = Processes)'
    BY <1>1, LaneFinishes DEF RenderNothing, AtFront
  <2>2. Placed'
    BY <1>1 DEF RenderNothing, StoryInv, Placed
  <2> QED BY <1>1, <2>1, <2>2, WaitsLessTyped, StoryInvKept DEF RenderNothing, StoryInv, StoryTypeOK
<1>2. CASE EncodeLocally(p) \/ EncodedLocally(p)
  <2>1. PICK pc \in {"encoding", "standard"}, b \in VariantState :
          /\ pc = "standard" => b = "whole"
          /\ renders' = [renders EXCEPT ![p] = [Stepped(@, pc) EXCEPT ![1].beside = b]]
    BY <1>2 DEF EncodeLocally, EncodedLocally, VariantState
  <2> DEFINE x == [renders[p][1] EXCEPT !.pc = pc, !.beside = b]
  <2>2. Enclosed(p) /\ calls' = calls /\ provider' = provider /\ pc \in RenderStep
    BY <1>2 DEF EncodeLocally, EncodedLocally, Renders, AtFront, RenderStep
  <2>3. renders[p][1] \in LaneRender
        /\ [Stepped(renders[p], pc) EXCEPT ![1].beside = b] = [renders[p] EXCEPT ![1] = x]
    BY <2>2, PhaseIsAnExcept
  <2>4. x \in LaneRender
    BY <2>1, <2>2, <2>3 DEF LaneRender, Render, Variants
  <2>5. renders' = [renders EXCEPT ![p] = [@ EXCEPT ![1] = x]]
    BY <2>1, <2>3
  <2> HIDE DEF x
  <2>6. LanesFit' /\ (DOMAIN renders = Processes)'
    BY <2>2, <2>4, <2>5, LaneSteps
  <2>7. Placed' /\ NamesThePair'
    BY <1>2 DEF EncodeLocally, EncodedLocally, StoryInv, Placed, NamesThePair, Paths
  <2> QED BY <1>2, <2>6, <2>7, StoryInvKept DEF EncodeLocally, EncodedLocally, StoryInv, StoryTypeOK
<1> QED BY <1>1, <1>2

\* A lane steps to a phase of the processor's, or from one.
LEMMA RemotePhase ==
  ASSUME StoryInv, NEW p \in Processes, Enclosed(p), NEW pc \in RenderStep,
         provider = "remote_http" \/ (pc = "telegram" /\ FrontRender(p).pc = "standard"),
         renders' = [renders EXCEPT ![p] = Stepped(@, pc)], calls' = calls, provider' = provider
  PROVE  LanesFit' /\ (DOMAIN renders = Processes)'
<1> DEFINE x == [renders[p][1] EXCEPT !.pc = pc]
<1>1. Stepped(renders[p], pc) = [renders[p] EXCEPT ![1] = x] /\ renders[p][1] \in LaneRender
  BY PhaseIsAnExcept DEF VariantState
<1>2. FrontRender(p) = renders[p][1]
  BY LanesAreTyped DEF StoryInv
<1>3. x \in LaneRender
  BY <1>1, <1>2 DEF LaneRender, Render, Variants
<1>4. renders' = [renders EXCEPT ![p] = [@ EXCEPT ![1] = x]]
  BY <1>1
<1> HIDE DEF x
<1> QED BY <1>3, <1>4, LaneSteps

LEMMA PostKeeps ==
  ASSUME StoryInv, NEW p \in Processes, PostTransform(p)
  PROVE  StoryInv'
<1>1. CASE RenderFailed(p)
  BY <1>1, RenderFailedKeeps DEF PostTransform, Renders, AtFront, StoryInv, StoryTypeOK
<1>2. CASE ~RenderFailed(p)
  <2>1. /\ Enclosed(p) /\ calls' = calls /\ provider = "remote_http" /\ provider' = provider
        /\ \E pc \in RenderStep : renders' = [renders EXCEPT ![p] = Stepped(@, pc)]
    BY <1>2 DEF PostTransform, Renders, AtFront, RenderStep
  <2>2. LanesFit' /\ (DOMAIN renders = Processes)'
    BY <2>1, RemotePhase
  <2>3. Placed' /\ NamesThePair'
    BY <1>2 DEF PostTransform, StoryInv, Placed, NamesThePair, Paths
  <2> QED BY <1>2, <2>2, <2>3, StoryInvKept DEF PostTransform, StoryInv, StoryTypeOK
<1> QED BY <1>1, <1>2

\* All the lanes that wait for the processor move at once.
LEMMA PostedLanesMove ==
  ASSUME StoryInv, calls' = calls, provider' = provider,
         \/ renders' = [p \in Processes |-> IF p \in Posted THEN Stepped(renders[p], "standard") ELSE renders[p]]
         \/ renders' = [p \in Processes |-> IF p \in Posted THEN Tail(renders[p]) ELSE renders[p]]
  PROVE  LanesFit' /\ (DOMAIN renders = Processes)'
<1>0. LaneRender' = LaneRender
  BY DEF LaneRender
<1>1. \A p \in Posted : p \in Processes /\ renders[p] \in Seq(LaneRender) /\ renders[p] # <<>> /\ Enclosed(p)
  BY DEF StoryInv, LanesFit, Posted, AtFront, Enclosed
<1>2. ASSUME NEW p \in Posted
      PROVE  /\ Stepped(renders[p], "standard") \in Seq(LaneRender)
             /\ Len(Stepped(renders[p], "standard")) = Len(renders[p])
  <2> DEFINE x == [renders[p][1] EXCEPT !.pc = "standard"]
  <2>1. /\ Stepped(renders[p], "standard") = [renders[p] EXCEPT ![1] = x]
        /\ renders[p][1] \in LaneRender /\ FrontRender(p) = renders[p][1]
    BY <1>1, PhaseIsAnExcept, LanesAreTyped DEF VariantState, RenderStep, StoryInv
  <2>2. renders[p][1].pc = "posted"
    BY <2>1 DEF Posted, AtFront
  <2>3. x \in LaneRender
    BY <2>1, <2>2 DEF LaneRender, Render, RenderStep
  <2>4. 1 \in 1 .. Len(renders[p])
    BY <1>1, EmptySeq, LenProperties
  <2> HIDE DEF x
  <2> QED BY <1>1, <2>1, <2>3, <2>4, ExceptSeq
<1>3. \A p \in Posted : /\ Tail(renders[p]) \in Seq(LaneRender) /\ Len(Tail(renders[p])) \in Nat
                        /\ Len(renders[p]) \in Nat /\ Len(Tail(renders[p])) = Len(renders[p]) - 1
  BY <1>1, HeadTailProperties, LenProperties
<1>4. calls \in Nat
  BY DEF StoryInv, StoryTypeOK
<1>5. \A p \in Processes : renders[p] \in Seq(LaneRender) /\ Len(renders[p]) <= calls
  BY DEF StoryInv, LanesFit
<1>6. CASE renders' = [p \in Processes |-> IF p \in Posted THEN Stepped(renders[p], "standard") ELSE renders[p]]
  BY <1>0, <1>2, <1>5, <1>6 DEF LanesFit
<1>7. CASE renders' = [p \in Processes |-> IF p \in Posted THEN Tail(renders[p]) ELSE renders[p]]
  <2>1. \A p \in Processes : renders'[p] = IF p \in Posted THEN Tail(renders[p]) ELSE renders[p]
    BY <1>7
  <2>2. ASSUME NEW p \in Processes PROVE renders'[p] \in Seq(LaneRender) /\ Len(renders'[p]) <= calls
    <3>1. CASE p \in Posted
      <4>1. Len(Tail(renders[p])) <= calls
        BY <3>1, <1>3, <1>4, <1>5
      <4> QED BY <4>1, <3>1, <2>1, <1>3
    <3>2. CASE p \notin Posted
      BY <3>2, <2>1, <1>5
    <3> QED BY <3>1, <3>2
  <2>3. DOMAIN renders' = Processes
    BY <1>7
  <2>4. LanesFit'
    BY <1>0, <2>2 DEF LanesFit
  <2> QED BY <2>3, <2>4
<1> QED BY <1>6, <1>7

LEMMA TranscodeKeeps ==
  ASSUME StoryInv, Transcoded \/ TranscodeFails
  PROVE  StoryInv'
<1>1. LanesFit' /\ (DOMAIN renders = Processes)'
  BY PostedLanesMove DEF Transcoded, TranscodeFails
<1>2. Paths \subseteq Variants
  BY DEF Paths, Variants
<1>3. /\ Placed' /\ calls' \in 0 .. MaxRenders /\ slot' = "free" /\ cached' \subseteq Variants
  BY <1>2 DEF Transcoded, TranscodeFails, StoryInv, StoryTypeOK, Placed, Variants
<1>4. story' \in Delivery
  BY StoryAssumption DEF Transcoded, TranscodeFails, StoryInv, StoryTypeOK, Delivery
<1>5. NamesThePair'
  BY DEF Transcoded, TranscodeFails, StoryInv, StoryTypeOK, NamesThePair, Paths, Delivery
<1> QED BY <1>1, <1>3, <1>4, <1>5, StoryInvKept DEF Transcoded, TranscodeFails, StoryInv, StoryTypeOK

LEMMA ArrivesKeeps ==
  ASSUME StoryInv, NEW p \in Processes, NEW v \in Variants, VariantArrives(p, v)
  PROVE  StoryInv'
<1>1. CASE Made(p, v) = "none"
  BY <1>1, RenderFailedKeeps DEF VariantArrives, AtFront, StoryInv, StoryTypeOK
<1>2. CASE Made(p, v) # "none"
  <2>0. Enclosed(p) /\ calls' = calls /\ provider' = provider /\ FrontRender(p).pc = v
    BY <1>2 DEF VariantArrives, AtFront
  <2>1. LanesFit' /\ (DOMAIN renders = Processes)'
    <3>1. Finished(p) \/ (v = "standard" /\ renders' = [renders EXCEPT ![p] = Stepped(@, "telegram")])
      BY <1>2 DEF VariantArrives
    <3> QED BY <2>0, <3>1, LaneFinishes, RemotePhase DEF RenderStep
  <2>2. story' \in Delivery /\ NamesThePair'
    <3>1. WaitsLess(p) \/ story' = story
      BY <1>2 DEF VariantArrives
    <3>2. asset' = asset
      BY <1>2 DEF VariantArrives
    <3> QED BY <3>1, <3>2, WaitsLessTyped DEF StoryInv, StoryTypeOK, NamesThePair, Paths
  <2>3. Made(p, v) = "whole"
    <3>1. CASE provider = "local"
      <4>1. FrontRender(p) = renders[p][1] /\ renders[p][1] \in LaneRender
        BY <2>0, LanesAreTyped DEF StoryInv
      <4> QED BY <3>1, <4>1, <2>0 DEF LaneRender, Made
    <3> QED BY <3>1, <1>2 DEF Made
  <2>4. Placed'
    BY <1>2, <2>3 DEF VariantArrives, StoryInv, Placed
  <2> QED BY <1>2, <2>1, <2>2, <2>4, StoryInvKept DEF VariantArrives, StoryInv, StoryTypeOK
<1> QED BY <1>1, <1>2

LEMMA LateWriteKeeps ==
  ASSUME StoryInv, NEW p \in Processes, NEW v \in Variants, LateWrite(p, v)
  PROVE  StoryInv'
<1>1. LanesFit' /\ (DOMAIN renders = Processes)'
  BY DEF LateWrite, StoryInv, LanesFit, LaneRender
<1>2. Placed' /\ NamesThePair'
  BY DEF LateWrite, StoryInv, Placed, NamesThePair, Paths
<1> QED BY <1>1, <1>2, StoryInvKept DEF LateWrite, StoryInv, StoryTypeOK

\* A delivery names both files of a pair or goes no further, so what it hands over is
\* the file of its platform, and a file that is there is whole.
LEMMA DeliveryKeeps ==
  ASSUME StoryInv, StoryAsked \/ StoryPrepared \/ StorySent
  PROVE  StoryInv'
<1>1. LanesFit' /\ (DOMAIN renders = Processes)' /\ Placed'
  BY DEF StoryAsked, StoryPrepared, StorySent, StoryInv, LanesFit, LaneRender, Placed
<1>2. Len(renders["server"]) \in 0 .. MaxRenders
  BY LenProperties, StoryAssumption DEF StoryInv, LanesFit, StoryTypeOK, Processes
<1>3. story' \in Delivery
  <2>1. story \in Delivery /\ Paths \subseteq Variants
    BY DEF StoryInv, StoryTypeOK, Paths, Variants
  <2>2. CASE StoryAsked
    BY <1>2, <2>2 DEF StoryAsked, Delivery
  <2>3. CASE StoryPrepared
    <3>1. {v \in Paths : variant[v] # "none"} \in SUBSET Variants
      BY <2>1
    <3> QED BY <2>1, <2>3, <3>1 DEF StoryPrepared, Delivery
  <2>4. CASE StorySent
    BY <2>1, <2>4 DEF StorySent, Delivery
  <2> QED BY <2>2, <2>3, <2>4
<1>4. NamesThePair'
  <2>1. Paths' = Paths
    BY DEF StoryAsked, StoryPrepared, StorySent, Paths
  <2>2. story'.pc = "prepared" => story'.named = {v \in Paths : variant[v] # "none"} /\ VariantsPresent
    <3>1. story \in Delivery
      BY DEF StoryInv, StoryTypeOK
    <3>2. CASE StoryAsked
      BY <3>2 DEF StoryAsked
    <3>3. CASE StoryPrepared
      BY <3>1, <3>3 DEF StoryPrepared, Delivery
    <3>4. CASE StorySent
      BY <3>1, <3>4 DEF StorySent, Delivery
    <3> QED BY <3>2, <3>3, <3>4
  <2>3. VariantsPresent => {v \in Paths : variant[v] # "none"} = Paths
    BY DEF VariantsPresent
  <2> QED BY <2>1, <2>2, <2>3 DEF NamesThePair
<1>5. CASE told' = told
  BY <1>1, <1>3, <1>4, <1>5, StoryInvKept DEF StoryAsked, StoryPrepared, StorySent, StoryInv, StoryTypeOK
<1>6. CASE told' # told
  <2>1. /\ story.pc = "prepared" /\ variant[TelegramReads] # "none"
        /\ told' = [of |-> TelegramReads, state |-> variant[TelegramReads]]
        /\ UNCHANGED <<asset, provider, variant, renders, calls, slot, cached, late>>
    BY <1>6 DEF StoryAsked, StoryPrepared, StorySent
  <2>2. story.named = Paths
    BY <2>1 DEF StoryInv, NamesThePair
  <2>3. TelegramReads = IF asset = "video" THEN "telegram" ELSE "standard"
    BY <2>2 DEF TelegramReads, Paths, Variants
  <2>4. TelegramReads \in Variants /\ variant[TelegramReads] = "whole"
    BY <2>1, <2>3 DEF Variants, StoryInv, Placed
  <2>5. told' \in [of : Variants, state : VariantState]
    BY <2>1, <2>4 DEF VariantState
  <2>6. told'.of = TelegramReads /\ told'.state = "whole" /\ asset' = asset
    BY <2>1, <2>4
  <2>7. StoryIsItsOwn'
    BY <2>3, <2>6 DEF StoryIsItsOwn
  <2>8. StoryTypeOK'
    BY <1>3, <2>1, <2>5 DEF StoryInv, StoryTypeOK
  <2> QED BY <1>1, <1>4, <2>7, <2>8 DEF StoryInv
<1> QED BY <1>5, <1>6

LEMMA StoryRestartKeeps ==
  ASSUME StoryInv, StoryRestart
  PROVE  StoryInv'
<1>1. <<>> \in Seq(LaneRender) /\ Len(<<>>) = 0 /\ calls \in Nat
  BY EmptySeq DEF StoryInv, StoryTypeOK
<1>2. LanesFit' /\ (DOMAIN renders = Processes)'
  BY <1>1 DEF StoryRestart, StoryInv, LanesFit, LaneRender
<1>3. story' \in Delivery /\ NamesThePair'
  BY StoryAssumption DEF StoryRestart, StoryInv, StoryTypeOK, Delivery, NamesThePair, Paths
<1>4. Placed'
  BY DEF StoryRestart, StoryInv, Placed
<1> QED BY <1>2, <1>3, <1>4, StoryInvKept DEF StoryRestart, StoryInv, StoryTypeOK

LEMMA StoryStepKeeps ==
  ASSUME StoryInv, [StoryNext]_storyVars
  PROVE  StoryInv'
<1>1. CASE UNCHANGED storyVars
  BY <1>1 DEF storyVars, StoryInv, StoryTypeOK, LanesFit, LaneRender, Placed, NamesThePair, Paths, StoryIsItsOwn
<1>2. ASSUME NEW p \in Processes, RequestFails(p) PROVE StoryInv'
  <2>1. late' \subseteq Processes \X Variants
    BY <1>2 DEF RequestFails, StoryInv, StoryTypeOK
  <2> QED BY <1>2, <2>1, RenderFailedKeeps DEF RequestFails, AtFront, StoryInv, StoryTypeOK
<1>3. CASE OtherWork \/ PruneWorkDir
  BY <1>3 DEF OtherWork, PruneWorkDir, StoryInv, StoryTypeOK, LanesFit, LaneRender, Placed, NamesThePair, Paths,
     StoryIsItsOwn
<1> QED BY <1>1, <1>2, <1>3, EnsureKeeps, EncodeKeeps, PostKeeps, TranscodeKeeps, ArrivesKeeps, LateWriteKeeps,
        DeliveryKeeps, StoryRestartKeeps DEF StoryNext

\* Telegram is handed the file made for it, whole, for any number of renders, in either
\* process, with either encoder and whatever fails, dies or lands late: never the standard
\* file of a pair that is half there (preparedStoryMedia, prepareMediaItems), never a file
\* that is still written (transformLocally, writeResponseAtomically).
THEOREM StoriesAreTheirOwn == StorySpec => [](StoryTypeOK /\ StoryIsItsOwn)
<1>1. StoryInit => StoryInv
  <2>1. <<>> \in Seq(Render) /\ <<>> \in Seq(LaneRender) /\ Len(<<>>) = 0
    BY EmptySeq
  <2> QED BY <2>1, StoryAssumption DEF StoryInit, StoryInv, StoryTypeOK, LanesFit, Placed, NamesThePair,
             StoryIsItsOwn, VariantState, Variants, Delivery
<1>2. StoryInv /\ [StoryNext]_storyVars => StoryInv'
  BY StoryStepKeeps
<1>3. StoryInv => StoryTypeOK /\ StoryIsItsOwn
  BY DEF StoryInv
<1> QED BY <1>1, <1>2, <1>3, PTL DEF StorySpec

-----------------------------------------------------------------------------
-----------------------------------------------------------------------------
(* Adapters *)

\* What is out is known at every step to the payload of a row that may be tried again or
\* to the memory of the calls under way (WallInv), which is what keeps a chain in order
\* and whole; an article's draft goes with them (EssayInv).  The deferrals are paid for by
\* the containers built, each worth a wait of at most Patience polls, by the posts out and
\* by the budgets for building and fetching again (ThreadsPace, InstagramPace).

\* The first posts of a chain, in their order.
FirstPosts(n) == [i \in 1 .. n |-> i]

ThreadsStages == {"create_child", "wait_child", "create_parent", "create_primary", "wait_primary", "publish",
                  "create_reply", "wait_reply", "verify"}
InstagramStages == {"create", "processing", "ready", "publish_sent"}
WaitStages == {"wait_child", "wait_primary", "wait_reply", "processing"}

\* Shapes, and what a row that may be tried again has left.
RowInv ==
  /\ AdaptersTypeOK /\ length \in Nat \ {0}
  /\ carrier \notin Chained \cup {"threads"} => length = 1
  /\ ending \in {"queued", "calling"} => tries < Budget + PartialBudget
  /\ ending = "calling" => underway
  /\ underway => ending \in {"calling", "in_doubt"} /\ carrier \notin Staged
  /\ carrier \notin Staged => pauses = 0

\* What is out, and who knows it: the payload of a row that may be tried again, and
\* the memory of the calls under way.
WallInv ==
  /\ ChainInOrder /\ PlaceIsKept /\ PublishedToTheEnd
  /\ carrier \in {"discord", "zernio", "telegram", "telegram_story"} => trail = <<>>
  /\ underway /\ carrier \in Chained => Len(pocket.out) < length
  /\ underway /\ carrier \notin {"discord", "zernio"} => wall = IF carrier = "x" THEN pocket.out ELSE <<>>
  /\ ending = "queued" /\ carrier = "x" => Len(trail) < length
  /\ ending = "calling" /\ carrier = "x" /\ pocket.out = <<>> => trail = <<>>

\* The one draft of an article is the one the payload or the calls under way name.
EssayInv ==
  /\ OneEssay
  /\ carrier # "x_article" \/ (underway /\ ~pocket.held) \/ (ending = "queued" /\ trail = <<>>) => essays = 0

\* Where the stage of Threads puts the chain.
ThreadsPlace ==
  /\ stride.stage \in ThreadsStages
  /\ stride.stage \in {"create_child", "wait_child", "create_parent"} => size > 1
  /\ stride.stage \in {"create_child", "wait_child"} => stride.items < size
  /\ stride.stage \in {"create_child", "wait_child", "create_parent", "create_primary", "wait_primary"} => trail = <<>>
  /\ stride.stage \in {"publish", "create_reply", "wait_reply"} => Len(trail) < length
  /\ stride.stage = "verify" => Len(trail) = length
  /\ stride.polls <= Patience /\ stride.rebuilds <= 1 /\ stride.fetches <= FetchRetries

InstagramPlace ==
  /\ stride.stage \in InstagramStages
  /\ trail = IF stride.stage = "publish_sent" THEN << 1 >> ELSE <<>>
  /\ stride.polls < ReadyPolls /\ stride.sends < PublishAttempts /\ stride.rebuilds < ContainerAttempts

\* Containers of this chain that are ready, the ones of an album built twice included.
FirstAlbum == IF stride.rebuilds = 0 THEN 0 ELSE size
Album == IF size > 1 THEN FirstAlbum + size ELSE 0
Built ==
  IF stride.stage \in {"create_child", "wait_child"} THEN FirstAlbum + stride.items
  ELSE Album + Len(trail) + (IF stride.stage = "publish" THEN 1 ELSE 0)
Polled == IF stride.stage \in WaitStages THEN 1 + stride.polls ELSE 0
Besides == Polled + Len(trail) + stride.rebuilds + stride.fetches
ThreadsPace == pauses <= Built * (Patience + 2) + Besides

PerStory == ReadyPolls + PublishAttempts + 1
ThisStory ==
  CASE stride.stage = "create" -> 0
    [] stride.stage = "processing" -> Polled
    [] stride.stage = "ready" -> ReadyPolls + 1 + stride.sends
    [] OTHER -> PerStory
InstagramPace == pauses <= stride.rebuilds * PerStory + ThisStory

PaceInv ==
  /\ carrier = "threads" => ThreadsPlace /\ ThreadsPace
  /\ carrier = "instagram" => InstagramPlace /\ InstagramPace

AdaptersInv == RowInv /\ WallInv /\ EssayInv /\ PaceInv
-----------------------------------------------------------------------------
(* Posts in their order *)

LEMMA FirstPostsShape ==
  ASSUME NEW n \in Nat
  PROVE  /\ FirstPosts(n) \in Seq(Nat) /\ Len(FirstPosts(n)) = n /\ DOMAIN FirstPosts(n) = 1 .. n
         /\ \A i \in 1 .. n : FirstPosts(n)[i] = i
<1>1. PICK posts : posts = FirstPosts(n)
  OBVIOUS
<1>2. posts \in [1 .. n -> Nat] /\ \A i \in 1 .. n : posts[i] = i
  BY <1>1 DEF FirstPosts
<1>3. posts \in Seq(Nat) /\ Len(posts) = n /\ DOMAIN posts = 1 .. n
  BY <1>2
<1> QED BY <1>1, <1>2, <1>3

LEMMA NextPost ==
  ASSUME NEW n \in Nat
  PROVE  Append(FirstPosts(n), n + 1) = FirstPosts(n + 1)
<1> DEFINE longer == Append(FirstPosts(n), n + 1)
<1>1. FirstPosts(n) \in Seq(Nat) /\ Len(FirstPosts(n)) = n /\ n + 1 \in Nat
  BY FirstPostsShape
<1>2. longer \in Seq(Nat) /\ Len(longer) = n + 1
  BY <1>1, AppendProperties
<1>3. FirstPosts(n + 1) \in Seq(Nat) /\ Len(FirstPosts(n + 1)) = n + 1
  BY <1>1, FirstPostsShape
<1>4. ASSUME NEW i \in 1 .. n + 1 PROVE longer[i] = FirstPosts(n + 1)[i]
  <2>1. FirstPosts(n + 1)[i] = i
    BY <1>1, FirstPostsShape
  <2>2. CASE i = n + 1
    BY <1>1, <2>1, <2>2, AppendProperties
  <2>3. CASE i \in 1 .. n
    <3>1. longer[i] = FirstPosts(n)[i]
      BY <1>1, <2>3, AppendProperties
    <3> QED BY <2>1, <2>3, <3>1, FirstPostsShape
  <2> HIDE DEF longer
  <2>4. i = n + 1 \/ i \in 1 .. n
    OBVIOUS
  <2> QED BY <2>2, <2>3, <2>4
<1> QED BY <1>2, <1>3, <1>4, SeqEqual

LEMMA NoPostsYet == FirstPosts(0) = <<>> /\ FirstPosts(1) = << 1 >> /\ Append(<<>>, 1) = << 1 >>
<1>1. FirstPosts(0) = <<>>
  BY FirstPostsShape, EmptySeq
<1>2. Append(<<>>, 1) = << 1 >>
  OBVIOUS
<1>3. Append(FirstPosts(0), 0 + 1) = FirstPosts(0 + 1)
  BY NextPost
<1>4. 0 + 1 = 1
  OBVIOUS
<1> QED BY <1>1, <1>2, <1>3, <1>4

\* A wall in order takes the next post in order, and shows its last one.
LEMMA NextInOrder ==
  ASSUME NEW w \in Seq(1 .. length), w = FirstPosts(Len(w)), length \in Nat \ {0}, NEW part,
         part = Len(w) + 1, part <= length
  PROVE  /\ Append(w, part) \in Seq(1 .. length) /\ Len(Append(w, part)) = part
         /\ Append(w, part) = FirstPosts(part)
         /\ part \in {Append(w, part)[i] : i \in 1 .. Len(Append(w, part))}
<1>1. Len(w) \in Nat /\ part \in 1 .. length
  BY LenProperties
<1>2. Append(w, part) = FirstPosts(part)
  BY <1>1, NextPost
<1>3. Append(w, part) \in Seq(1 .. length) /\ Len(Append(w, part)) = part
  BY <1>1, AppendProperties
<1>4. FirstPosts(part)[part] = part
  <2>1. part \in Nat /\ part \in 1 .. part
    BY <1>1
  <2> QED BY <2>1, FirstPostsShape
<1> QED BY <1>1, <1>2, <1>3, <1>4

-----------------------------------------------------------------------------
(* Rows *)

LEMMA FailsShape ==
  ASSUME tries \in 0 .. Budget + PartialBudget, tries < Budget + PartialBudget, NEW class, Fails(class)
  PROVE  /\ tries' \in 0 .. Budget + PartialBudget /\ ending' \in {"queued", "failed"}
         /\ ending' = "queued" => tries' < Budget + PartialBudget
         /\ UNCHANGED <<stride, trail, pauses>>
BY AdaptersAssumption DEF Fails, Retried

\* A row at rest that is refused, declined, given up or put in doubt keeps its place.
Ended == ending' \in {"queued", "failed", "skipped", "in_doubt"}
LEMMA StandsStill ==
  ASSUME AdaptersInv, ending = "queued", ~underway, Ended,
         UNCHANGED <<adapterShape, underway, pocket, wall, essays, stride, trail, pauses>>,
         tries' \in 0 .. Budget + PartialBudget, ending' = "queued" => tries' < Budget + PartialBudget
  PROVE  AdaptersInv'
<1>1. RowInv'
  BY DEF AdaptersInv, RowInv, Ended, AdaptersTypeOK, adapterShape, Endings
<1>2. WallInv'
  BY DEF AdaptersInv, WallInv, Ended, adapterShape, ChainInOrder, PlaceIsKept, PublishedToTheEnd
<1>3. EssayInv'
  BY DEF AdaptersInv, EssayInv, OneEssay, Ended, adapterShape
<1>4. PaceInv'
  BY DEF AdaptersInv, PaceInv, ThreadsPlace, ThreadsPace, Built, FirstAlbum, Album, Besides, Polled,
         InstagramPlace, InstagramPace, ThisStory, adapterShape
<1> QED BY <1>1, <1>2, <1>3, <1>4 DEF AdaptersInv

LEMMA FailedStandsStill ==
  ASSUME AdaptersInv, ending = "queued", ~underway, NEW class, Fails(class),
         UNCHANGED <<adapterShape, underway, pocket, wall, essays>>
  PROVE  AdaptersInv'
<1>1. tries \in 0 .. Budget + PartialBudget /\ tries < Budget + PartialBudget
  BY DEF AdaptersInv, RowInv, AdaptersTypeOK
<1> QED BY <1>1, FailsShape, StandsStill DEF Ended

LEMMA EndedStandsStill ==
  ASSUME AdaptersInv, ending = "queued", ~underway, NEW how, EndsAs(how),
         how \in {"failed", "skipped", "in_doubt"},
         UNCHANGED <<adapterShape, underway, pocket, wall, essays>>
  PROVE  AdaptersInv'
<1>1. tries' \in 0 .. Budget + PartialBudget
  BY DEF EndsAs, AdaptersInv, RowInv, AdaptersTypeOK
<1> QED BY <1>1, StandsStill DEF Ended, EndsAs

\* A row at rest whose wall is complete and in order is published.
LEMMA PublishedWhole ==
  ASSUME AdaptersInv, carrier \in Staged, ending = "queued", EndsAs("published"), Len(wall) = length,
         wall' = wall, FrameOfCall
  PROVE  AdaptersInv'
<1>1. ~underway /\ length \in Nat \ {0} /\ wall = FirstPosts(Len(wall))
  BY DEF AdaptersInv, RowInv, WallInv, ChainInOrder, FirstPosts, Staged
<1>2. length \in {wall[i] : i \in 1 .. Len(wall)}
  BY <1>1, FirstPostsShape
<1>3. RowInv'
  BY <1>1 DEF AdaptersInv, RowInv, AdaptersTypeOK, EndsAs, FrameOfCall, adapterShape, Endings
<1>4. WallInv'
  BY <1>1, <1>2 DEF AdaptersInv, WallInv, ChainInOrder, PlaceIsKept, PublishedToTheEnd, EndsAs, FrameOfCall,
     adapterShape
<1>5. EssayInv'
  BY <1>1 DEF AdaptersInv, EssayInv, OneEssay, FrameOfCall, adapterShape, Staged
<1>6. PaceInv'
  BY DEF AdaptersInv, PaceInv, ThreadsPlace, ThreadsPace, Built, FirstAlbum, Album, Besides, Polled,
         InstagramPlace, InstagramPace, ThisStory, EndsAs, FrameOfCall, adapterShape
<1> QED BY <1>3, <1>4, <1>5, <1>6 DEF AdaptersInv

\* A call of a row at rest is lost: it may have landed.
LEMMA LostStandsStill ==
  ASSUME AdaptersInv, carrier \in Staged, ending = "queued", NEW part, LostAt(part), part = Len(wall) + 1,
         part <= length, FrameOfCall
  PROVE  AdaptersInv'
<1>1. ~underway /\ length \in Nat \ {0} /\ wall = FirstPosts(Len(wall)) /\ wall \in Seq(1 .. length)
  BY DEF AdaptersInv, RowInv, AdaptersTypeOK, WallInv, ChainInOrder, FirstPosts, Staged
<1>2. wall' \in Seq(1 .. length) /\ wall' = FirstPosts(Len(wall'))
  <2>1. CASE wall' = wall
    BY <1>1, <2>1
  <2>2. CASE wall' = Append(wall, part)
    BY <1>1, <2>2, NextInOrder
  <2> QED BY <2>1, <2>2 DEF LostAt
<1>3. RowInv'
  BY <1>1, <1>2 DEF AdaptersInv, RowInv, AdaptersTypeOK, LostAt, EndsAs, FrameOfCall, adapterShape, Endings
<1>4. WallInv'
  BY <1>1, <1>2 DEF AdaptersInv, WallInv, ChainInOrder, PlaceIsKept, PublishedToTheEnd, LostAt, EndsAs,
     FrameOfCall, adapterShape, FirstPosts
<1>5. EssayInv'
  BY <1>1 DEF AdaptersInv, EssayInv, OneEssay, FrameOfCall, adapterShape, Staged
<1>6. PaceInv'
  BY DEF AdaptersInv, PaceInv, ThreadsPlace, ThreadsPace, Built, FirstAlbum, Album, Besides, Polled,
         InstagramPlace, InstagramPace, ThisStory, LostAt, EndsAs, FrameOfCall, adapterShape
<1> QED BY <1>3, <1>4, <1>5, <1>6 DEF AdaptersInv

LEMMA DeclineKeeps == AdaptersInv /\ Decline => AdaptersInv'
<1> SUFFICES ASSUME AdaptersInv, Decline PROVE AdaptersInv'
  OBVIOUS
<1>1. CASE \E class \in ErrorKinds : Fails(class)
  BY <1>1, FailedStandsStill DEF Decline
<1>2. CASE EndsAs("skipped") \/ EndsAs("failed")
  BY <1>2, EndedStandsStill DEF Decline
<1> QED BY <1>1, <1>2 DEF Decline

-----------------------------------------------------------------------------
(* Deferrals *)

LEMMA StagedPlace ==
  ASSUME AdaptersInv, carrier \in Staged, ending = "queued"
  PROVE  /\ ~underway /\ wall = trail /\ trail \in Seq(1 .. length) /\ trail = FirstPosts(Len(trail))
         /\ Len(trail) \in Nat /\ stride \in Stride /\ pauses \in Nat /\ length \in Nat \ {0} /\ size \in Nat
<1>1. ~underway /\ trail \in Seq(1 .. length) /\ stride \in Stride /\ pauses \in Nat /\ length \in Nat \ {0}
  BY DEF AdaptersInv, RowInv, AdaptersTypeOK
<1>2. size \in Nat
  BY AdaptersAssumption DEF AdaptersInv, RowInv, AdaptersTypeOK
<1>3. wall = trail
  BY DEF AdaptersInv, WallInv, PlaceIsKept, Staged
<1>4. wall = FirstPosts(Len(wall))
  BY DEF AdaptersInv, WallInv, ChainInOrder, FirstPosts, Staged
<1> QED BY <1>1, <1>2, <1>3, <1>4, LenProperties

LEMMA DeferKeeps ==
  ASSUME AdaptersInv, carrier \in Staged, ending = "queued", NEW next \in Stride,
         NEW out \in Seq(1 .. length),
         Defer(next, out), wall' = out, out = FirstPosts(Len(out)), FrameOfCall, PaceInv'
  PROVE  AdaptersInv'
<1>1. ~underway /\ pauses \in Nat
  BY StagedPlace
<1>2. RowInv'
  BY <1>1 DEF AdaptersInv, RowInv, AdaptersTypeOK, Defer, FrameOfCall, adapterShape
<1>3. WallInv'
  BY <1>1 DEF AdaptersInv, WallInv, ChainInOrder, PlaceIsKept, PublishedToTheEnd, Defer, FrameOfCall,
     adapterShape, FirstPosts, Staged, Chained
<1>4. EssayInv'
  BY <1>1 DEF AdaptersInv, EssayInv, OneEssay, FrameOfCall, adapterShape, Staged
<1> QED BY <1>2, <1>3, <1>4 DEF AdaptersInv

LEMMA OneMore == \A n \in Nat, k \in Nat : n * k \in Nat /\ (n + 1) * k = n * k + k
OBVIOUS

\* A container is ready, or what is besides the ready ones has grown.
LEMMA ThreadsWorth ==
  ASSUME ThreadsPace, carrier' = "threads", pauses \in Nat, pauses' = pauses + 1, ThreadsPlace',
         Built \in Nat, Besides \in Nat, Besides' \in Nat,
         \/ Built' = Built /\ Besides' >= Besides + 1
         \/ Built' = Built + 1 /\ Besides' + Patience + 1 >= Besides
  PROVE  PaceInv'
<1> DEFINE each == Patience + 2
<1>1. each \in Nat
  BY AdaptersAssumption
<1>2. Built * each \in Nat /\ (Built + 1) * each = Built * each + each
  BY <1>1, OneMore
<1>3. pauses' <= Built' * each + Besides'
  <2>1. PICK b, p, w, v : b = Built * each /\ p = pauses /\ w = Besides /\ v = Besides'
    OBVIOUS
  <2>2. p <= b + w /\ b \in Nat /\ p \in Nat /\ w \in Nat /\ v \in Nat
    BY <1>2, <2>1 DEF ThreadsPace
  <2>3. CASE Built' = Built /\ v >= w + 1
    <3>1. p + 1 <= b + v
      BY <2>2, <2>3
    <3> QED BY <2>1, <2>3, <3>1
  <2>4. CASE Built' = Built + 1 /\ v + Patience + 1 >= w
    <3>1. p + 1 <= b + each + v
      BY <2>2, <2>4, AdaptersAssumption
    <3>2. Built' * each = b + each
      BY <1>2, <2>1, <2>4
    <3> HIDE DEF each
    <3> QED BY <2>1, <3>1, <3>2
  <2> QED BY <2>1, <2>3, <2>4
<1> QED BY <1>3 DEF PaceInv, ThreadsPace

LEMMA ThreadsNumbers ==
  ASSUME AdaptersInv, carrier = "threads", ending = "queued"
  PROVE  /\ ThreadsPlace /\ ThreadsPace /\ Built \in Nat /\ Besides \in Nat /\ Polled \in Nat
         /\ stride.items \in Nat /\ stride.polls \in Nat /\ stride.rebuilds \in Nat /\ stride.fetches \in Nat
<1>1. /\ Len(trail) \in Nat /\ size \in Nat
      /\ stride.items \in Nat /\ stride.polls \in Nat /\ stride.rebuilds \in Nat /\ stride.fetches \in Nat
  BY StagedPlace DEF Staged, Stride
<1>2. ThreadsPlace /\ ThreadsPace
  BY DEF AdaptersInv, PaceInv
<1>3. FirstAlbum \in Nat /\ Album \in Nat /\ Polled \in Nat
  BY <1>1 DEF FirstAlbum, Album, Polled
<1>4. PICK n \in Nat : n = Len(trail)
  BY <1>1
<1>5. Built = IF stride.stage \in {"create_child", "wait_child"} THEN FirstAlbum + stride.items
              ELSE Album + n + (IF stride.stage = "publish" THEN 1 ELSE 0)
  BY <1>4 DEF Built
<1>6. Besides = Polled + n + stride.rebuilds + stride.fetches
  BY <1>4 DEF Besides
<1>7. Built \in Nat
  BY <1>1, <1>3, <1>4, <1>5
<1>8. Besides \in Nat
  BY <1>1, <1>3, <1>4, <1>6
<1> QED BY <1>1, <1>2, <1>3, <1>7, <1>8

LEMMA BesidesMoves ==
  ASSUME AdaptersInv, carrier = "threads", ending = "queued", Polled' \in Nat, stride'.rebuilds \in Nat,
         stride'.fetches \in Nat,
         NEW m \in Nat, Len(trail') = Len(trail) + m, NEW more \in Nat, NEW less \in Nat,
         Polled' + stride'.rebuilds + stride'.fetches + m + less >= Polled + stride.rebuilds + stride.fetches + more
  PROVE  Besides' \in Nat /\ Besides' + less >= Besides + more
<1>1. Polled \in Nat /\ Len(trail) \in Nat /\ stride.rebuilds \in Nat /\ stride.fetches \in Nat
  BY ThreadsNumbers, StagedPlace DEF Staged
<1>2. PICK n, n2, h, k, r, f, r2, f2 :
           /\ n = Len(trail) /\ n2 = Len(trail') /\ h = Polled /\ k = Polled' /\ r = stride.rebuilds /\ f = stride.fetches
           /\ r2 = stride'.rebuilds /\ f2 = stride'.fetches
  OBVIOUS
<1>3. Besides = h + n + r + f /\ Besides' = k + n2 + r2 + f2
  BY <1>2 DEF Besides
<1>4. /\ n \in Nat /\ h \in Nat /\ k \in Nat /\ r \in Nat /\ f \in Nat /\ r2 \in Nat /\ f2 \in Nat
      /\ n2 = n + m /\ k + r2 + f2 + m + less >= h + r + f + more
  BY <1>1, <1>2
<1>5. k + n2 + r2 + f2 \in Nat /\ k + n2 + r2 + f2 + less >= h + n + r + f + more
  BY <1>4
<1> QED BY <1>3, <1>5

\* What is besides grows while the payload stays.
LEMMA BesidesGrow ==
  ASSUME AdaptersInv, carrier = "threads", ending = "queued", Polled' \in Nat, stride'.rebuilds \in Nat,
         stride'.fetches \in Nat,
         trail' = trail, Polled' + stride'.rebuilds + stride'.fetches >= Polled + stride.rebuilds + stride.fetches + 1
  PROVE  Besides' \in Nat /\ Besides' >= Besides + 1
<1>1. Polled \in Nat /\ Len(trail) \in Nat /\ stride.rebuilds \in Nat /\ stride.fetches \in Nat /\ Besides \in Nat
  BY ThreadsNumbers, StagedPlace DEF Staged
<1>2. Len(trail') = Len(trail) + 0
  BY <1>1
<1>3. Polled' + stride'.rebuilds + stride'.fetches + 0 + 0 >= Polled + stride.rebuilds + stride.fetches + 1
  OBVIOUS
<1>4. Besides' \in Nat /\ Besides' + 0 >= Besides + 1
  BY <1>2, <1>3, BesidesMoves
<1> QED BY <1>4

LEMMA ThreadsDefers ==
  ASSUME AdaptersInv, carrier = "threads", ending = "queued", FrameOfCall, NEW next \in Stride,
         NEW out \in Seq(1 .. length),
         Defer(next, out), wall' = out, out = FirstPosts(Len(out)), ThreadsPlace', Besides' \in Nat,
         \/ Built' = Built /\ Besides' >= Besides + 1
         \/ Built' = Built + 1 /\ Besides' + Patience + 1 >= Besides
  PROVE  AdaptersInv'
<1>1. carrier' = "threads" /\ pauses' = pauses + 1 /\ carrier \in Staged
  BY DEF FrameOfCall, adapterShape, Defer, Staged
<1>2. pauses \in Nat
  BY <1>1, StagedPlace
<1>3. ThreadsPace /\ Built \in Nat /\ Besides \in Nat
  BY ThreadsNumbers
<1>4. PaceInv'
  BY <1>1, <1>2, <1>3, ThreadsWorth
<1> QED BY <1>1, <1>4, DeferKeeps

LEMMA CreateContainerKeeps == AdaptersInv /\ CreateContainer => AdaptersInv'
<1> SUFFICES ASSUME AdaptersInv, CreateContainer PROVE AdaptersInv'
  OBVIOUS
<1>1. /\ carrier = "threads" /\ ending = "queued" /\ carrier \in Staged /\ wall' = wall /\ FrameOfCall
      /\ stride.stage \in {"create_child", "create_primary", "create_parent", "create_reply"}
  BY DEF CreateContainer, OnThreads, Staged
<1>2. /\ wall = trail /\ trail \in Seq(1 .. length) /\ trail = FirstPosts(Len(trail)) /\ ~underway
      /\ Len(trail) \in Nat /\ stride \in Stride /\ pauses \in Nat /\ size \in Nat
  BY <1>1, StagedPlace
<1>3. /\ ThreadsPlace /\ ThreadsPace /\ Built \in Nat /\ Besides \in Nat
      /\ stride.items \in Nat /\ stride.polls \in Nat /\ stride.rebuilds \in Nat /\ stride.fetches \in Nat
  BY <1>1, ThreadsNumbers
<1>4. carrier' = carrier /\ size' = size /\ length' = length
  BY <1>1 DEF FrameOfCall, adapterShape
<1>5. ASSUME NEW next \in Stride, Defer(next, trail), ThreadsPlace',
             Besides' \in Nat, Built' = Built, Besides' >= Besides + 1
      PROVE  AdaptersInv'
  BY <1>1, <1>2, <1>5, ThreadsDefers
<1>6. ASSUME Defer([stride EXCEPT !.stage = WaitFor[stride.stage], !.polls = 0], trail) PROVE AdaptersInv'
  <2> DEFINE next == [stride EXCEPT !.stage = WaitFor[stride.stage], !.polls = 0]
  <2>1. WaitFor[stride.stage] \in {"wait_child", "wait_primary", "wait_reply"} /\ WaitFor[stride.stage] \in Stages
    BY <1>1 DEF WaitFor, Stages
  <2>2. /\ next \in Stride /\ next.stage = WaitFor[stride.stage] /\ next.polls = 0
        /\ next.items = stride.items /\ next.rebuilds = stride.rebuilds /\ next.fetches = stride.fetches
    BY <1>2, <2>1 DEF Stride
  <2>3. stride' = next /\ trail' = trail
    BY <1>6 DEF Defer
  <2> HIDE DEF next
  <2>4. ThreadsPlace'
    BY <1>1, <1>3, <1>4, <2>1, <2>2, <2>3, AdaptersAssumption DEF ThreadsPlace, WaitFor, ThreadsStages
  <2>5. Built' = Built
    BY <1>1, <1>4, <2>1, <2>2, <2>3 DEF Built, FirstAlbum, Album, WaitFor
  <2>6. Besides' \in Nat /\ Besides' >= Besides + 1
    <3>1. Polled = 0 /\ Polled' = 1
      BY <1>1, <2>1, <2>2, <2>3 DEF Polled, WaitStages
    <3> QED BY <1>1, <1>3, <2>2, <2>3, <3>1, BesidesGrow
  <2>7. Defer(next, trail)
    BY <1>6 DEF next
  <2> QED BY <1>5, <2>2, <2>4, <2>5, <2>6, <2>7
<1>7. ASSUME FetchAgain PROVE AdaptersInv'
  <2> DEFINE next == [stride EXCEPT !.fetches = @ + 1]
  <2>1. /\ next \in Stride /\ next.stage = stride.stage /\ next.polls = stride.polls
        /\ next.items = stride.items /\ next.rebuilds = stride.rebuilds /\ next.fetches = stride.fetches + 1
    BY <1>2 DEF Stride
  <2>2. stride' = next /\ trail' = trail
    BY <1>7 DEF Defer, FetchAgain
  <2>3. Defer(next, trail) /\ stride.fetches < FetchRetries
    BY <1>7 DEF FetchAgain
  <2> HIDE DEF next
  <2>4. ThreadsPlace'
    BY <1>3, <1>4, <2>1, <2>2, <2>3, AdaptersAssumption DEF ThreadsPlace
  <2>5. Built' = Built
    BY <1>4, <2>1, <2>2 DEF Built, FirstAlbum, Album
  <2>6. Besides' \in Nat /\ Besides' >= Besides + 1
    <3>1. Polled = 0 /\ Polled' = 0
      BY <1>1, <2>1, <2>2 DEF Polled, WaitStages
    <3> QED BY <1>1, <1>3, <2>1, <2>2, <3>1, BesidesGrow
  <2> QED BY <1>5, <2>1, <2>3, <2>4, <2>5, <2>6
<1>8. ASSUME stride.stage = "create_parent", stride.rebuilds = 0, Defer(Rebuilt(stride), trail)
      PROVE  AdaptersInv'
  <2> DEFINE next == Rebuilt(stride)
  <2>1. /\ next \in Stride /\ next.stage = "create_child" /\ next.polls = stride.polls
        /\ next.items = 0 /\ next.rebuilds = 1 /\ next.fetches = stride.fetches
    BY <1>2 DEF Stride, Rebuilt, Stages
  <2>2. stride' = next /\ trail' = trail
    BY <1>8 DEF Defer
  <2> HIDE DEF next
  <2>3. ThreadsPlace'
    BY <1>2, <1>3, <1>4, <1>8, <2>1, <2>2 DEF ThreadsPlace, ThreadsStages
  <2>4. Built' = Built
    <3>1. size > 1 /\ trail = <<>>
      BY <1>3, <1>8 DEF ThreadsPlace
    <3>2. Len(trail) = 0
      BY <3>1, EmptySeq
    <3> QED BY <1>2, <1>4, <1>8, <2>1, <2>2, <3>1, <3>2 DEF Built, FirstAlbum, Album
  <2>5. Besides' \in Nat /\ Besides' >= Besides + 1
    <3>1. Polled = 0 /\ Polled' = 0
      BY <1>1, <2>1, <2>2 DEF Polled, WaitStages
    <3> QED BY <1>1, <1>3, <1>8, <2>1, <2>2, <3>1, BesidesGrow
  <2>6. Defer(next, trail)
    BY <1>8 DEF next
  <2> QED BY <1>5, <2>1, <2>3, <2>4, <2>5, <2>6
<1>9. ASSUME NEW class, Fails(class) PROVE AdaptersInv'
  BY <1>1, <1>2, <1>9, FailedStandsStill DEF FrameOfCall, Fails
<1> QED BY <1>6, <1>7, <1>8, <1>9 DEF CreateContainer

LEMMA PollContainerKeeps == AdaptersInv /\ PollContainer => AdaptersInv'
<1> SUFFICES ASSUME AdaptersInv, PollContainer PROVE AdaptersInv'
  OBVIOUS
<1>1. /\ carrier = "threads" /\ ending = "queued" /\ carrier \in Staged /\ wall' = wall /\ FrameOfCall
      /\ stride.stage \in {"wait_child", "wait_primary", "wait_reply"}
  BY DEF PollContainer, OnThreads, Staged
<1>2. /\ wall = trail /\ trail \in Seq(1 .. length) /\ trail = FirstPosts(Len(trail)) /\ ~underway
      /\ Len(trail) \in Nat /\ stride \in Stride /\ size \in Nat
  BY <1>1, StagedPlace
<1>3. /\ ThreadsPlace /\ Built \in Nat /\ Besides \in Nat
      /\ stride.items \in Nat /\ stride.polls \in Nat /\ stride.rebuilds \in Nat /\ stride.fetches \in Nat
  BY <1>1, ThreadsNumbers
<1>4. carrier' = carrier /\ size' = size /\ length' = length
  BY <1>1 DEF FrameOfCall, adapterShape
<1>5. Polled = 1 + stride.polls /\ stride.polls <= Patience
  BY <1>1, <1>3 DEF Polled, WaitStages, ThreadsPlace
<1>6. ASSUME Defer(AfterWait, trail) PROVE AdaptersInv'
  <2> DEFINE next == AfterWait
             child == stride.stage = "wait_child"
  <2>1. /\ next \in Stride /\ next.polls = stride.polls /\ next.rebuilds = stride.rebuilds /\ next.fetches = stride.fetches
        /\ ~child => next.stage = "publish"
        /\ child => /\ next.items = stride.items + 1
                     /\ next.stage = IF stride.items + 1 < size THEN "create_child" ELSE "create_parent"
    <3>1. CASE ~child
      <4>1. next = [stride EXCEPT !.stage = "publish"]
        BY <3>1 DEF AfterWait
      <4> QED BY <1>2, <3>1, <4>1 DEF Stride, Stages
    <3>2. CASE child
      <4>1. PICK to \in {"create_child", "create_parent"} : to = IF stride.items + 1 < size THEN "create_child" ELSE "create_parent"
        OBVIOUS
      <4>2. PICK moved : moved = [stride EXCEPT !.stage = to, !.items = @ + 1]
        OBVIOUS
      <4>3. /\ moved \in Stride /\ moved.stage = to /\ moved.items = stride.items + 1 /\ moved.polls = stride.polls
            /\ moved.rebuilds = stride.rebuilds /\ moved.fetches = stride.fetches
        <5>1. to \in Stages /\ stride.items + 1 \in Nat
          BY <1>3, <4>1 DEF Stages
        <5> QED BY <1>2, <4>2, <5>1 DEF Stride
      <4>4. next = moved
        BY <3>2, <4>1, <4>2 DEF AfterWait
      <4> HIDE DEF next
      <4> QED BY <3>2, <4>1, <4>3, <4>4
    <3> QED BY <3>1, <3>2
  <2>2. stride' = next /\ trail' = trail /\ Defer(next, trail)
    BY <1>6 DEF Defer
  <2> HIDE DEF next
  <2>3. ThreadsPlace'
    <3>1. CASE ~child
      <4>1. stride.stage \in {"wait_primary", "wait_reply"} /\ length \in Nat \ {0}
        BY <1>1, <3>1, StagedPlace
      <4>2. Len(trail) < length
        BY <1>3, <4>1, EmptySeq DEF ThreadsPlace
      <4> QED BY <1>3, <1>4, <2>1, <2>2, <3>1, <4>2 DEF ThreadsPlace, ThreadsStages
    <3>2. CASE child
      <4>1. size > 1 /\ trail = <<>>
        BY <1>3, <3>2 DEF ThreadsPlace
      <4>2. stride'.items = stride.items + 1 /\ stride'.stage \in {"create_child", "create_parent"}
            /\ (stride'.stage = "create_child" => stride'.items < size)
        BY <2>1, <2>2, <3>2
      <4> QED BY <1>3, <1>4, <2>1, <2>2, <4>1, <4>2 DEF ThreadsPlace, ThreadsStages
    <3> QED BY <3>1, <3>2
  <2>4. Built' = Built + 1
    <3>1. FirstAlbum' = FirstAlbum /\ FirstAlbum \in Nat
      BY <1>2, <1>4, <2>1, <2>2 DEF FirstAlbum
    <3>2. Album' = Album /\ Album \in Nat
      BY <1>2, <1>4, <3>1 DEF Album
    <3>3. CASE child
      <4>1. size > 1 /\ stride.items < size /\ trail = <<>> /\ Len(trail) = 0
        BY <1>3, <3>3, EmptySeq DEF ThreadsPlace
      <4>2. Built = FirstAlbum + stride.items /\ Album = FirstAlbum + size
        BY <3>3, <4>1 DEF Built, Album
      <4>3. CASE stride.items + 1 < size
        BY <1>3, <2>1, <2>2, <3>1, <3>3, <4>2, <4>3 DEF Built
      <4>4. CASE stride.items + 1 = size
        <5>1. next.stage = "create_parent"
          BY <1>2, <1>3, <2>1, <3>3, <4>4
        <5>2. Built' = Album + 0 + 0
          BY <2>2, <3>2, <4>1, <5>1 DEF Built
        <5> QED BY <1>2, <1>3, <3>1, <4>2, <4>4, <5>2
      <4> QED BY <1>2, <1>3, <4>1, <4>3, <4>4
    <3>4. CASE ~child
      <4>1. PICK n \in Nat : n = Len(trail)
        BY <1>2
      <4>2. Built = Album + n + 0 /\ Built' = Album + n + 1
        BY <1>1, <2>1, <2>2, <3>2, <3>4, <4>1 DEF Built
      <4> QED BY <3>2, <4>2
    <3> QED BY <3>3, <3>4
  <2>5. Besides' \in Nat /\ Besides' + Patience + 1 >= Besides
    <3>1. Polled' = 0
      BY <1>1, <2>1, <2>2 DEF Polled, WaitStages
    <3>2. Len(trail') = Len(trail) + 0 /\ Patience + 1 \in Nat
      BY <1>2, <2>2, AdaptersAssumption
    <3>3. Polled' + stride'.rebuilds + stride'.fetches + 0 + (Patience + 1) >= Polled + stride.rebuilds + stride.fetches + 0
      BY <1>3, <1>5, <2>1, <2>2, <3>1, AdaptersAssumption
    <3>4. Besides' \in Nat /\ Besides' + (Patience + 1) >= Besides + 0
      BY <1>1, <1>3, <2>1, <2>2, <3>1, <3>2, <3>3, BesidesMoves
    <3> QED BY <1>3, <3>4, AdaptersAssumption
  <2> QED BY <1>1, <1>2, <2>1, <2>2, <2>3, <2>4, <2>5, ThreadsDefers
<1>7. ASSUME stride.polls < Patience, Defer([stride EXCEPT !.polls = @ + 1], trail) PROVE AdaptersInv'
  <2> DEFINE next == [stride EXCEPT !.polls = @ + 1]
  <2>1. /\ next \in Stride /\ next.stage = stride.stage /\ next.polls = stride.polls + 1
        /\ next.items = stride.items /\ next.rebuilds = stride.rebuilds /\ next.fetches = stride.fetches
    BY <1>2 DEF Stride
  <2>2. stride' = next /\ trail' = trail /\ Defer(next, trail)
    BY <1>7 DEF Defer
  <2> HIDE DEF next
  <2>3. ThreadsPlace'
    <3>1. Patience \in Nat
      BY AdaptersAssumption
    <3>2. stride'.polls = stride.polls + 1 /\ stride.polls \in Nat /\ stride.polls < Patience
      BY <1>3, <1>7, <2>1, <2>2
    <3>3. stride'.polls <= Patience
      BY <3>1, <3>2
    <3> QED BY <1>3, <1>4, <2>1, <2>2, <3>3 DEF ThreadsPlace
  <2>4. Built' = Built
    BY <1>4, <2>1, <2>2 DEF Built, FirstAlbum, Album
  <2>5. Besides' \in Nat /\ Besides' >= Besides + 1
    <3>1. Polled' = 1 + (stride.polls + 1)
      BY <1>1, <2>1, <2>2 DEF Polled, WaitStages
    <3> QED BY <1>1, <1>3, <1>5, <2>1, <2>2, <3>1, BesidesGrow
  <2> QED BY <1>1, <1>2, <2>1, <2>2, <2>3, <2>4, <2>5, ThreadsDefers
<1>8. ASSUME NEW class, Fails(class) PROVE AdaptersInv'
  BY <1>1, <1>2, <1>8, FailedStandsStill DEF FrameOfCall, Fails
<1> QED BY <1>6, <1>7, <1>8 DEF PollContainer

LEMMA PublishContainerKeeps == AdaptersInv /\ PublishContainer => AdaptersInv'
<1> SUFFICES ASSUME AdaptersInv, PublishContainer PROVE AdaptersInv'
  OBVIOUS
<1>1. /\ carrier = "threads" /\ ending = "queued" /\ carrier \in Staged /\ FrameOfCall
      /\ stride.stage = "publish"
  BY DEF PublishContainer, OnThreads, Staged
<1>2. /\ wall = trail /\ trail \in Seq(1 .. length) /\ trail = FirstPosts(Len(trail)) /\ ~underway
      /\ Len(trail) \in Nat /\ stride \in Stride /\ size \in Nat /\ length \in Nat \ {0}
  BY <1>1, StagedPlace
<1>3. /\ ThreadsPlace /\ Built \in Nat /\ Besides \in Nat
      /\ stride.items \in Nat /\ stride.polls \in Nat /\ stride.rebuilds \in Nat /\ stride.fetches \in Nat
  BY <1>1, ThreadsNumbers
<1>4. carrier' = carrier /\ size' = size /\ length' = length
  BY <1>1 DEF FrameOfCall, adapterShape
<1> DEFINE part == Len(trail) + 1
           out == Append(trail, part)
<1>5. Len(trail) < length
  BY <1>1, <1>3 DEF ThreadsPlace
<1>6. part <= length /\ part \in Nat
  BY <1>2, <1>5
<1>7. out \in Seq(1 .. length) /\ Len(out) = part /\ out = FirstPosts(Len(out))
  BY <1>2, <1>6, NextInOrder
<1> HIDE DEF out
<1>8. ASSUME wall' = out,
             Defer([stride EXCEPT !.stage = IF MoreAfter(part) THEN "create_reply" ELSE "verify"], out)
      PROVE  AdaptersInv'
  <2> DEFINE next == [stride EXCEPT !.stage = IF MoreAfter(part) THEN "create_reply" ELSE "verify"]
  <2>1. /\ next \in Stride /\ next.polls = stride.polls /\ next.items = stride.items
        /\ next.rebuilds = stride.rebuilds /\ next.fetches = stride.fetches
        /\ next.stage = IF MoreAfter(part) THEN "create_reply" ELSE "verify"
    BY <1>2 DEF Stride, Stages
  <2>2. stride' = next /\ trail' = out /\ Defer(next, out)
    BY <1>8 DEF Defer
  <2> HIDE DEF next
  <2>3. \/ stride'.stage = "create_reply" /\ part < length
        \/ stride'.stage = "verify" /\ part = length
    <3>1. stride'.stage = IF part < length THEN "create_reply" ELSE "verify"
      BY <2>1, <2>2 DEF MoreAfter
    <3> HIDE DEF part
    <3> QED BY <1>2, <1>6, <3>1
  <2>4. ThreadsPlace'
    <3> HIDE DEF part
    <3> QED BY <1>3, <1>4, <1>7, <2>1, <2>2, <2>3 DEF ThreadsPlace, ThreadsStages
  <2>5. Built' = Built
    <3>1. FirstAlbum' = FirstAlbum /\ FirstAlbum \in Nat
      BY <1>2, <1>4, <2>1, <2>2 DEF FirstAlbum
    <3>2. Album' = Album /\ Album \in Nat
      BY <1>2, <1>4, <3>1 DEF Album
    <3>3. PICK n \in Nat : n = Len(trail) /\ Len(trail') = n + 1
      BY <1>2, <1>7, <2>2
    <3>4. Built = Album + n + 1 /\ Built' = Album + (n + 1) + 0
      BY <1>1, <2>3, <3>2, <3>3 DEF Built
    <3> QED BY <3>2, <3>3, <3>4
  <2>6. Besides' \in Nat /\ Besides' >= Besides + 1
    <3>1. Polled = 0 /\ Polled' = 0
      BY <1>1, <2>3 DEF Polled, WaitStages
    <3>2. Len(trail') = Len(trail) + 1
      BY <1>7, <2>2
    <3>3. Polled' + stride'.rebuilds + stride'.fetches + 1 + 0 >= Polled + stride.rebuilds + stride.fetches + 1
      BY <1>3, <2>1, <2>2, <3>1
    <3>4. Besides' \in Nat /\ Besides' + 0 >= Besides + 1
      BY <1>1, <1>3, <2>1, <2>2, <3>1, <3>2, <3>3, BesidesMoves
    <3> QED BY <3>4
  <2> QED BY <1>1, <1>7, <1>8, <2>1, <2>2, <2>4, <2>5, <2>6, ThreadsDefers
<1>9. ASSUME LostAt(part) PROVE AdaptersInv'
  BY <1>1, <1>2, <1>4, <1>6, <1>9, LostStandsStill
<1>10. ASSUME NEW class, wall' = wall, Fails(class) PROVE AdaptersInv'
  BY <1>1, <1>2, <1>10, FailedStandsStill DEF FrameOfCall, Fails
<1>11. \/ wall' = out /\ Defer([stride EXCEPT !.stage = IF MoreAfter(part) THEN "create_reply" ELSE "verify"], out)
       \/ LostAt(part)
       \/ wall' = wall /\ \E class \in ErrorKinds : Fails(class)
  BY <1>2 DEF PublishContainer, out
<1> QED BY <1>8, <1>9, <1>10, <1>11

LEMMA VerifyThreadsKeeps == AdaptersInv /\ VerifyThreads => AdaptersInv'
<1> SUFFICES ASSUME AdaptersInv, VerifyThreads PROVE AdaptersInv'
  OBVIOUS
<1>1. carrier = "threads" /\ ending = "queued" /\ carrier \in Staged /\ wall' = wall /\ FrameOfCall /\ stride.stage = "verify"
  BY DEF VerifyThreads, OnThreads, Staged
<1>2. ~underway /\ wall = trail /\ Len(trail) = length
  BY <1>1, StagedPlace, ThreadsNumbers DEF ThreadsPlace
<1>3. ASSUME EndsAs("published") PROVE AdaptersInv'
  BY <1>1, <1>2, <1>3, PublishedWhole
<1>4. ASSUME NEW class, Fails(class) PROVE AdaptersInv'
  BY <1>1, <1>2, <1>4, FailedStandsStill DEF FrameOfCall, Fails
<1> QED BY <1>3, <1>4 DEF VerifyThreads

-----------------------------------------------------------------------------
(* Instagram Stories *)

LEMMA InstagramDefers ==
  ASSUME AdaptersInv, carrier = "instagram", ending = "queued", FrameOfCall, NEW next \in Stride,
         NEW out \in Seq(1 .. length),
         Defer(next, out), wall' = out, out = FirstPosts(Len(out)), InstagramPlace',
         ThisStory \in Nat, ThisStory' \in Nat,
         \/ next.rebuilds = stride.rebuilds /\ ThisStory' >= ThisStory + 1
         \/ next.rebuilds = stride.rebuilds + 1 /\ ThisStory < PerStory
  PROVE  AdaptersInv'
<1>1. carrier' = "instagram" /\ pauses' = pauses + 1 /\ carrier \in Staged /\ stride' = next
  BY DEF FrameOfCall, adapterShape, Defer, Staged
<1>2. pauses \in Nat /\ stride.rebuilds \in Nat /\ PerStory \in Nat
  <2>1. pauses \in Nat /\ stride \in Stride
    BY <1>1, StagedPlace
  <2>2. PerStory \in Nat
    BY AdaptersAssumption DEF PerStory
  <2> QED BY <2>1, <2>2 DEF Stride
<1>3. InstagramPace
  BY DEF AdaptersInv, PaceInv
<1>4. stride.rebuilds * PerStory \in Nat /\ (stride.rebuilds + 1) * PerStory = stride.rebuilds * PerStory + PerStory
  BY <1>2, OneMore
<1>5. InstagramPace'
  <2>1. PICK b, p, w, v, e : b = stride.rebuilds * PerStory /\ p = pauses /\ w = ThisStory /\ v = ThisStory' /\ e = PerStory
    OBVIOUS
  <2>2. p <= b + w /\ b \in Nat /\ p \in Nat /\ w \in Nat /\ v \in Nat /\ e \in Nat
    BY <1>2, <1>3, <1>4, <2>1 DEF InstagramPace
  <2>3. CASE next.rebuilds = stride.rebuilds /\ v >= w + 1
    <3>1. p + 1 <= b + v
      BY <2>2, <2>3
    <3> QED BY <1>1, <2>1, <2>3, <3>1 DEF InstagramPace, PerStory
  <2>4. CASE next.rebuilds = stride.rebuilds + 1 /\ w < e
    <3>1. p + 1 <= b + e + v
      BY <2>2, <2>4
    <3>2. stride'.rebuilds * PerStory = b + e
      BY <1>1, <1>4, <2>1, <2>4
    <3> QED BY <1>1, <2>1, <3>1, <3>2 DEF InstagramPace, PerStory
  <2> QED BY <2>1, <2>3, <2>4
<1>6. PaceInv'
  BY <1>1, <1>5 DEF PaceInv
<1> QED BY <1>1, <1>6, DeferKeeps

LEMMA InstagramNumbers ==
  ASSUME AdaptersInv, carrier = "instagram", ending = "queued"
  PROVE  /\ InstagramPlace /\ carrier \in Staged /\ ~underway /\ length = 1 /\ wall = trail
         /\ trail \in Seq(1 .. length) /\ trail = FirstPosts(Len(trail)) /\ stride \in Stride
         /\ stride.polls \in Nat /\ stride.sends \in Nat /\ stride.rebuilds \in Nat
         /\ ReadyPolls \in Nat \ {0} /\ PublishAttempts \in Nat \ {0} /\ ContainerAttempts \in Nat \ {0}
<1>1. carrier \in Staged /\ InstagramPlace /\ length = 1
  BY DEF AdaptersInv, RowInv, PaceInv, Staged, Chained
<1>2. /\ ~underway /\ wall = trail /\ trail \in Seq(1 .. length) /\ trail = FirstPosts(Len(trail)) /\ stride \in Stride
  BY <1>1, StagedPlace
<1> QED BY <1>1, <1>2, AdaptersAssumption DEF Stride

\* The steps of a story that keep its container.
LEMMA SameStory ==
  ASSUME AdaptersInv, carrier = "instagram", ending = "queued", FrameOfCall, NEW next \in Stride,
         NEW out \in Seq(1 .. length),
         Defer(next, out), wall' = out, out = FirstPosts(Len(out)), InstagramPlace',
         next.rebuilds = stride.rebuilds, NEW n \in Nat, NEW m \in Nat, ThisStory = n, ThisStory' = m, m >= n + 1
  PROVE  AdaptersInv'
BY InstagramDefers

LEMMA BuildAgainKeeps ==
  ASSUME AdaptersInv, carrier = "instagram", ending = "queued", wall' = wall, FrameOfCall, BuildAgain,
         stride.stage \in {"processing", "ready"}
  PROVE  AdaptersInv'
<1>1. /\ InstagramPlace /\ carrier \in Staged /\ ~underway /\ length = 1 /\ wall = trail
      /\ trail \in Seq(1 .. length) /\ trail = FirstPosts(Len(trail)) /\ stride \in Stride
      /\ stride.polls \in Nat /\ stride.sends \in Nat /\ stride.rebuilds \in Nat
      /\ ReadyPolls \in Nat \ {0} /\ PublishAttempts \in Nat \ {0} /\ ContainerAttempts \in Nat \ {0}
  BY InstagramNumbers
<1>2. ASSUME NEW class, Fails(class) PROVE AdaptersInv'
  BY <1>1, <1>2, FailedStandsStill DEF FrameOfCall, Fails
<1> DEFINE next == [stride EXCEPT !.stage = "create", !.polls = 0, !.sends = 0, !.rebuilds = @ + 1]
<1>3. ASSUME stride.rebuilds + 1 < ContainerAttempts, Defer(next, trail) PROVE AdaptersInv'
  <2>1. /\ next \in Stride /\ next.stage = "create" /\ next.polls = 0 /\ next.sends = 0 /\ next.rebuilds = stride.rebuilds + 1
    <3>1. stride.rebuilds + 1 \in Nat /\ 0 \in Nat /\ "create" \in Stages
      BY <1>1 DEF Stages
    <3>2. PICK moved : moved = [stride EXCEPT !.stage = "create", !.polls = 0, !.sends = 0, !.rebuilds = stride.rebuilds + 1]
      OBVIOUS
    <3>3. /\ moved \in Stride /\ moved.stage = "create" /\ moved.polls = 0 /\ moved.sends = 0
          /\ moved.rebuilds = stride.rebuilds + 1
      BY <1>1, <3>1, <3>2 DEF Stride
    <3> QED BY <3>2, <3>3
  <2>2. stride' = next /\ trail' = trail
    BY <1>3 DEF Defer
  <2> HIDE DEF next
  <2>3. InstagramPlace'
    BY <1>1, <1>3, <2>1, <2>2 DEF InstagramPlace, InstagramStages
  <2>4. ThisStory' = 0 /\ ThisStory \in Nat /\ ThisStory < PerStory
    <3>1. ThisStory' = 0
      BY <2>1, <2>2 DEF ThisStory
    <3>2. ThisStory = 1 + stride.polls \/ ThisStory = ReadyPolls + 1 + stride.sends
      BY DEF ThisStory, Polled, WaitStages
    <3>3. stride.polls < ReadyPolls /\ stride.sends < PublishAttempts
      BY <1>1 DEF InstagramPlace
    <3> QED BY <1>1, <3>1, <3>2, <3>3 DEF PerStory
  <2> QED BY <1>1, <1>3, <2>1, <2>3, <2>4, InstagramDefers
<1> QED BY <1>2, <1>3 DEF BuildAgain

LEMMA CreateStoryKeeps == AdaptersInv /\ CreateStory => AdaptersInv'
<1> SUFFICES ASSUME AdaptersInv, CreateStory PROVE AdaptersInv'
  OBVIOUS
<1>1. carrier = "instagram" /\ ending = "queued" /\ stride.stage = "create" /\ wall' = wall /\ FrameOfCall
  BY DEF CreateStory, OnInstagram
<1>2. /\ InstagramPlace /\ carrier \in Staged /\ ~underway /\ wall = trail
      /\ trail \in Seq(1 .. length) /\ trail = FirstPosts(Len(trail)) /\ stride \in Stride
      /\ ReadyPolls \in Nat \ {0} /\ PublishAttempts \in Nat \ {0}
  BY <1>1, InstagramNumbers
<1> DEFINE next == [stride EXCEPT !.stage = "processing", !.polls = 0, !.sends = 0]
<1>3. ASSUME Defer(next, trail) PROVE AdaptersInv'
  <2>1. next \in Stride /\ next.stage = "processing" /\ next.polls = 0 /\ next.sends = 0 /\ next.rebuilds = stride.rebuilds
    BY <1>2 DEF Stride, Stages
  <2>2. stride' = next /\ trail' = trail
    BY <1>3 DEF Defer
  <2> HIDE DEF next
  <2>3. InstagramPlace'
    BY <1>1, <1>2, <2>1, <2>2 DEF InstagramPlace, InstagramStages
  <2>4. ThisStory = 0 /\ ThisStory' = 1
    BY <1>1, <2>1, <2>2 DEF ThisStory, Polled, WaitStages
  <2> QED BY <1>1, <1>2, <1>3, <2>1, <2>3, <2>4, SameStory
<1>4. ASSUME NEW class, Fails(class) PROVE AdaptersInv'
  BY <1>1, <1>2, <1>4, FailedStandsStill DEF FrameOfCall, Fails
<1> QED BY <1>3, <1>4 DEF CreateStory

LEMMA PollStoryKeeps == AdaptersInv /\ PollStory => AdaptersInv'
<1> SUFFICES ASSUME AdaptersInv, PollStory PROVE AdaptersInv'
  OBVIOUS
<1>1. carrier = "instagram" /\ ending = "queued" /\ stride.stage = "processing" /\ wall' = wall /\ FrameOfCall
  BY DEF PollStory, OnInstagram
<1>2. /\ InstagramPlace /\ carrier \in Staged /\ ~underway /\ wall = trail
      /\ trail \in Seq(1 .. length) /\ trail = FirstPosts(Len(trail)) /\ stride \in Stride
      /\ stride.polls \in Nat /\ stride.sends \in Nat /\ ReadyPolls \in Nat \ {0}
  BY <1>1, InstagramNumbers
<1>3. ThisStory = 1 + stride.polls /\ stride.polls < ReadyPolls
  BY <1>1, <1>2 DEF ThisStory, Polled, WaitStages, InstagramPlace
<1> DEFINE prepared == [stride EXCEPT !.stage = "ready"]
           polled == [stride EXCEPT !.polls = @ + 1]
<1>4. ASSUME Defer(prepared, trail) PROVE AdaptersInv'
  <2>1. /\ prepared \in Stride /\ prepared.stage = "ready" /\ prepared.polls = stride.polls /\ prepared.sends = stride.sends
        /\ prepared.rebuilds = stride.rebuilds
    BY <1>2 DEF Stride, Stages
  <2>2. stride' = prepared /\ trail' = trail
    BY <1>4 DEF Defer
  <2> HIDE DEF prepared
  <2>3. InstagramPlace'
    BY <1>1, <1>2, <2>1, <2>2 DEF InstagramPlace, InstagramStages
  <2>4. ThisStory' = ReadyPolls + 1 + stride.sends
    BY <2>1, <2>2 DEF ThisStory
  <2>5. 1 + stride.polls \in Nat /\ ReadyPolls + 1 + stride.sends \in Nat /\ ReadyPolls + 1 + stride.sends >= 1 + stride.polls + 1
    BY <1>2, <1>3
  <2> QED BY <1>1, <1>2, <1>3, <1>4, <2>1, <2>3, <2>4, <2>5, SameStory
<1>5. ASSUME stride.polls + 1 < ReadyPolls, Defer(polled, trail) PROVE AdaptersInv'
  <2>1. /\ polled \in Stride /\ polled.stage = stride.stage /\ polled.polls = stride.polls + 1 /\ polled.sends = stride.sends
        /\ polled.rebuilds = stride.rebuilds
    BY <1>2 DEF Stride
  <2>2. stride' = polled /\ trail' = trail
    BY <1>5 DEF Defer
  <2> HIDE DEF polled
  <2>3. InstagramPlace'
    BY <1>1, <1>2, <1>5, <2>1, <2>2 DEF InstagramPlace, InstagramStages
  <2>4. ThisStory' = 1 + (stride.polls + 1)
    BY <1>1, <2>1, <2>2 DEF ThisStory, Polled, WaitStages
  <2>5. 1 + stride.polls \in Nat /\ 1 + (stride.polls + 1) \in Nat /\ 1 + (stride.polls + 1) >= 1 + stride.polls + 1
    BY <1>2
  <2> QED BY <1>1, <1>2, <1>3, <1>5, <2>1, <2>3, <2>4, <2>5, SameStory
<1>6. ASSUME NEW class, Fails(class) PROVE AdaptersInv'
  BY <1>1, <1>2, <1>6, FailedStandsStill DEF FrameOfCall, Fails
<1>7. CASE BuildAgain
  BY <1>1, <1>7, BuildAgainKeeps
<1> QED BY <1>4, <1>5, <1>6, <1>7 DEF PollStory

LEMMA PublishStoryKeeps == AdaptersInv /\ PublishStory => AdaptersInv'
<1> SUFFICES ASSUME AdaptersInv, PublishStory PROVE AdaptersInv'
  OBVIOUS
<1>1. carrier = "instagram" /\ ending = "queued" /\ stride.stage = "ready" /\ FrameOfCall
  BY DEF PublishStory, OnInstagram
<1>2. /\ InstagramPlace /\ carrier \in Staged /\ ~underway /\ wall = trail /\ length = 1
      /\ trail \in Seq(1 .. length) /\ trail = FirstPosts(Len(trail)) /\ stride \in Stride
      /\ stride.sends \in Nat /\ ReadyPolls \in Nat \ {0} /\ PublishAttempts \in Nat \ {0}
  BY <1>1, InstagramNumbers
<1>3. trail = <<>> /\ ThisStory = ReadyPolls + 1 + stride.sends /\ stride.sends < PublishAttempts
  BY <1>1, <1>2 DEF ThisStory, InstagramPlace
<1>4. Append(wall, 1) = << 1 >> /\ << 1 >> \in Seq(1 .. length) /\ << 1 >> = FirstPosts(Len(<< 1 >>)) /\ Len(wall) + 1 = 1
  BY <1>2, <1>3, NoPostsYet, EmptySeq
<1> DEFINE next == [stride EXCEPT !.stage = "publish_sent"]
           again == [stride EXCEPT !.sends = @ + 1]
<1>5. ASSUME wall' = << 1 >>, Defer(next, << 1 >>) PROVE AdaptersInv'
  <2>1. /\ next \in Stride /\ next.stage = "publish_sent" /\ next.polls = stride.polls /\ next.sends = stride.sends
        /\ next.rebuilds = stride.rebuilds
    BY <1>2 DEF Stride, Stages
  <2>2. stride' = next /\ trail' = << 1 >>
    BY <1>5 DEF Defer
  <2> HIDE DEF next
  <2>3. InstagramPlace'
    BY <1>1, <1>2, <2>1, <2>2 DEF InstagramPlace, InstagramStages
  <2>4. ThisStory' = PerStory
    BY <2>1, <2>2 DEF ThisStory, PerStory
  <2>5. ReadyPolls + 1 + stride.sends \in Nat /\ PerStory \in Nat /\ PerStory >= ReadyPolls + 1 + stride.sends + 1
    BY <1>2, <1>3 DEF PerStory
  <2> QED BY <1>1, <1>3, <1>4, <1>5, <2>1, <2>3, <2>4, <2>5, SameStory
<1>6. ASSUME LostAt(1) PROVE AdaptersInv'
  BY <1>1, <1>2, <1>4, <1>6, LostStandsStill
<1>7. ASSUME wall' = wall, stride.sends + 1 < PublishAttempts, Defer(again, trail) PROVE AdaptersInv'
  <2>1. /\ again \in Stride /\ again.stage = stride.stage /\ again.polls = stride.polls /\ again.sends = stride.sends + 1
        /\ again.rebuilds = stride.rebuilds
    BY <1>2 DEF Stride
  <2>2. stride' = again /\ trail' = trail
    BY <1>7 DEF Defer
  <2> HIDE DEF again
  <2>3. InstagramPlace'
    BY <1>1, <1>2, <1>7, <2>1, <2>2 DEF InstagramPlace, InstagramStages
  <2>4. ThisStory' = ReadyPolls + 1 + (stride.sends + 1)
    BY <1>1, <2>1, <2>2 DEF ThisStory
  <2>5. /\ ReadyPolls + 1 + stride.sends \in Nat /\ ReadyPolls + 1 + (stride.sends + 1) \in Nat
        /\ ReadyPolls + 1 + (stride.sends + 1) >= ReadyPolls + 1 + stride.sends + 1
    BY <1>2
  <2> QED BY <1>1, <1>2, <1>3, <1>7, <2>1, <2>3, <2>4, <2>5, SameStory
<1>8. ASSUME wall' = wall, BuildAgain PROVE AdaptersInv'
  BY <1>1, <1>8, BuildAgainKeeps
<1>9. ASSUME wall' = wall, NEW class, Fails(class) PROVE AdaptersInv'
  BY <1>1, <1>2, <1>9, FailedStandsStill DEF FrameOfCall, Fails
<1>10. \/ wall' = << 1 >> /\ Defer(next, << 1 >>)
       \/ LostAt(1)
       \/ wall' = wall /\ \/ stride.sends + 1 < PublishAttempts /\ Defer(again, trail)
                          \/ BuildAgain
                          \/ \E class \in ErrorKinds : Fails(class)
  BY <1>4 DEF PublishStory
<1> QED BY <1>5, <1>6, <1>7, <1>8, <1>9, <1>10

LEMMA VerifyStoryKeeps == AdaptersInv /\ VerifyStory => AdaptersInv'
<1> SUFFICES ASSUME AdaptersInv, VerifyStory PROVE AdaptersInv'
  OBVIOUS
<1>1. carrier = "instagram" /\ ending = "queued" /\ stride.stage = "publish_sent" /\ wall' = wall /\ FrameOfCall
  BY DEF VerifyStory, OnInstagram
<1>2. carrier \in Staged /\ ~underway /\ wall = << 1 >> /\ length = 1
  BY <1>1, InstagramNumbers DEF InstagramPlace
<1>3. ASSUME EndsAs("published") PROVE AdaptersInv'
  <2>1. Len(wall) = length
    BY <1>2
  <2> QED BY <1>1, <1>2, <1>3, <2>1, PublishedWhole
<1>4. ASSUME NEW class, Fails(class) PROVE AdaptersInv'
  BY <1>1, <1>2, <1>4, FailedStandsStill DEF FrameOfCall, Fails
<1> QED BY <1>3, <1>4 DEF VerifyStory

-----------------------------------------------------------------------------
(* Calls under way *)

LEMMA UnderWay ==
  ASSUME AdaptersInv, underway
  PROVE  /\ carrier \in Carriers /\ carrier \notin Staged /\ ending \in {"calling", "in_doubt"} /\ length \in Nat \ {0}
         /\ wall \in Seq(1 .. length) /\ trail \in Seq(1 .. length) /\ pocket.out \in Seq(1 .. length)
         /\ pocket \in [out: Seq(1 .. length), again: BOOLEAN, held: BOOLEAN]
         /\ tries \in 0 .. Budget + PartialBudget /\ (ending = "calling" => tries < Budget + PartialBudget)
         /\ carrier # "discord" => wall = FirstPosts(Len(wall))
         /\ carrier \in {"discord", "zernio", "telegram", "telegram_story"} => trail = <<>>
         /\ carrier \in Chained => Len(pocket.out) < length
         /\ carrier \notin {"discord", "zernio"} => wall = IF carrier = "x" THEN pocket.out ELSE <<>>
         /\ carrier \notin Chained => length = 1
         /\ Waited /\ carrier = "x" /\ pocket.out = <<>> => trail = <<>>
BY DEF AdaptersInv, RowInv, WallInv, AdaptersTypeOK, ChainInOrder, FirstPosts, Staged, Waited

\* Calls that are over leave a row that says as much as the queue let them write.
LEMMA CallsOver ==
  ASSUME AdaptersInv, underway, Stops, UNCHANGED <<adapterShape, essays, stride, pauses>>,
         wall' \in Seq(1 .. length), trail' \in Seq(1 .. length), tries' \in 0 .. Budget + PartialBudget,
         carrier # "discord" => wall' = FirstPosts(Len(wall')),
         carrier \in {"discord", "zernio", "telegram", "telegram_story"} => trail' = <<>>,
         ending' \in {"queued", "failed", "published", "in_doubt"},
         ending' = "queued" => tries' < Budget + PartialBudget,
         ending' \in {"queued", "failed"} =>
           carrier \in {"discord", "zernio"} \/ wall' = IF carrier = "x_article" THEN <<>> ELSE trail',
         ending' = "published" => length \in {wall'[i] : i \in 1 .. Len(wall')},
         ending' = "queued" /\ carrier = "x" => Len(trail') < length,
         ending' = "queued" /\ carrier = "x_article" /\ trail' = <<>> => ~pocket.held
  PROVE  AdaptersInv'
<1>1. carrier \notin Staged /\ underway' = FALSE /\ pocket' = NoPocket
  BY UnderWay DEF Stops
<1>2. pocket' \in [out: Seq(1 .. length), again: BOOLEAN, held: BOOLEAN]
  <2>1. <<>> \in Seq(1 .. length) /\ FALSE \in BOOLEAN
    OBVIOUS
  <2> QED BY <1>1, <2>1 DEF NoPocket
<1>3. RowInv'
  BY <1>1, <1>2 DEF AdaptersInv, RowInv, AdaptersTypeOK, adapterShape, Endings
<1>4. WallInv'
  BY <1>1 DEF WallInv, ChainInOrder, PlaceIsKept, PublishedToTheEnd, adapterShape, FirstPosts
<1>5. EssayInv'
  BY <1>1 DEF AdaptersInv, EssayInv, OneEssay, adapterShape
<1>6. PaceInv'
  BY <1>1 DEF PaceInv, adapterShape, Staged
<1> QED BY <1>3, <1>4, <1>5, <1>6 DEF AdaptersInv

LEMMA CallsReturn ==
  ASSUME AdaptersInv, underway, Returns("published"), UNCHANGED <<adapterShape, essays>>,
         wall' \in Seq(1 .. length), carrier # "discord" => wall' = FirstPosts(Len(wall')),
         length \in {wall'[i] : i \in 1 .. Len(wall')}
  PROVE  AdaptersInv'
<1>1. Stops /\ UNCHANGED <<stride, trail, tries, pauses>> /\ ending' \in {"published", "in_doubt"}
  BY UnderWay DEF Returns, EndsAs, adapterRow, Waited
<1> QED BY <1>1, UnderWay, CallsOver

LEMMA CallsLost ==
  ASSUME AdaptersInv, underway, Stops, IF Waited THEN EndsAs("in_doubt") ELSE UNCHANGED adapterRow,
         UNCHANGED <<adapterShape, essays>>,
         wall' \in Seq(1 .. length), carrier # "discord" => wall' = FirstPosts(Len(wall'))
  PROVE  AdaptersInv'
<1>1. UNCHANGED <<stride, trail, tries, pauses>> /\ ending' = "in_doubt"
  BY UnderWay DEF EndsAs, adapterRow, Waited
<1> QED BY <1>1, UnderWay, CallsOver

LEMMA CallsThrow ==
  ASSUME AdaptersInv, underway, NEW class, Throws(class), UNCHANGED <<adapterShape, essays, wall>>,
         carrier = "x" => pocket.out = <<>>, carrier = "x_article" => ~pocket.held
  PROVE  AdaptersInv'
<1>1. CASE ~Waited
  <2>1. Stops /\ UNCHANGED <<stride, trail, tries, pauses>> /\ ending' = "in_doubt"
    BY <1>1, UnderWay DEF Throws, adapterRow, Waited
  <2> QED BY <2>1, UnderWay, CallsOver
<1>2. CASE Waited
  <2>1. tries \in 0 .. Budget + PartialBudget /\ tries < Budget + PartialBudget /\ Fails(class) /\ Stops
    BY <1>2, UnderWay DEF Throws, Waited
  <2>2. /\ tries' \in 0 .. Budget + PartialBudget /\ ending' \in {"queued", "failed"}
        /\ ending' = "queued" => tries' < Budget + PartialBudget
        /\ UNCHANGED <<stride, trail, pauses>>
    BY <2>1, FailsShape
  <2>3. Len(<<>>) = 0
    OBVIOUS
  <2>4. /\ carrier \in {"discord", "zernio"} \/ wall = IF carrier = "x_article" THEN <<>> ELSE trail
        /\ carrier = "x" => Len(trail) < length
    BY <1>2, <2>3, UnderWay DEF Carriers, Staged, Chained
  <2> QED BY <2>1, <2>2, <2>4, UnderWay, CallsOver
<1> QED BY <1>1, <1>2

LEMMA CallsHandBack ==
  ASSUME AdaptersInv, underway, NEW ids \in Seq(1 .. length), HandsBack(ids),
         UNCHANGED <<adapterShape, essays, wall>>,
         \/ carrier = "x" /\ ids = pocket.out
         \/ carrier = "x_article" /\ ids = << 1 >>
  PROVE  AdaptersInv'
<1>1. CASE ~Waited
  <2>1. Stops /\ UNCHANGED <<stride, trail, tries, pauses>> /\ ending' = "in_doubt"
    BY <1>1, UnderWay DEF HandsBack, adapterRow, Waited
  <2> QED BY <2>1, UnderWay, CallsOver
<1>2. CASE Waited
  <2>1. tries \in 0 .. Budget + PartialBudget /\ tries < Budget + PartialBudget /\ Budget \in Nat \ {0} /\ PartialBudget \in Nat \ {0}
    BY <1>2, UnderWay, AdaptersAssumption DEF Waited
  <2>2. /\ Stops /\ trail' = ids /\ tries' = tries + 1 /\ UNCHANGED <<stride, pauses>>
        /\ ending' \in {"queued", "failed"} /\ (ending' = "queued" => tries + 1 < PartialBudget)
    BY <1>2 DEF HandsBack
  <2>3. tries' \in 0 .. Budget + PartialBudget /\ (ending' = "queued" => tries' < Budget + PartialBudget)
    BY <2>1, <2>2
  <2>4. /\ wall = IF carrier = "x_article" THEN <<>> ELSE ids
        /\ carrier = "x" => Len(ids) < length
        /\ carrier = "x_article" => ids # <<>>
    <3>1. << 1 >> # <<>> /\ "x" # "x_article" /\ "x" \in Chained
      BY DEF Chained
    <3>2. CASE carrier = "x" /\ ids = pocket.out
      BY <3>1, <3>2, UnderWay
    <3>3. CASE carrier = "x_article" /\ ids = << 1 >>
      BY <3>1, <3>3, UnderWay
    <3> QED BY <3>2, <3>3
  <2> QED BY <2>2, <2>3, <2>4, UnderWay, CallsOver
<1> QED BY <1>1, <1>2

LEMMA StartCallsKeeps == AdaptersInv /\ StartCalls => AdaptersInv'
<1> SUFFICES ASSUME AdaptersInv, StartCalls PROVE AdaptersInv'
  OBVIOUS
<1>1. /\ carrier \notin Staged /\ ending = "queued" /\ ending' = "calling" /\ underway' = TRUE
      /\ UNCHANGED <<adapterShape, stride, trail, tries, wall, essays, pauses>>
  BY DEF StartCalls
<1>2. trail \in Seq(1 .. length) /\ length \in Nat \ {0}
  BY DEF AdaptersInv, RowInv, AdaptersTypeOK
<1>3. /\ pocket'.out = (IF carrier = "x" THEN trail ELSE <<>>)
      /\ pocket'.held = (carrier = "x_article" /\ trail # <<>>)
      /\ pocket' \in [out: Seq(1 .. length), again: BOOLEAN, held: BOOLEAN]
  <2>1. PICK known : known = IF carrier = "x" THEN trail ELSE <<>>
    OBVIOUS
  <2>2. PICK drafted \in BOOLEAN : drafted = (carrier = "x_article" /\ trail # <<>>)
    OBVIOUS
  <2>3. pocket' = [out |-> known, again |-> FALSE, held |-> drafted]
    BY <2>1, <2>2 DEF StartCalls, NoPocket
  <2>4. known \in Seq(1 .. length)
    <3>1. <<>> \in Seq(1 .. length)
      OBVIOUS
    <3> QED BY <1>2, <2>1, <3>1
  <2>5. pocket'.out = known /\ pocket'.held = drafted
    BY <2>3
  <2>6. FALSE \in BOOLEAN
    OBVIOUS
  <2>7. pocket' \in [out: Seq(1 .. length), again: BOOLEAN, held: BOOLEAN]
    BY <2>3, <2>4, <2>6
  <2> QED BY <2>1, <2>2, <2>5, <2>7
<1>4. RowInv'
  BY <1>1, <1>3 DEF AdaptersInv, RowInv, AdaptersTypeOK, adapterShape, Endings
<1>5. Len(<<>>) = 0 /\ 0 < length
  BY <1>2
<1>6. carrier \in {"discord", "zernio"} \/ wall = IF carrier = "x_article" THEN <<>> ELSE trail
  BY <1>1 DEF AdaptersInv, WallInv, PlaceIsKept
<1>7. WallInv'
  <2>1. ChainInOrder' /\ PlaceIsKept' /\ PublishedToTheEnd'
    BY <1>1 DEF AdaptersInv, WallInv, ChainInOrder, PlaceIsKept, PublishedToTheEnd, adapterShape
  <2>2. carrier \in Chained => Len(pocket'.out) < length
    <3>1. carrier = "x" => Len(trail) < length
      BY <1>1 DEF AdaptersInv, WallInv
    <3> QED BY <1>3, <1>5, <3>1 DEF Chained
  <2>3. carrier \notin {"discord", "zernio"} => wall = IF carrier = "x" THEN pocket'.out ELSE <<>>
    <3>1. carrier \in {"telegram", "telegram_story"} => trail = <<>>
      BY DEF AdaptersInv, WallInv
    <3>2. carrier \in {"x", "discord", "x_article", "zernio", "telegram", "telegram_story"}
      BY <1>1 DEF AdaptersInv, RowInv, AdaptersTypeOK, Carriers, Chained
    <3> QED BY <1>3, <1>6, <3>1, <3>2
  <2>4. carrier = "x" /\ pocket'.out = <<>> => trail = <<>>
    BY <1>3
  <2>5. carrier \in {"discord", "zernio", "telegram", "telegram_story"} => trail = <<>>
    BY DEF AdaptersInv, WallInv
  <2> QED BY <1>1, <2>1, <2>2, <2>3, <2>4, <2>5 DEF WallInv, adapterShape
<1>8. EssayInv'
  BY <1>1, <1>3 DEF AdaptersInv, EssayInv, OneEssay, adapterShape
<1>9. PaceInv'
  BY <1>1 DEF PaceInv, adapterShape, Staged
<1> QED BY <1>4, <1>7, <1>8, <1>9 DEF AdaptersInv

LEMMA PostPartKeeps == AdaptersInv /\ PostPart => AdaptersInv'
<1> SUFFICES ASSUME AdaptersInv, PostPart PROVE AdaptersInv'
  OBVIOUS
<1> DEFINE part == Len(pocket.out) + 1
           out == Append(pocket.out, part)
<1>1. underway /\ carrier \in Chained /\ UNCHANGED <<adapterShape, essays>>
  BY DEF PostPart
<1>2. /\ length \in Nat \ {0} /\ wall \in Seq(1 .. length) /\ pocket.out \in Seq(1 .. length) /\ part \in 1 .. length
      /\ carrier # "discord" => wall = pocket.out /\ wall = FirstPosts(Len(wall))
      /\ pocket \in [out: Seq(1 .. length), again: BOOLEAN, held: BOOLEAN] /\ carrier # "zernio" /\ carrier # "x_article"
  <2>1. Len(pocket.out) \in Nat
    BY <1>1, UnderWay, LenProperties
  <2> QED BY <1>1, <2>1, UnderWay DEF Chained
<1>3. /\ Append(wall, part) \in Seq(1 .. length) /\ out \in Seq(1 .. length) /\ Len(out) = part
      /\ part \in {Append(wall, part)[i] : i \in 1 .. Len(Append(wall, part))}
  <2>1. /\ Append(wall, part) \in Seq(1 .. length) /\ Len(Append(wall, part)) = Len(wall) + 1
        /\ Append(wall, part)[Len(wall) + 1] = part /\ out \in Seq(1 .. length) /\ Len(out) = part
    BY <1>2, AppendProperties
  <2>2. Len(wall) + 1 \in 1 .. Len(wall) + 1
    BY <1>2, LenProperties
  <2> QED BY <2>1, <2>2
<1>4. carrier # "discord" => Append(wall, part) = FirstPosts(part) /\ Append(wall, part) = out
  <2> SUFFICES ASSUME carrier # "discord"
               PROVE  Append(wall, part) = FirstPosts(part) /\ Append(wall, part) = out
    OBVIOUS
  <2>1. wall = pocket.out /\ wall = FirstPosts(Len(wall)) /\ part = Len(wall) + 1 /\ part <= length
    BY <1>2
  <2> QED BY <1>2, <2>1, NextInOrder
<1>5. ASSUME wall' = Append(wall, part), MoreAfter(part), pocket' = [pocket EXCEPT !.out = out],
             UNCHANGED <<adapterRow, underway>>
      PROVE  AdaptersInv'
  <2>1. part < length
    BY <1>5 DEF MoreAfter
  <2>2. pocket'.out = out /\ pocket' \in [out: Seq(1 .. length), again: BOOLEAN, held: BOOLEAN]
    BY <1>2, <1>3, <1>5
  <2>3. RowInv'
    BY <1>1, <1>3, <1>5, <2>2 DEF AdaptersInv, RowInv, AdaptersTypeOK, adapterShape, adapterRow
  <2>4. ending \in {"calling", "in_doubt"} /\ carrier \notin Staged /\ out # <<>>
    <3>1. ending \in {"calling", "in_doubt"} /\ carrier \notin Staged
      BY <1>1, UnderWay
    <3>2. Len(<<>>) = 0
      OBVIOUS
    <3>3. Len(out) = part /\ part \in 1 .. length
      BY <1>2, <1>3
    <3> HIDE DEF out, part
    <3>4. out # <<>>
      BY <1>2, <3>2, <3>3
    <3> QED BY <3>1, <3>4
  <2> HIDE DEF out, part
  <2>5. WallInv'
    <3>1. ChainInOrder'
      BY <1>1, <1>3, <1>4, <1>5 DEF ChainInOrder, FirstPosts, adapterShape
    <3>2. PlaceIsKept' /\ PublishedToTheEnd'
      BY <1>5, <2>4 DEF PlaceIsKept, PublishedToTheEnd, adapterRow
    <3>3. carrier' \notin {"discord", "zernio"} => wall' = IF carrier' = "x" THEN pocket'.out ELSE <<>>
      BY <1>1, <1>4, <1>5, <2>2 DEF adapterShape, Chained
    <3>4. Len(pocket'.out) < length /\ pocket'.out # <<>>
      BY <1>3, <2>1, <2>2, <2>4
    <3>5. /\ carrier \in {"discord", "zernio", "telegram", "telegram_story"} => trail = <<>>
          /\ ending = "queued" /\ carrier = "x" => Len(trail) < length
      BY DEF AdaptersInv, WallInv
    <3> QED BY <1>1, <1>5, <3>1, <3>2, <3>3, <3>4, <3>5 DEF WallInv, adapterRow, adapterShape
  <2>6. EssayInv'
    BY <1>1, <1>2 DEF AdaptersInv, EssayInv, OneEssay, adapterShape
  <2>7. PaceInv'
    BY <1>1, <2>4 DEF PaceInv, adapterShape, Staged
  <2> QED BY <2>3, <2>5, <2>6, <2>7 DEF AdaptersInv
<1>6. ASSUME wall' = Append(wall, part), ~MoreAfter(part), Returns("published") PROVE AdaptersInv'
  <2>1. part = length
    BY <1>2, <1>6 DEF MoreAfter
  <2>2. carrier # "discord" => wall' = FirstPosts(Len(wall'))
    BY <1>3, <1>4, <1>6
  <2>3. length \in {wall'[i] : i \in 1 .. Len(wall')} /\ wall' \in Seq(1 .. length)
    BY <1>3, <1>6, <2>1
  <2> QED BY <1>1, <1>6, <2>2, <2>3, CallsReturn
<1>7. ASSUME Loses(part) PROVE AdaptersInv'
  <2>1. wall' \in Seq(1 .. length) /\ (carrier # "discord" => wall' = FirstPosts(Len(wall')))
    BY <1>2, <1>3, <1>4, <1>7 DEF Loses
  <2> QED BY <1>1, <1>7, <2>1, CallsLost DEF Loses
<1>8. ASSUME UNCHANGED wall, BreaksOff PROVE AdaptersInv'
  <2>1. CASE carrier = "x" /\ pocket.out # <<>>
    BY <1>1, <1>2, <1>8, <2>1, CallsHandBack DEF BreaksOff
  <2>2. CASE ~(carrier = "x" /\ pocket.out # <<>>)
    BY <1>1, <1>2, <1>8, <2>2, CallsThrow DEF BreaksOff
  <2> QED BY <2>1, <2>2
<1> QED BY <1>5, <1>6, <1>7, <1>8 DEF PostPart

LEMMA DraftArticleKeeps == AdaptersInv /\ DraftArticle => AdaptersInv'
<1> SUFFICES ASSUME AdaptersInv, DraftArticle PROVE AdaptersInv'
  OBVIOUS
<1>1. underway /\ carrier = "x_article" /\ ~pocket.held /\ UNCHANGED <<adapterShape, wall>>
  BY DEF DraftArticle
<1>2. ASSUME pocket' = [pocket EXCEPT !.held = TRUE], essays' = essays + 1, UNCHANGED <<adapterRow, underway>>
      PROVE  AdaptersInv'
  <2>1. essays = 0
    BY <1>1 DEF AdaptersInv, EssayInv
  <2>2. /\ pocket'.held /\ pocket'.out = pocket.out
        /\ pocket' \in [out: Seq(1 .. length), again: BOOLEAN, held: BOOLEAN]
    <3>1. PICK ps : ps = pocket
      OBVIOUS
    <3>2. PICK next : next = [ps EXCEPT !.held = TRUE]
      OBVIOUS
    <3>3. ps \in [out: Seq(1 .. length), again: BOOLEAN, held: BOOLEAN]
      BY <1>1, <3>1, UnderWay
    <3>4. next.held = TRUE /\ next.out = ps.out /\ next \in [out: Seq(1 .. length), again: BOOLEAN, held: BOOLEAN]
      BY <3>2, <3>3
    <3>5. pocket' = next
      BY <1>2, <3>1, <3>2
    <3> QED BY <3>1, <3>4, <3>5
  <2>3. RowInv'
    BY <1>1, <1>2, <2>1, <2>2 DEF AdaptersInv, RowInv, AdaptersTypeOK, adapterShape, adapterRow
  <2>4. WallInv'
    BY <1>1, <1>2, <2>2 DEF AdaptersInv, WallInv, ChainInOrder, PlaceIsKept, PublishedToTheEnd,
       adapterShape, adapterRow
  <2>5. EssayInv'
    <3>1. ending' # "queued"
      BY <1>1, <1>2, UnderWay DEF adapterRow
    <3> QED BY <1>1, <1>2, <2>1, <2>2, <3>1 DEF EssayInv, OneEssay, adapterShape
  <2>6. PaceInv'
    BY <1>1 DEF PaceInv, adapterShape
  <2> QED BY <2>3, <2>4, <2>5, <2>6 DEF AdaptersInv
<1>3. ASSUME UNCHANGED essays, NEW class, Throws(class) PROVE AdaptersInv'
  BY <1>1, <1>3, CallsThrow
<1> QED BY <1>2, <1>3 DEF DraftArticle

\* One post makes the whole of what is not a chain.
LEMMA OnePost ==
  ASSUME AdaptersInv, underway, carrier \notin Chained, carrier # "zernio"
  PROVE  /\ wall = <<>> /\ Append(wall, 1) = << 1 >> /\ length = 1 /\ carrier # "discord" /\ carrier # "x"
         /\ carrier \in {"telegram", "telegram_story"} => trail = <<>>
BY UnderWay, NoPostsYet DEF Chained

LEMMA OnePostShape ==
  ASSUME length = 1
  PROVE  /\ << 1 >> \in Seq(1 .. length) /\ << 1 >> = FirstPosts(Len(<< 1 >>)) /\ length \in {<< 1 >>[i] : i \in 1 .. Len(<< 1 >>)}
         /\ <<>> \in Seq(1 .. length) /\ <<>> = FirstPosts(Len(<<>>))
<1>1. Len(<< 1 >>) = 1 /\ << 1 >>[1] = 1 /\ 1 \in 1 .. 1 /\ Len(<<>>) = 0
  OBVIOUS
<1>2. << 1 >> \in Seq(1 .. 1) /\ <<>> \in Seq(1 .. 1)
  OBVIOUS
<1>3. length \in {<< 1 >>[i] : i \in 1 .. Len(<< 1 >>)}
  BY <1>1
<1> QED BY <1>1, <1>2, <1>3, NoPostsYet

LEMMA OneCallKeeps ==
  ASSUME AdaptersInv, underway, carrier \in {"telegram", "telegram_story"}, OneCall,
         UNCHANGED <<adapterShape, essays>>
  PROVE  AdaptersInv'
<1>1. wall = <<>> /\ Append(wall, 1) = << 1 >> /\ length = 1 /\ carrier # "x" /\ carrier # "x_article"
  BY OnePost DEF Chained
<1>2. ASSUME wall' = Append(wall, 1), Returns("published") PROVE AdaptersInv'
  BY <1>1, <1>2, OnePostShape, CallsReturn
<1>3. ASSUME Loses(1) PROVE AdaptersInv'
  <2>1. wall' = <<>> \/ wall' = << 1 >>
    BY <1>1, <1>3 DEF Loses
  <2>2. wall' \in Seq(1 .. length) /\ wall' = FirstPosts(Len(wall'))
    BY <1>1, <2>1, OnePostShape
  <2> QED BY <1>3, <2>2, CallsLost DEF Loses
<1>4. ASSUME UNCHANGED wall, NEW class, Throws(class) PROVE AdaptersInv'
  BY <1>1, <1>4, CallsThrow
<1> QED BY <1>2, <1>3, <1>4 DEF OneCall

LEMMA SendTelegramKeeps == AdaptersInv /\ SendTelegram => AdaptersInv'
<1> SUFFICES ASSUME AdaptersInv, SendTelegram PROVE AdaptersInv'
  OBVIOUS
<1>1. underway /\ carrier = "telegram" /\ UNCHANGED <<adapterShape, essays>>
  BY DEF SendTelegram
<1>2. CASE OneCall
  BY <1>1, <1>2, OneCallKeeps
<1>3. ASSUME UNCHANGED wall, Returns("failed") PROVE AdaptersInv'
  <2>1. Stops /\ UNCHANGED <<stride, trail, tries, pauses>> /\ ending' \in {"failed", "in_doubt"}
    BY <1>1, <1>3, UnderWay DEF Returns, EndsAs, adapterRow, Waited
  <2>2. wall = <<>> /\ trail = <<>> /\ carrier # "x_article" /\ carrier # "x"
    BY <1>1, OnePost DEF Chained
  <2> QED BY <1>1, <1>3, <2>1, <2>2, UnderWay, CallsOver
<1> QED BY <1>2, <1>3 DEF SendTelegram

LEMMA SendChannelStoryKeeps == AdaptersInv /\ SendChannelStory => AdaptersInv'
BY OneCallKeeps DEF SendChannelStory

LEMMA PublishArticleKeeps == AdaptersInv /\ PublishArticle => AdaptersInv'
<1> SUFFICES ASSUME AdaptersInv, PublishArticle PROVE AdaptersInv'
  OBVIOUS
<1>1. underway /\ carrier = "x_article" /\ UNCHANGED <<adapterShape, essays>>
  BY DEF PublishArticle
<1>2. wall = <<>> /\ Append(wall, 1) = << 1 >> /\ length = 1
  BY <1>1, OnePost DEF Chained
<1>3. ASSUME wall' = Append(wall, 1), Returns("published") PROVE AdaptersInv'
  BY <1>1, <1>2, <1>3, OnePostShape, CallsReturn
<1>4. ASSUME Loses(1) PROVE AdaptersInv'
  <2>1. wall' = <<>> \/ wall' = << 1 >>
    BY <1>2, <1>4 DEF Loses
  <2>2. wall' \in Seq(1 .. length) /\ wall' = FirstPosts(Len(wall'))
    BY <1>2, <2>1, OnePostShape
  <2> QED BY <1>1, <1>4, <2>2, CallsLost DEF Loses
<1>5. ASSUME UNCHANGED wall, HandsBack(<< 1 >>) PROVE AdaptersInv'
  <2>1. << 1 >> \in Seq(1 .. length)
    BY <1>2, OnePostShape
  <2> QED BY <1>1, <1>5, <2>1, CallsHandBack
<1> QED BY <1>3, <1>4, <1>5 DEF PublishArticle

LEMMA AskZernioKeeps == AdaptersInv /\ AskZernio => AdaptersInv'
<1> SUFFICES ASSUME AdaptersInv, AskZernio PROVE AdaptersInv'
  OBVIOUS
<1>1. underway /\ carrier = "zernio" /\ UNCHANGED <<adapterShape, essays>>
  BY DEF AskZernio
<1>2. length = 1 /\ wall \in Seq(1 .. length) /\ wall = FirstPosts(Len(wall)) /\ trail = <<>>
  BY <1>1, UnderWay DEF Chained
<1>3. wall' \in {wall, << 1 >>} => wall' \in Seq(1 .. length) /\ wall' = FirstPosts(Len(wall'))
  BY <1>2, OnePostShape
<1>4. ASSUME Reconciled PROVE AdaptersInv'
  BY <1>1, <1>2, <1>4, OnePostShape, CallsReturn DEF Reconciled
<1>5. ASSUME wall' \in {wall, << 1 >>}, pocket' = [pocket EXCEPT !.again = TRUE],
             UNCHANGED <<adapterRow, underway>>
      PROVE  AdaptersInv'
  <2>1. pocket' \in [out: Seq(1 .. length), again: BOOLEAN, held: BOOLEAN]
    BY <1>1, <1>5, UnderWay
  <2>2. RowInv'
    BY <1>1, <1>3, <1>5, <2>1 DEF AdaptersInv, RowInv, AdaptersTypeOK, adapterShape, adapterRow
  <2>3. ending \in {"calling", "in_doubt"}
    BY <1>1, UnderWay
  <2>4. WallInv'
    BY <1>1, <1>2, <1>3, <1>5, <2>3 DEF WallInv, ChainInOrder, PlaceIsKept, PublishedToTheEnd, adapterShape,
       adapterRow, FirstPosts, Chained
  <2>5. EssayInv'
    BY <1>1 DEF AdaptersInv, EssayInv, OneEssay, adapterShape
  <2>6. PaceInv'
    BY <1>1 DEF PaceInv, adapterShape
  <2> QED BY <2>2, <2>4, <2>5, <2>6 DEF AdaptersInv
<1>6. ASSUME wall' \in {wall, << 1 >>}, Stops, IF Waited THEN EndsAs("in_doubt") ELSE UNCHANGED adapterRow
      PROVE  AdaptersInv'
  BY <1>1, <1>3, <1>6, CallsLost
<1>7. ASSUME UNCHANGED wall, NEW class, Throws(class) PROVE AdaptersInv'
  BY <1>1, <1>7, CallsThrow
<1> QED BY <1>4, <1>5, <1>6, <1>7 DEF AskZernio

LEMMA StopWaitingKeeps == AdaptersInv /\ StopWaiting => AdaptersInv'
<1> SUFFICES ASSUME AdaptersInv, StopWaiting PROVE AdaptersInv'
  OBVIOUS
<1>1. underway /\ UNCHANGED <<adapterShape, underway, pocket, wall, essays, stride, trail, tries, pauses>> /\ ending' = "in_doubt"
  BY DEF StopWaiting, EndsAs
<1>2. RowInv'
  BY <1>1 DEF AdaptersInv, RowInv, AdaptersTypeOK, adapterShape, Endings
<1>3. WallInv'
  BY <1>1 DEF AdaptersInv, WallInv, ChainInOrder, PlaceIsKept, PublishedToTheEnd, adapterShape
<1>4. EssayInv'
  BY <1>1 DEF AdaptersInv, EssayInv, OneEssay, adapterShape
<1>5. PaceInv'
  BY <1>1, UnderWay DEF PaceInv, adapterShape, Staged
<1> QED BY <1>2, <1>3, <1>4, <1>5 DEF AdaptersInv

LEMMA KillCallsKeeps == AdaptersInv /\ KillCalls => AdaptersInv'
<1> SUFFICES ASSUME AdaptersInv, KillCalls PROVE AdaptersInv'
  OBVIOUS
<1>1. UNCHANGED <<adapterShape, wall, essays>>
  BY DEF KillCalls
<1>2. ASSUME underway, Stops, IF Waited THEN EndsAs("in_doubt") ELSE UNCHANGED adapterRow PROVE AdaptersInv'
  <2>1. wall' \in Seq(1 .. length) /\ (carrier # "discord" => wall' = FirstPosts(Len(wall')))
    BY <1>1, <1>2, UnderWay
  <2> QED BY <1>1, <1>2, <2>1, CallsLost
<1>3. ASSUME carrier \in Staged, ending = "queued", EndsAs("in_doubt"), UNCHANGED <<underway, pocket>>
      PROVE  AdaptersInv'
  <2>1. ~underway
    BY <1>3, StagedPlace
  <2> QED BY <1>1, <1>3, <2>1, EndedStandsStill
<1> QED BY <1>2, <1>3 DEF KillCalls

-----------------------------------------------------------------------------
(* The place survives *)

LEMMA AdaptersStart == AdaptersInit => AdaptersInv
<1> SUFFICES ASSUME AdaptersInit PROVE AdaptersInv
  OBVIOUS
<1>1. /\ ReadyPolls \in Nat \ {0} /\ PublishAttempts \in Nat \ {0} /\ ContainerAttempts \in Nat \ {0}
      /\ Budget \in Nat \ {0} /\ PartialBudget \in Nat \ {0} /\ Patience \in Nat /\ FetchRetries \in Nat
      /\ AlbumSizes \subseteq Nat /\ ChainLengths \subseteq Nat \ {0}
  BY AdaptersAssumption
<1>2. /\ carrier \in Carriers /\ trail = <<>> /\ ending = "queued" /\ tries = 0 /\ underway = FALSE
      /\ pocket = NoPocket /\ wall = <<>> /\ essays = 0 /\ pauses = 0
  BY DEF AdaptersInit
<1>3. /\ size \in AlbumSizes \cup {1} /\ size \in Nat /\ length \in ChainLengths \cup {1} /\ length \in Nat \ {0}
      /\ carrier \notin Chained \cup {"threads"} => length = 1
  BY <1>1 DEF AdaptersInit
<1>4. PICK first \in Stages : /\ first = IF carrier = "instagram" THEN "create" ELSE IF size > 1 THEN "create_child" ELSE "create_primary"
                              /\ stride = [stage |-> first, items |-> 0, polls |-> 0, rebuilds |-> 0, fetches |-> 0, sends |-> 0]
  BY DEF AdaptersInit, FirstStride, Stages
<1>5. /\ stride \in Stride /\ stride.stage = first /\ stride.items = 0 /\ stride.polls = 0 /\ stride.rebuilds = 0
      /\ stride.fetches = 0 /\ stride.sends = 0
  <2>1. 0 \in Nat
    OBVIOUS
  <2> QED BY <1>4, <2>1 DEF Stride
<1>6. Len(<<>>) = 0 /\ <<>> \in Seq(1 .. length) /\ <<>> = FirstPosts(Len(<<>>)) /\ FALSE \in BOOLEAN
  BY NoPostsYet
<1>7. RowInv
  <2>1. pocket \in [out: Seq(1 .. length), again: BOOLEAN, held: BOOLEAN]
    BY <1>2, <1>6 DEF NoPocket
  <2>2. tries \in 0 .. Budget + PartialBudget /\ essays \in Nat /\ pauses \in Nat
    BY <1>1, <1>2
  <2>3. trail \in Seq(1 .. length) /\ wall \in Seq(1 .. length) /\ underway \in BOOLEAN /\ ending \in Endings
    BY <1>2, <1>6 DEF Endings
  <2>4. AdaptersTypeOK
    BY <1>2, <1>3, <1>5, <2>1, <2>2, <2>3 DEF AdaptersTypeOK
  <2> QED BY <1>1, <1>2, <1>3, <2>4 DEF RowInv, Staged
<1>8. WallInv
  BY <1>2, <1>3, <1>6 DEF WallInv, ChainInOrder, PlaceIsKept, PublishedToTheEnd, FirstPosts, Chained
<1>9. EssayInv
  BY <1>2 DEF EssayInv, OneEssay
<1>10. ASSUME carrier = "threads" PROVE ThreadsPlace /\ ThreadsPace
  <2>1. ThreadsPlace
    BY <1>1, <1>2, <1>3, <1>4, <1>5, <1>6, <1>10 DEF ThreadsPlace, ThreadsStages
  <2>2. Polled = 0 /\ FirstAlbum = 0 /\ Album \in Nat /\ Besides = 0
    BY <1>2, <1>3, <1>4, <1>5, <1>6, <1>10 DEF Polled, FirstAlbum, Album, Besides, WaitStages
  <2>3. Built \in Nat
    BY <1>2, <1>4, <1>5, <1>6, <1>10, <2>2 DEF Built
  <2>4. Built * (Patience + 2) \in Nat
    BY <1>1, <2>3, OneMore
  <2> QED BY <1>2, <2>1, <2>2, <2>4 DEF ThreadsPace
<1>11. ASSUME carrier = "instagram" PROVE InstagramPlace /\ InstagramPace
  <2>1. InstagramPlace
    BY <1>1, <1>2, <1>4, <1>5, <1>11 DEF InstagramPlace, InstagramStages
  <2>2. ThisStory = 0
    BY <1>4, <1>5, <1>11 DEF ThisStory
  <2>3. 0 * PerStory = 0
    BY <1>1 DEF PerStory
  <2> QED BY <1>2, <1>5, <2>1, <2>2, <2>3 DEF InstagramPace
<1> QED BY <1>7, <1>8, <1>9, <1>10, <1>11 DEF AdaptersInv, PaceInv

LEMMA AdaptersStep == AdaptersInv /\ [AdaptersNext]_adapterVars => AdaptersInv'
<1> SUFFICES ASSUME AdaptersInv, [AdaptersNext]_adapterVars PROVE AdaptersInv'
  OBVIOUS
<1>1. CASE Decline
  BY <1>1, DeclineKeeps
<1>2. CASE CreateContainer
  BY <1>2, CreateContainerKeeps
<1>3. CASE PollContainer
  BY <1>3, PollContainerKeeps
<1>4. CASE PublishContainer
  BY <1>4, PublishContainerKeeps
<1>5. CASE VerifyThreads
  BY <1>5, VerifyThreadsKeeps
<1>6. CASE CreateStory
  BY <1>6, CreateStoryKeeps
<1>7. CASE PollStory
  BY <1>7, PollStoryKeeps
<1>8. CASE PublishStory
  BY <1>8, PublishStoryKeeps
<1>9. CASE VerifyStory
  BY <1>9, VerifyStoryKeeps
<1>10. CASE StartCalls
  BY <1>10, StartCallsKeeps
<1>11. CASE PostPart
  BY <1>11, PostPartKeeps
<1>12. CASE DraftArticle
  BY <1>12, DraftArticleKeeps
<1>13. CASE PublishArticle
  BY <1>13, PublishArticleKeeps
<1>14. CASE AskZernio
  BY <1>14, AskZernioKeeps
<1>15. CASE SendTelegram
  BY <1>15, SendTelegramKeeps
<1>16. CASE SendChannelStory
  BY <1>16, SendChannelStoryKeeps
<1>17. CASE StopWaiting
  BY <1>17, StopWaitingKeeps
<1>18. CASE KillCalls
  BY <1>18, KillCallsKeeps
<1>19. CASE UNCHANGED adapterVars
  <2>1. UNCHANGED <<carrier, size, length, stride, trail, ending, tries, underway, pocket, wall, essays, pauses>>
    BY <1>19 DEF adapterVars
  <2>2. RowInv'
    BY <2>1 DEF AdaptersInv, RowInv, AdaptersTypeOK
  <2>3. WallInv'
    BY <2>1 DEF AdaptersInv, WallInv, ChainInOrder, PlaceIsKept, PublishedToTheEnd
  <2>4. EssayInv'
    BY <2>1 DEF AdaptersInv, EssayInv, OneEssay
  <2>5. PaceInv'
    BY <2>1 DEF AdaptersInv, PaceInv, ThreadsPlace, ThreadsPace, Built, FirstAlbum, Album, Besides, Polled,
       InstagramPlace, InstagramPace, ThisStory
  <2> QED BY <2>2, <2>3, <2>4, <2>5 DEF AdaptersInv
<1> QED BY <1>1, <1>2, <1>3, <1>4, <1>5, <1>6, <1>7, <1>8, <1>9, <1>10, <1>11, <1>12, <1>13, <1>14, <1>15,
           <1>16, 
           <1>17, <1>18, <1>19 DEF AdaptersNext

LEMMA MoreTimes == \A m \in Nat, n \in Nat, k \in Nat : m <= n => m * k \in Nat /\ n * k \in Nat /\ m * k <= n * k
OBVIOUS

LEMMA ThreadsPausesEnd == AdaptersInv /\ carrier = "threads" => PausesEnd
<1> SUFFICES ASSUME AdaptersInv, carrier = "threads" PROVE PausesEnd
  OBVIOUS
<1>1. ThreadsPlace /\ ThreadsPace /\ Patience \in Nat /\ FetchRetries \in Nat
  BY AdaptersAssumption DEF AdaptersInv, PaceInv
<1>2. /\ trail \in Seq(1 .. length) /\ Len(trail) \in Nat /\ length \in Nat /\ size \in Nat /\ pauses \in Nat
      /\ stride.items \in Nat /\ stride.polls \in Nat /\ stride.rebuilds \in Nat /\ stride.fetches \in Nat
  <2>1. trail \in Seq(1 .. length) /\ length \in Nat /\ size \in Nat /\ pauses \in Nat /\ stride \in Stride
    BY AdaptersAssumption DEF AdaptersInv, RowInv, AdaptersTypeOK
  <2> QED BY <2>1, LenProperties DEF Stride
<1>3. PICK n \in Nat : n = Len(trail)
  BY <1>2
<1>4. n <= length /\ (stride.stage = "publish" => n < length)
  <2>1. Len(<<>>) = 0
    OBVIOUS
  <2> QED BY <1>1, <1>2, <1>3, <2>1 DEF ThreadsPlace, ThreadsStages
<1> DEFINE whole == (IF size > 1 THEN 2 * size + 1 ELSE 0) + length
<1>5. whole \in Nat
  BY <1>2
<1>6. Built \in Nat /\ Built <= whole /\ (Polled > 0 => Built + 1 <= whole)
  <2>1. FirstAlbum \in Nat /\ FirstAlbum <= size
    BY <1>2 DEF FirstAlbum
  <2>2. Built = IF stride.stage \in {"create_child", "wait_child"} THEN FirstAlbum + stride.items
                ELSE Album + n + (IF stride.stage = "publish" THEN 1 ELSE 0)
    BY <1>3 DEF Built
  <2>3. CASE stride.stage \in {"create_child", "wait_child"}
    <3>1. size > 1 /\ stride.items < size
      BY <1>1, <2>3 DEF ThreadsPlace
    <3>2. Built = FirstAlbum + stride.items
      BY <2>2, <2>3
    <3> QED BY <1>2, <2>1, <3>1, <3>2
  <2>4. CASE stride.stage \notin {"create_child", "wait_child"}
    <3>1. Album \in Nat /\ Album <= (IF size > 1 THEN 2 * size + 1 ELSE 0)
      BY <1>2, <2>1 DEF Album
    <3>2. stride.stage = "wait_primary" => n < length
      <4>1. Len(<<>>) = 0 /\ length > 0
        BY DEF AdaptersInv, RowInv
      <4> QED BY <1>1, <1>3, <4>1 DEF ThreadsPlace
    <3>3. stride.stage = "wait_reply" => n < length
      BY <1>1, <1>3 DEF ThreadsPlace
    <3>4. stride.stage # "processing"
      BY <1>1 DEF ThreadsPlace, ThreadsStages
    <3>5. Polled > 0 => n < length /\ stride.stage # "publish"
      BY <2>4, <3>2, <3>3, <3>4 DEF Polled, WaitStages
    <3>6. PICK a \in Nat : a = Album
      BY <3>1
    <3>7. Built = a + n + (IF stride.stage = "publish" THEN 1 ELSE 0)
      BY <2>2, <2>4, <3>6
    <3>8. a <= (IF size > 1 THEN 2 * size + 1 ELSE 0)
      BY <3>1, <3>6
    <3>9. CASE stride.stage = "publish"
      <4>1. Built = a + n + 1 /\ n < length /\ ~(Polled > 0)
        BY <1>4, <3>5, <3>7, <3>9
      <4> QED BY <1>2, <3>8, <4>1
    <3>10. CASE stride.stage # "publish"
      <4>1. Built = a + n
        BY <3>7, <3>10
      <4> QED BY <1>2, <1>4, <3>5, <3>8, <4>1
    <3> QED BY <3>9, <3>10
  <2> QED BY <2>3, <2>4
<1> DEFINE each == Patience + 2
<1>7. each \in Nat
  BY <1>1
<1>8. Besides <= Polled + length + 1 + FetchRetries /\ Polled \in Nat /\ Polled <= Patience + 1 /\ Besides \in Nat
  <2>1. Polled \in Nat /\ Polled <= Patience + 1
    BY <1>1, <1>2 DEF Polled, ThreadsPlace
  <2>2. PICK h \in Nat : h = Polled
    BY <2>1
  <2>3. Besides = h + n + stride.rebuilds + stride.fetches
    BY <1>3, <2>2 DEF Besides
  <2>4. stride.rebuilds <= 1 /\ stride.fetches <= FetchRetries
    BY <1>1 DEF ThreadsPlace
  <2> QED BY <1>1, <1>2, <1>4, <2>1, <2>2, <2>3, <2>4
<1>9. pauses <= Built * each + Besides
  BY <1>1 DEF ThreadsPace
<1> HIDE DEF whole
<1>10. pauses <= whole * each + length + 1 + FetchRetries
  <2>1. CASE Polled = 0
    <3>1. Built * each <= whole * each /\ Built * each \in Nat /\ whole * each \in Nat
      BY <1>5, <1>6, <1>7, MoreTimes
    <3>2. PICK b, w : b = Built * each /\ w = whole * each
      OBVIOUS
    <3> HIDE DEF each
    <3> QED BY <1>1, <1>2, <1>8, <1>9, <2>1, <3>1, <3>2
  <2>2. CASE Polled > 0
    <3>1. Built + 1 <= whole /\ Built + 1 \in Nat
      BY <1>6, <2>2
    <3>2. (Built + 1) * each <= whole * each /\ whole * each \in Nat
      BY <1>5, <1>7, <3>1, MoreTimes
    <3>3. (Built + 1) * each = Built * each + each /\ Built * each \in Nat
      BY <1>6, <1>7, OneMore
    <3>4. Polled <= each
      BY <1>1, <1>8
    <3>5. PICK b, w, h : b = Built * each /\ w = whole * each /\ h = Polled
      OBVIOUS
    <3> HIDE DEF each
    <3>6. b + each <= w /\ b \in Nat /\ w \in Nat /\ h \in Nat /\ h <= each /\ pauses <= b + Besides
          /\ Besides <= h + length + 1 + FetchRetries
      BY <1>8, <1>9, <3>2, <3>3, <3>4, <3>5
    <3>7. pauses <= w + length + 1 + FetchRetries
      BY <1>1, <1>2, <1>7, <1>8, <3>6
    <3> QED BY <3>5, <3>7
  <2> QED BY <1>8, <2>1, <2>2
<1> QED BY <1>10 DEF PausesEnd, PausesAllowed, whole

LEMMA InstagramPausesEnd == AdaptersInv /\ carrier = "instagram" => PausesEnd
<1> SUFFICES ASSUME AdaptersInv, carrier = "instagram" PROVE PausesEnd
  OBVIOUS
<1>1. InstagramPlace /\ InstagramPace
  BY DEF AdaptersInv, PaceInv
<1>2. ReadyPolls \in Nat \ {0} /\ PublishAttempts \in Nat \ {0} /\ ContainerAttempts \in Nat \ {0}
  BY AdaptersAssumption
<1>3. stride.polls \in Nat /\ stride.sends \in Nat /\ stride.rebuilds \in Nat /\ pauses \in Nat
  BY DEF AdaptersInv, RowInv, AdaptersTypeOK, Stride
<1>4. stride.polls < ReadyPolls /\ stride.sends < PublishAttempts /\ stride.rebuilds < ContainerAttempts
  BY <1>1 DEF InstagramPlace
<1>5. PerStory \in Nat
  BY <1>2 DEF PerStory
<1>6. ThisStory \in Nat /\ ThisStory <= PerStory
  <2>1. Polled \in Nat /\ Polled <= ReadyPolls
    BY <1>2, <1>3, <1>4 DEF Polled
  <2>2. PICK t \in {0, Polled, ReadyPolls + 1 + stride.sends, PerStory} : t = ThisStory
    BY DEF ThisStory
  <2>3. t \in Nat /\ t <= PerStory
    BY <1>2, <1>3, <1>4, <2>1, <2>2 DEF PerStory
  <2> QED BY <2>2, <2>3
<1>7. (stride.rebuilds + 1) * PerStory = stride.rebuilds * PerStory + PerStory /\ stride.rebuilds * PerStory \in Nat
  BY <1>3, <1>5, OneMore
<1>8. (stride.rebuilds + 1) * PerStory <= ContainerAttempts * PerStory /\ ContainerAttempts * PerStory \in Nat
  <2>1. stride.rebuilds + 1 \in Nat /\ stride.rebuilds + 1 <= ContainerAttempts
    BY <1>2, <1>3, <1>4
  <2> QED BY <1>2, <1>5, <2>1, MoreTimes
<1>9. PICK r, c, t, s : r = stride.rebuilds * PerStory /\ c = ContainerAttempts * PerStory /\ t = ThisStory /\ s = PerStory
  OBVIOUS
<1>10. pauses <= r + t /\ r + s <= c /\ t <= s /\ r \in Nat /\ c \in Nat /\ t \in Nat /\ s \in Nat
  BY <1>1, <1>5, <1>6, <1>7, <1>8, <1>9 DEF InstagramPace
<1>11. pauses <= c + 1
  BY <1>3, <1>10
<1> QED BY <1>9, <1>11 DEF PausesEnd, PausesAllowed, PerStory

LEMMA AdaptersPromise == AdaptersInv => AdaptersTypeOK /\ PlaceHolds
<1> SUFFICES ASSUME AdaptersInv PROVE AdaptersTypeOK /\ PlaceHolds
  OBVIOUS
<1>1. CASE carrier \notin Staged
  BY <1>1 DEF AdaptersInv, RowInv, WallInv, EssayInv, PlaceHolds, PausesEnd, PausesAllowed, Staged
<1>2. CASE carrier \in Staged
  BY <1>2, ThreadsPausesEnd, InstagramPausesEnd DEF AdaptersInv, RowInv, WallInv, EssayInv, PlaceHolds, Staged
<1> QED BY <1>1, <1>2

\* Whatever its platform answers, loses or leaves unsaid, a delivery shows its posts in
\* their order and each of them once, what is written down of a chain that may be tried
\* again is what is out, an article leaves one draft, and an adapter that defers does so
\* only so often, for every size of an album, length of a chain and budget of the code.
THEOREM PlacesSurvive == AdaptersSpec => [](AdaptersTypeOK /\ PlaceHolds)
<1> QED BY AdaptersStart, AdaptersStep, AdaptersPromise, PTL DEF AdaptersSpec
===============================================================================
