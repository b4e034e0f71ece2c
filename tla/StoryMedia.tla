----------------------------- MODULE StoryMedia -----------------------------
(***************************************************************************)
(* The Story variants of one asset: a video has two, one of them under     *)
(* Telegram's size limit, an image one.  They are rendered beforehand, by  *)
(* the server or by an operator's command in a process of its own, with a  *)
(* local encoder or with the remote processor and its one slot; a delivery *)
(* only reads them (story-derivatives.ts, story-media.ts,                  *)
(* remote-media-processor.ts, deploy/media-processor/service.ts).          *)
(*                                                                         *)
(* There is no table: a file being there is the record that it was made.   *)
(* Another asset's work on the processor is OtherWork; files age by        *)
(* PruneWorkDir.  The delivery is Telegram's: Instagram's reads the        *)
(* standard file of the same pair.                                         *)
(***************************************************************************)
EXTENDS Naturals, Sequences, FiniteSets

CONSTANTS
  MaxRenders,    \* calls of ensureStoryDerivative
  StoryFaults    \* subset of AllStoryFaults

\* "render_fails": an encode, a download or a request fails.
\* "operator": a second process renders (story-media-backfill).
\* "repair": renders are forced (media-reprocess).
\* "restart": the server dies.   "prune": the processor's cache ages out.
AllStoryFaults == {"render_fails", "operator", "repair", "restart", "prune"}

ASSUME StoryAssumption == MaxRenders \in Nat /\ StoryFaults \subseteq AllStoryFaults

Variants == {"standard", "telegram"}
Processes == {"server", "operator"}
VariantState == {"none", "partial", "whole"}

VARIABLES
  asset,        \* what is shown: "image" or "video"
  provider,     \* MEDIA_PROCESSOR_PROVIDER
  variant,      \* [Variants -> VariantState]: the durable Story files
  renders,      \* [Processes -> Seq of renders]: each process's lane
  calls,         \* calls made so far
  slot,         \* the processor's encoder: "free", "story" or "other"
  cached,       \* the outputs in the processor's cache
  late,         \* downloads a render gave up on, still being written
  story,        \* the Story delivery: [pc, behind, named]
  told          \* what the Story delivery handed to the platform

storyVars == <<asset, provider, variant, renders, calls, slot, cached, late, story, told>>

RenderStep == {"queued", "posted", "encoding", "standard", "telegram"}
\* beside: the encoder's outputs under their temporary names.
Render == [force: BOOLEAN, pc: RenderStep, beside: VariantState]
Delivery == [pc: {"idle", "waiting", "prepared", "sent", "refused"}, behind: 0 .. MaxRenders,
             named: SUBSET Variants]

StoryTypeOK ==
  /\ asset \in {"image", "video"} /\ provider \in {"local", "remote_http"} /\ variant \in [Variants -> VariantState]
  /\ \A p \in Processes : renders[p] \in Seq(Render)
  /\ calls \in 0 .. MaxRenders /\ slot \in {"free", "story", "other"} /\ cached \subseteq Variants
  /\ late \subseteq Processes \X Variants /\ story \in Delivery
  /\ told \in [of: Variants, state: VariantState]

StoryInit ==
  /\ asset \in {"image", "video"} /\ provider \in {"local", "remote_http"}
  /\ variant = [v \in Variants |-> "none"] /\ renders = [p \in Processes |-> <<>>]
  /\ calls = 0 /\ slot = "free" /\ cached = {} /\ late = {}
  /\ story = [pc |-> "idle", behind |-> 0, named |-> {}] /\ told = [of |-> "standard", state |-> "none"]

\* storyVariantPaths: the files the Stories of this asset are made of.
Paths == IF asset = "video" THEN Variants ELSE {"standard"}

\* MUTANT: one file is enough.
OnePresent == \E v \in Paths : variant[v] # "none"

VariantsPresent == \A v \in Paths : variant[v] # "none"
Enclosed(p) == renders[p] # <<>>
FrontRender(p) == Head(renders[p])
AtFront(p, pc) == Enclosed(p) /\ FrontRender(p).pc = pc
Stepped(rs, pc) == [rs EXCEPT ![1].pc = pc]
Finished(p) == renders' = [renders EXCEPT ![p] = Tail(@)]

\* A delivery waits for the renders that were under way when it calls.
WaitsLess(p) ==
  story' = IF p = "server" /\ story.pc = "waiting" /\ story.behind > 0
           THEN [story EXCEPT !.behind = @ - 1] ELSE story

\* ensureStoryDerivative: nothing to do when both variants are there; a render
\* under way is shared, and a forced one queues behind it.
EnsureStoryDerivative(p, force) ==
  /\ calls < MaxRenders /\ calls' = calls + 1
  /\ p = "operator" => "operator" \in StoryFaults
  /\ force => "repair" \in StoryFaults
  /\ renders' = IF ~force /\ (VariantsPresent \/ Enclosed(p)) THEN renders
                ELSE [renders EXCEPT ![p] = Append(@, [force |-> force, pc |-> "queued", beside |-> "none"])]
  /\ UNCHANGED <<asset, provider, variant, slot, cached, late, story, told>>

\* renderVariants: calls again inside the lane, then handed to an encoder.
RenderNothing(p) ==
  /\ AtFront(p, "queued") /\ ~FrontRender(p).force /\ VariantsPresent
  /\ Finished(p) /\ WaitsLess(p)
  /\ UNCHANGED <<asset, provider, variant, calls, slot, cached, late, told>>

Renders(p) == AtFront(p, "queued") /\ (FrontRender(p).force \/ ~VariantsPresent)

\* transformLocally: the encoder writes beside the final names.
EncodeLocally(p) ==
  /\ Renders(p) /\ provider = "local"
  /\ renders' = [renders EXCEPT ![p] = [Stepped(@, "encoding") EXCEPT ![1].beside = "partial"]]
  /\ UNCHANGED <<asset, provider, variant, calls, slot, cached, late, story, told>>

EncodedLocally(p) ==
  /\ AtFront(p, "encoding")
  /\ renders' = [renders EXCEPT ![p] = [Stepped(@, "standard") EXCEPT ![1].beside = "whole"]]
  /\ UNCHANGED <<asset, provider, variant, calls, slot, cached, late, story, told>>

\* A render that throws takes both files with it.
RenderFailed(p) ==
  /\ variant' = [v \in Variants |-> "none"] /\ Finished(p) /\ WaitsLess(p)
  /\ UNCHANGED <<asset, provider, calls, told>>

\* handle: a complete result is answered at once, the same work under way is
\* shared, and any other work under way refuses the request.
PostTransform(p) ==
  /\ Renders(p) /\ provider = "remote_http"
  /\ \/ /\ Paths \subseteq cached
        /\ renders' = [renders EXCEPT ![p] = Stepped(@, "standard")]
        /\ UNCHANGED <<slot, variant, story, told, calls, asset, provider>>
     \/ /\ ~(Paths \subseteq cached) /\ slot \in {"free", "story"}
        /\ slot' = "story" /\ renders' = [renders EXCEPT ![p] = Stepped(@, "posted")]
        /\ UNCHANGED <<variant, story, told, calls, asset, provider>>
     \/ /\ ~(Paths \subseteq cached) /\ slot = "other" /\ UNCHANGED slot
        /\ RenderFailed(p)
  /\ UNCHANGED <<cached, late>>

\* Work on another asset takes the slot, and leaves it.
OtherWork ==
  /\ provider = "remote_http"
  /\ \/ slot = "free" /\ slot' = "other"
     \/ slot = "other" /\ slot' = "free"
  /\ UNCHANGED <<asset, provider, variant, renders, calls, cached, late, story, told>>

Posted == {p \in Processes : AtFront(p, "posted")}

\* transcode: the outputs are renamed into the cache and the waiting requests
\* are answered.
Transcoded ==
  /\ slot = "story" /\ slot' = "free" /\ cached' = cached \cup Paths
  /\ renders' = [p \in Processes |-> IF p \in Posted THEN Stepped(renders[p], "standard") ELSE renders[p]]
  /\ UNCHANGED <<asset, provider, variant, calls, late, story, told>>

\* The encoder or the processor dies: every waiting request fails.  It may die
\* between the two renames.
TranscodeFails ==
  /\ "render_fails" \in StoryFaults /\ slot = "story" /\ slot' = "free"
  /\ cached' \in {cached, cached \cup {"standard"}}
  /\ variant' = IF Posted = {} THEN variant ELSE [v \in Variants |-> "none"]
  /\ renders' = [p \in Processes |-> IF p \in Posted THEN Tail(renders[p]) ELSE renders[p]]
  /\ story' = IF "server" \in Posted /\ story.pc = "waiting" /\ story.behind > 0
              THEN [story EXCEPT !.behind = @ - 1] ELSE story
  /\ UNCHANGED <<asset, provider, calls, late, told>>

\* The caller's deadline passes and the encode goes on, or a download fails.  A
\* download that is given up while it is written (withTimeout) is written all
\* the same.
RequestFails(p) ==
  /\ "render_fails" \in StoryFaults
  /\ AtFront(p, "posted") \/ AtFront(p, "encoding") \/ AtFront(p, "standard") \/ AtFront(p, "telegram")
  /\ RenderFailed(p)
  /\ late' \in {late, late \cup {<<p, v>> : v \in {w \in cached : provider = "remote_http" /\ AtFront(p, w)}}}
  /\ UNCHANGED <<slot, cached>>

\* writeResponseAtomically, after its render removed both files.
LateWrite(p, v) ==
  /\ <<p, v>> \in late /\ late' = late \ {<<p, v>>}
  /\ variant' = [variant EXCEPT ![v] = "whole"]
  /\ UNCHANGED <<asset, provider, renders, calls, slot, cached, story, told>>

\* What a render has of a variant: what its encoder wrote, or the download.
Made(p, v) ==
  IF provider = "local" THEN FrontRender(p).beside ELSE IF v \in cached THEN "whole" ELSE "none"

\* Each variant is moved in under its final name; a variant the processor no
\* longer has fails the render.
VariantArrives(p, v) ==
  /\ AtFront(p, v)
  /\ IF Made(p, v) # "none"
     THEN /\ variant' = [variant EXCEPT ![v] = Made(p, v)]
          /\ IF v = "standard" /\ asset = "video"
             THEN renders' = [renders EXCEPT ![p] = Stepped(@, "telegram")] /\ UNCHANGED story
             ELSE Finished(p) /\ WaitsLess(p)
          /\ UNCHANGED <<asset, provider, calls, told>>
     ELSE RenderFailed(p)
  /\ UNCHANGED <<slot, cached, late>>

PruneWorkDir ==
  /\ "prune" \in StoryFaults /\ cached # {} /\ cached' = {}
  /\ UNCHANGED <<asset, provider, variant, renders, calls, slot, late, story, told>>

\* awaitPreparedStoryMedia, then the delivery reads what is there or refuses.
StoryAsked ==
  /\ story.pc \in {"idle", "refused"}
  /\ story' = [pc |-> "waiting", behind |-> Len(renders["server"]), named |-> {}]
  /\ UNCHANGED <<asset, provider, variant, renders, calls, slot, cached, late, told>>

\* preparedStoryMedia names the files it saw.
StoryPrepared ==
  /\ story.pc = "waiting" /\ story.behind = 0
  /\ story' = IF VariantsPresent
              THEN [story EXCEPT !.pc = "prepared", !.named = {v \in Paths : variant[v] # "none"}]
              ELSE [story EXCEPT !.pc = "refused"]
  /\ UNCHANGED <<asset, provider, variant, renders, calls, slot, cached, late, told>>

\* prepareMediaItems: the Telegram file, or the standard one when none is named.
TelegramReads == IF "telegram" \in story.named THEN "telegram" ELSE "standard"

\* A file removed since fails the attempt.
StorySent ==
  /\ story.pc = "prepared"
  /\ IF variant[TelegramReads] = "none"
     THEN story' = [story EXCEPT !.pc = "refused"] /\ UNCHANGED told
     ELSE /\ story' = [story EXCEPT !.pc = "sent"]
          /\ told' = [of |-> TelegramReads, state |-> variant[TelegramReads]]
  /\ UNCHANGED <<asset, provider, variant, renders, calls, slot, cached, late>>

\* The server dies: its lane is gone and its files stay.
StoryRestart ==
  /\ "restart" \in StoryFaults /\ (Enclosed("server") \/ story.pc \in {"waiting", "prepared"})
  /\ renders' = [renders EXCEPT !["server"] = <<>>]
  /\ late' = {l \in late : l[1] # "server"}
  /\ story' = IF story.pc \in {"waiting", "prepared"} THEN [pc |-> "idle", behind |-> 0, named |-> {}] ELSE story
  /\ UNCHANGED <<asset, provider, variant, calls, slot, cached, told>>

StoryNext ==
  \/ \E p \in Processes :
       \/ \E force \in BOOLEAN : EnsureStoryDerivative(p, force)
       \/ RenderNothing(p) \/ EncodeLocally(p) \/ EncodedLocally(p) \/ PostTransform(p) \/ RequestFails(p)
       \/ \E v \in Variants : VariantArrives(p, v) \/ LateWrite(p, v)
  \/ OtherWork \/ Transcoded \/ TranscodeFails \/ PruneWorkDir
  \/ StoryAsked \/ StoryPrepared \/ StorySent
  \/ StoryRestart

StorySpec == StoryInit /\ [][StoryNext]_storyVars

(***************************************************************************)
(* Properties                                                              *)
(***************************************************************************)

\* Telegram is handed the file made for it, and whole: never the standard one of
\* a video's pair that another process is still moving in, has removed, or that
\* a download given up on left half there, and never a file an encoder still
\* writes (renderVariants: "A half-written pair is worse than none: it reads as
\* prepared and ships a Telegram Story rendered for Instagram").
StoryIsItsOwn ==
  told.state # "none" => told.state = "whole" /\ told.of = IF asset = "video" THEN "telegram" ELSE "standard"

\* Reprocessing only creates or warms variants: what a delivery could read it
\* still can (deploy/media-processor/README.md on media-reprocess).
PreparedStays == [][VariantsPresent => VariantsPresent']_storyVars
=============================================================================
