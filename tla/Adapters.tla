------------------------------ MODULE Adapters ------------------------------
(***************************************************************************)
(* One delivery as its platform's adapter makes it (delivery/social/*.ts,  *)
(* delivery/zernio.ts, the text half of delivery/platform-adapters.ts).    *)
(*                                                                         *)
(* Threads and Instagram Stories make one call in an attempt and defer:    *)
(* where they are is kept in the payload (stride), what is out beside it   *)
(* (trail).  X, the X article, Discord and Zernio make several calls in    *)
(* one attempt and keep the place in memory (pocket).  The queue around    *)
(* the adapter is PublishQueue; here it is only the budget an attempt      *)
(* spends.  Texts, uploads and encodings are one answer of the platform,   *)
(* and an accepted call names what it made.                                *)
(***************************************************************************)
EXTENDS Naturals, Sequences, FiniteSets

CONSTANTS
  AlbumSizes,      \* media of the first post
  ChainLengths,    \* posts a publication is cut into
  Patience,        \* polls before THREADS_CONTAINER_TIMEOUT_SECONDS have passed
  FetchRetries,    \* MEDIA_FETCH_RETRY_DELAYS_MS
  ReadyPolls, PublishAttempts, ContainerAttempts,  \* of instagram.ts
  Budget,          \* PUBLISH_MAX_ATTEMPTS
  PartialBudget    \* PUBLISH_PARTIAL_MAX_ATTEMPTS

ASSUME AdaptersAssumption ==
  /\ AlbumSizes \subseteq Nat /\ ChainLengths \subseteq Nat \ {0}
  /\ {Patience, FetchRetries} \subseteq Nat
  /\ {ReadyPolls, PublishAttempts, ContainerAttempts, Budget, PartialBudget} \subseteq Nat \ {0}

VARIABLES
  carrier,   \* which adapter
  size,      \* media of the first post
  length,    \* posts of the chain
  stride,    \* threadsProgress, instagramStoryProgress
  trail,     \* ids in the payload: what is out, or the article's draft
  ending,    \* the row's status
  tries,     \* attempts spent
  underway,  \* a call sequence is under way
  pocket,    \* what that sequence remembers
  wall,      \* the posts the platform shows, oldest first
  essays,    \* article drafts the adapter was told of
  pauses     \* deferrals so far

adapterVars == <<carrier, size, length, stride, trail, ending, tries, underway, pocket, wall, essays, pauses>>
adapterRow == <<stride, trail, ending, tries, pauses>>
adapterShape == <<carrier, size, length>>

Staged == {"threads", "instagram"}
Chained == {"x", "discord"}
Carriers == Staged \cup Chained \cup {"x_article", "zernio", "telegram", "telegram_story"}
Stages == {"create_child", "wait_child", "create_parent", "create_primary", "wait_primary", "publish",
           "create_reply", "wait_reply", "verify", "create", "processing", "ready", "publish_sent"}
Stride == [stage: Stages, items: Nat, polls: Nat, rebuilds: Nat, fetches: Nat, sends: Nat]
ErrorKinds == {"transient", "unknown", "permanent"}
Endings == {"queued", "calling", "published", "failed", "in_doubt", "skipped"}

\* initialThreadsState; an Instagram story starts by creating its container.
FirstStride(c, n) ==
  [stage |-> IF c = "instagram" THEN "create" ELSE IF n > 1 THEN "create_child" ELSE "create_primary",
   items |-> 0, polls |-> 0, rebuilds |-> 0, fetches |-> 0, sends |-> 0]

NoPocket == [out |-> <<>>, again |-> FALSE, held |-> FALSE]

AdaptersInit ==
  /\ carrier \in Carriers
  /\ size \in IF carrier = "threads" THEN AlbumSizes ELSE {1}
  /\ length \in IF carrier \in {"threads"} \cup Chained THEN ChainLengths ELSE {1}
  /\ stride = FirstStride(carrier, size) /\ trail = <<>> /\ ending = "queued" /\ tries = 0
  /\ underway = FALSE /\ pocket = NoPocket /\ wall = <<>> /\ essays = 0 /\ pauses = 0

-----------------------------------------------------------------------------
(* How an attempt ends. *)

Defer(next, out) ==
  /\ stride' = next /\ trail' = out /\ pauses' = pauses + 1 /\ UNCHANGED <<ending, tries>>
EndsAs(how) == ending' = how /\ UNCHANGED <<stride, trail, tries, pauses>>

\* failPublishJob: the place already written is kept.
Retried(class) ==
  \/ class = "transient" /\ tries + 1 < Budget
  \/ class = "unknown" /\ tries + 1 < 2
Fails(class) ==
  /\ tries' = tries + 1 /\ ending' = IF Retried(class) THEN "queued" ELSE "failed"
  /\ UNCHANGED <<stride, trail, pauses>>

\* ambiguousExternalMutation: an answer lost on the way, or the process with it.
LostAt(part) == wall' \in {wall, Append(wall, part)} /\ EndsAs("in_doubt")

\* Refused before anything is sent: a setting is missing, or the adapter hands back
\* that there is nothing it could send.
Decline ==
  /\ ending = "queued" /\ ~underway
  /\ \/ \E class \in ErrorKinds : Fails(class)
     \/ /\ ((pauses = 0 /\ trail = <<>>) \/ (carrier = "instagram" /\ stride.stage = "create"))
        /\ \/ EndsAs("skipped") /\ carrier \notin {"x", "x_article", "discord"}
           \/ EndsAs("failed") /\ carrier # "discord"
  /\ UNCHANGED <<adapterShape, underway, pocket, wall, essays>>

-----------------------------------------------------------------------------
(* Threads: one call to the Graph API in an attempt. *)

OnThreads(stages) == carrier = "threads" /\ ending = "queued" /\ stride.stage \in stages
FrameOfCall == UNCHANGED <<adapterShape, underway, pocket, essays>>

WaitFor == [create_child |-> "wait_child", create_parent |-> "wait_primary",
            create_primary |-> "wait_primary", create_reply |-> "wait_reply"]

\* The platform could not fetch the staged file: a budget of its own.
FetchAgain == stride.fetches < FetchRetries /\ Defer([stride EXCEPT !.fetches = @ + 1], trail)

\* A carousel the platform calls invalid is built once more from its media.
Rebuilt(s) == [s EXCEPT !.stage = "create_child", !.items = 0, !.rebuilds = 1]

CreateContainer ==
  /\ OnThreads({"create_child", "create_primary", "create_parent", "create_reply"})
  /\ \/ Defer([stride EXCEPT !.stage = WaitFor[stride.stage], !.polls = 0], trail)
     \/ stride.stage # "create_parent" /\ FetchAgain
     \/ stride.stage = "create_parent" /\ stride.rebuilds = 0 /\ Defer(Rebuilt(stride), trail)
     \/ \E class \in ErrorKinds : Fails(class)
  /\ UNCHANGED wall /\ FrameOfCall

AfterWait ==
  IF stride.stage # "wait_child" THEN [stride EXCEPT !.stage = "publish"]
  ELSE [stride EXCEPT !.stage = IF stride.items + 1 < size THEN "create_child" ELSE "create_parent",
                      !.items = @ + 1]

\* A container that ended or is overdue fails the attempt and is asked again by the next.
PollContainer ==
  /\ OnThreads({"wait_child", "wait_primary", "wait_reply"})
  /\ \/ Defer(AfterWait, trail)
     \/ stride.polls < Patience /\ Defer([stride EXCEPT !.polls = @ + 1], trail)
     \/ \E class \in ErrorKinds : Fails(class)
  /\ UNCHANGED wall /\ FrameOfCall

\* MUTANT: one part past the end.
OnePartMore(part) == part <= length

\* The chain goes on after this part.
MoreAfter(part) == part < length

PublishContainer ==
  LET part == Len(trail) + 1 IN
  /\ OnThreads({"publish"})
  /\ \/ /\ wall' = Append(wall, part)
        /\ Defer([stride EXCEPT !.stage = IF MoreAfter(part) THEN "create_reply" ELSE "verify"],
                 Append(trail, part))
     \/ LostAt(part)
     \/ UNCHANGED wall /\ \E class \in ErrorKinds : Fails(class)
  /\ FrameOfCall

VerifyThreads ==
  /\ OnThreads({"verify"}) /\ (EndsAs("published") \/ \E class \in ErrorKinds : Fails(class))
  /\ UNCHANGED wall /\ FrameOfCall

-----------------------------------------------------------------------------
(* Instagram Stories. *)

OnInstagram(stage) == carrier = "instagram" /\ ending = "queued" /\ stride.stage = stage

CreateStory ==
  /\ OnInstagram("create")
  /\ \/ Defer([stride EXCEPT !.stage = "processing", !.polls = 0, !.sends = 0], trail)
     \/ \E class \in ErrorKinds : Fails(class)
  /\ UNCHANGED wall /\ FrameOfCall

\* A container that is gone is built anew, unless this one was already the last.
BuildAgain ==
  \/ /\ stride.rebuilds + 1 < ContainerAttempts
     /\ Defer([stride EXCEPT !.stage = "create", !.polls = 0, !.sends = 0, !.rebuilds = @ + 1], trail)
  \/ stride.rebuilds + 1 >= ContainerAttempts /\ \E class \in ErrorKinds : Fails(class)

PollStory ==
  /\ OnInstagram("processing")
  /\ \/ Defer([stride EXCEPT !.stage = "ready"], trail)
     \/ BuildAgain
     \/ stride.polls + 1 < ReadyPolls /\ Defer([stride EXCEPT !.polls = @ + 1], trail)
     \/ \E class \in ErrorKinds : Fails(class)
  /\ UNCHANGED wall /\ FrameOfCall

PublishStory ==
  /\ OnInstagram("ready")
  /\ \/ /\ wall' = Append(wall, 1) /\ Defer([stride EXCEPT !.stage = "publish_sent"], <<1>>)
     \/ LostAt(1)
     \/ /\ UNCHANGED wall
        /\ \/ stride.sends + 1 < PublishAttempts /\ Defer([stride EXCEPT !.sends = @ + 1], trail)
           \/ stride.sends + 1 >= PublishAttempts /\ BuildAgain
           \/ \E class \in ErrorKinds : Fails(class)
  /\ FrameOfCall

VerifyStory ==
  /\ OnInstagram("publish_sent") /\ (EndsAs("published") \/ \E class \in ErrorKinds : Fails(class))
  /\ UNCHANGED wall /\ FrameOfCall

-----------------------------------------------------------------------------
(* The adapters that make every call of a delivery in one attempt.  What   *)
(* the queue no longer waits for is not settled.                           *)

StartCalls ==
  /\ carrier \notin Staged /\ ending = "queued" /\ ~underway
  /\ ending' = "calling" /\ underway' = TRUE
  /\ pocket' = [NoPocket EXCEPT !.out = IF carrier = "x" THEN trail ELSE <<>>,
                                !.held = carrier = "x_article" /\ trail # <<>>]
  /\ UNCHANGED <<adapterShape, stride, trail, tries, wall, essays, pauses>>

Waited == ending = "calling"
Stops == underway' = FALSE /\ pocket' = NoPocket
\* Verification adds evidence and never turns an answer into a failure.
Returns(how) == Stops /\ IF Waited THEN EndsAs(how) ELSE UNCHANGED adapterRow
Throws(class) == Stops /\ IF Waited THEN Fails(class) ELSE UNCHANGED adapterRow

\* MUTANT: what is out is left to the payload the attempt began with.
HandsBackLess(ids) ==
  /\ Stops
  /\ IF ~Waited THEN UNCHANGED adapterRow
     ELSE /\ tries' = tries + 1 /\ UNCHANGED <<trail, stride, pauses>>
          /\ ending' \in {"failed"} \cup (IF tries + 1 < PartialBudget THEN {"queued"} ELSE {})

\* settlePartialPublication: what is out, or drafted, is written down for the next
\* attempt, unless the platform was heard from meanwhile.
HandsBack(ids) ==
  /\ Stops
  /\ IF ~Waited THEN UNCHANGED adapterRow
     ELSE /\ trail' = ids /\ tries' = tries + 1
          /\ ending' \in {"failed"} \cup (IF tries + 1 < PartialBudget THEN {"queued"} ELSE {})
          /\ UNCHANGED <<stride, pauses>>

Loses(part) ==
  /\ Stops /\ wall' \in {wall, Append(wall, part)}
  /\ IF Waited THEN EndsAs("in_doubt") ELSE UNCHANGED adapterRow

\* An upload, its processing or the post itself is refused: only X knows what of a
\* chain it has sent.
BreaksOff ==
  IF carrier = "x" /\ pocket.out # <<>> THEN HandsBack(pocket.out)
  ELSE \E class \in ErrorKinds : Throws(class)

\* X threads its posts as replies; Discord's parts are messages of their own.
PostPart ==
  LET part == Len(pocket.out) + 1
      out == Append(pocket.out, part)
  IN /\ underway /\ carrier \in Chained
     /\ \/ /\ wall' = Append(wall, part)
           /\ IF MoreAfter(part) THEN pocket' = [pocket EXCEPT !.out = out] /\ UNCHANGED <<adapterRow, underway>>
              ELSE Returns("published")
        \/ Loses(part)
        \/ UNCHANGED wall /\ BreaksOff
     /\ UNCHANGED <<adapterShape, essays>>

\* A lost draft has reached nobody and is an ordinary failure.
DraftArticle ==
  /\ underway /\ carrier = "x_article" /\ ~pocket.held
  /\ \/ pocket' = [pocket EXCEPT !.held = TRUE] /\ essays' = essays + 1 /\ UNCHANGED <<adapterRow, underway>>
     \/ UNCHANGED essays /\ \E class \in ErrorKinds : Throws(class)
  /\ UNCHANGED <<adapterShape, wall>>

PublishArticle ==
  /\ underway /\ carrier = "x_article" /\ pocket.held
  /\ \/ wall' = Append(wall, 1) /\ Returns("published")
     \/ Loses(1)
     \/ UNCHANGED wall /\ HandsBack(<<1>>)
  /\ UNCHANGED <<adapterShape, essays>>

\* Created, or the post that already answers to the request id, in the body or as a
\* conflict of the same account.
Reconciled == wall' = <<1>> /\ Returns("published")

\* A lost answer is asked for once more under the same request id.
AskZernio ==
  /\ underway /\ carrier = "zernio"
  /\ \/ Reconciled
     \/ /\ ~pocket.again /\ wall' \in {wall, <<1>>} /\ pocket' = [pocket EXCEPT !.again = TRUE]
        /\ UNCHANGED <<adapterRow, underway>>
     \/ /\ pocket.again /\ wall' \in {wall, <<1>>} /\ Stops
        /\ IF Waited THEN EndsAs("in_doubt") ELSE UNCHANGED adapterRow
     \/ UNCHANGED wall /\ \E class \in ErrorKinds : Throws(class)
  /\ UNCHANGED <<adapterShape, essays>>

\* What follows the call, a reaction, changes nothing about it.
OneCall ==
  \/ wall' = Append(wall, 1) /\ Returns("published")
  \/ Loses(1)
  \/ UNCHANGED wall /\ \E class \in ErrorKinds : Throws(class)

SendTelegram ==
  /\ underway /\ carrier = "telegram" /\ (OneCall \/ (UNCHANGED wall /\ Returns("failed")))
  /\ UNCHANGED <<adapterShape, essays>>

\* Connecting, encoding and the send: only the last may have reached anyone.
SendChannelStory ==
  /\ underway /\ carrier = "telegram_story" /\ OneCall
  /\ UNCHANGED <<adapterShape, essays>>

\* withinPublishTimeout stops waiting and cancels nothing.
StopWaiting ==
  /\ underway /\ Waited /\ EndsAs("in_doubt")
  /\ UNCHANGED <<adapterShape, underway, pocket, wall, essays>>

\* The process dies: recovery reads provider.publish off the row.
KillCalls ==
  /\ \/ underway /\ Stops /\ IF Waited THEN EndsAs("in_doubt") ELSE UNCHANGED adapterRow
     \/ carrier \in Staged /\ ending = "queued" /\ EndsAs("in_doubt") /\ UNCHANGED <<underway, pocket>>
  /\ UNCHANGED <<adapterShape, wall, essays>>

AdaptersNext ==
  \/ Decline
  \/ CreateContainer \/ PollContainer \/ PublishContainer \/ VerifyThreads
  \/ CreateStory \/ PollStory \/ PublishStory \/ VerifyStory
  \/ StartCalls \/ PostPart \/ DraftArticle \/ PublishArticle \/ AskZernio \/ SendTelegram
  \/ SendChannelStory \/ StopWaiting \/ KillCalls

AdaptersSpec == AdaptersInit /\ [][AdaptersNext]_adapterVars

-----------------------------------------------------------------------------
\* Types.
AdaptersTypeOK ==
  /\ carrier \in Carriers /\ size \in AlbumSizes \cup {1} /\ length \in ChainLengths \cup {1}
  /\ stride \in Stride /\ trail \in Seq(1 .. length) /\ ending \in Endings /\ tries \in 0 .. Budget + PartialBudget
  /\ underway \in BOOLEAN /\ pocket \in [out: Seq(1 .. length), again: BOOLEAN, held: BOOLEAN]
  /\ wall \in Seq(1 .. length) /\ essays \in Nat /\ pauses \in Nat

\* A chain is shown in its order and no part of it twice, however its attempts end
\* (Discord apart, which sends every part again after a refusal).
ChainInOrder == carrier # "discord" => wall = [i \in 1 .. Len(wall) |-> i]

\* An attempt that is not in doubt leaves the payload naming exactly what is out
\* (Zernio's repeat may be refused after a first call that landed).
PlaceIsKept ==
  ending \in {"queued", "failed", "skipped"} =>
    \/ carrier \in {"discord", "zernio"}
    \/ wall = IF carrier = "x_article" THEN <<>> ELSE trail

\* What is reported published is out to its last part.
PublishedToTheEnd == ending = "published" => length \in {wall[i] : i \in 1 .. Len(wall)}

\* A refused publish leaves one draft, not one for every attempt (x.ts, publishXArticle).
OneEssay == essays <= 1

\* However long a container takes and however attempts fail, an adapter defers only so
\* often: containers, the polls of each, and the budgets for building and fetching again.
PausesAllowed ==
  IF carrier = "threads"
  THEN ((IF size > 1 THEN 2 * size + 1 ELSE 0) + length) * (Patience + 2) + length + 1 + FetchRetries
  ELSE IF carrier = "instagram" THEN ContainerAttempts * (ReadyPolls + PublishAttempts + 1) + 1
  ELSE 0
PausesEnd == pauses <= PausesAllowed

\* The place an adapter keeps between its calls survives what its attempts run into.
PlaceHolds == ChainInOrder /\ PlaceIsKept /\ PublishedToTheEnd /\ OneEssay /\ PausesEnd
=============================================================================
