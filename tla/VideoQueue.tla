----------------------------- MODULE VideoQueue -----------------------------
(***************************************************************************)
(* One video draft on its way to the platforms: the video_targets rows,    *)
(* the prepare and publish job each of them has, the attempt a worker is   *)
(* making, the reconciliation sweep, and the operator's commands.          *)
(*                                                                         *)
(* Beside the rows stands what the platforms hold, because that is what    *)
(* the rows must not contradict: a YouTube upload exists privately and     *)
(* goes public by itself, an Instagram container is published by a second  *)
(* call, and the provider (Zernio) takes a Reel before the platform does   *)
(* and answers a repeated request with the post it already made.           *)
(*                                                                         *)
(* Each action is one synchronous stretch of the process or one event at   *)
(* a platform.  Times are delays; those that matter are flags.             *)
(***************************************************************************)
EXTENDS Naturals, FiniteSets

CONSTANTS
  Targets,      \* the platforms the draft may go to
  Workers,      \* runVideoCycle loops; more than one only while two processes overlap
  Routes,       \* how a target is delivered, chosen once per behaviour
  MaxObjects,   \* BOUND: uploads, containers or request fences of a target
  MaxAttempts,  \* PUBLISH_MAX_ATTEMPTS
  ReconcileMax, \* RECONCILE_MAX_ATTEMPTS
  Operations,   \* what operators do in this instance
  Faults,       \* what goes wrong beyond crashes and lost answers
  MaxOps,       \* BOUND: operator commands
  MaxCrashes    \* BOUND: process restarts

AllRoutes == {"youtube", "native", "zernio"}
\* "settle" is the command where an operator is sent to it, on a target in doubt;
\* "settle_failed" is the same one on a failed target, which the code accepts too.
AllOperations == {"choose", "remove", "schedule", "retry", "settle", "settle_failed", "cancel"}
\* "unprepared": the publication comes due and is claimed although preparation
\* still has an attempt to make, is in doubt, or died with its worker.
\* "overlap": two processes run the worker, so a live attempt's lock can be
\* taken for a dead one's.
\* "older_post": a repeated publication ends in doubt while its target still
\* names the post an earlier one made, so what is asked is about the wrong post.
\* "unread_answer": a call did what it was asked, and neither its answer nor the
\* upload session's status could be read.
AllFaults == {"unprepared", "overlap", "older_post", "unread_answer"}

ASSUME VideoNamesAssumption == "none" \notin Workers /\ "recon" \notin Workers
ASSUME VideoBoundsAssumption ==
  /\ MaxObjects \in Nat /\ MaxAttempts \in Nat /\ ReconcileMax \in Nat
  /\ MaxOps \in Nat /\ MaxCrashes \in Nat
ASSUME VideoChoicesAssumption ==
  /\ Routes \subseteq AllRoutes /\ Operations \subseteq AllOperations /\ Faults \subseteq AllFaults

Kinds == {"prepare", "publish"}
ObjectIds == 1 .. MaxObjects
TargetStatus == {"absent", "editing", "scheduled", "prepared", "published", "failed",
                 "verification_required", "cancelled"}
JobStatus == {"no_row", "queued", "running", "completed", "failed", "cancelled",
              "verification_required"}
DraftStatus == {"editing", "scheduled", "published", "partial", "cancelled"}
\* A container is private until published, a scheduled upload until its time,
\* an accepted post until the platform takes it or refuses it.
ObjectStates == {"none", "container", "scheduled", "accepted", "public", "refused", "held"}
ErrorClasses == {"transient", "unknown", "permanent"}

VARIABLES
  route,   \* target name and deliveryProvider
  draft,   \* video_drafts: status, retentionUntil set, source pruned
  target,  \* video_targets: status, externalId, providerPostId
  job,     \* video_jobs: target -> kind -> row
  fence,   \* runAt of the publish job, counted: what a request id is made of
  due,     \* the publish job's runAt has come
  past,    \* the target's scheduledAt has come
  soon,    \* the publish job runs a minute after a retry, whatever scheduledAt says
  object,  \* target -> id -> what the platform holds
  attempt, \* worker -> the job it is executing
  recon,   \* the sweep's current question
  asking,  \* the operator command waiting for the provider
  holds,   \* uploads a cancellation still has to keep private
  unheld,  \* GHOST: uploads whose id or whose hold was lost on the way
  ops, crashes

rows == <<draft, target, job, fence>>
clock == <<due, past, soon>>
actors == <<attempt, recon, asking, holds>>
ghosts == <<unheld>>
bounds == <<ops, crashes>>
vars == <<route, rows, clock, object, actors, ghosts, bounds>>

AttemptCap == MaxAttempts + 2
Spend(n) == IF n < AttemptCap THEN n + 1 ELSE n
Idle == [pc |-> "idle"]
JobRow == [status: JobStatus, lockedBy: Workers \cup {"none", "recon"},
           attempt: 0 .. AttemptCap, reconcile: 0 .. ReconcileMax]
TargetRow == [status: TargetStatus, ext: 0 .. MaxObjects, prov: 0 .. MaxObjects]
DraftRow == [status: DraftStatus, retention: BOOLEAN, pruned: BOOLEAN]
Attempt == [pc: {"claimed", "upload", "container", "send", "ready", "publish", "hold"},
            t: Targets, kind: Kinds, ext: 0 .. MaxObjects, fence: 0 .. MaxObjects,
            made: 0 .. MaxObjects]
\* "seen" is what the platform answered, which may be over by the time it is read.
Question == [t: Targets, kind: Kinds, ext: 0 .. MaxObjects, prov: 0 .. MaxObjects, seen: ObjectStates]
Command == [op: {"retry", "settle"}, t: Targets, status: TargetStatus, prov: 0 .. MaxObjects,
            fence: 0 .. MaxObjects, seen: ObjectStates]

-----------------------------------------------------------------------------
(* Rows *)

NoRow == [status |-> "no_row", lockedBy |-> "none", attempt |-> 0, reconcile |-> 0]
NoTarget == [status |-> "absent", ext |-> 0, prov |-> 0]
Unlocked(row, status) == [row EXCEPT !.status = status, !.lockedBy = "none"]
\* A job that ends an attempt, which counts.
Spent(row, status) == [Unlocked(row, status) EXCEPT !.attempt = Spend(@)]
\* insertVideoJob: a fresh budget for the attempt, not for the sweep's questions.
Requeued(row) == [Unlocked(row, "queued") EXCEPT !.attempt = 0]

\* isVideoTargetFinal
FinalStatus == {"published", "failed", "cancelled", "verification_required"}
\* isVideoTargetMetadataEditable, isVideoTargetSchedulable
EditableDetails == {"editing", "scheduled", "failed"}
Schedulable == {"editing", "scheduled"}

Present(tg) == {t \in Targets : tg[t].status # "absent"}
StatusesOf(tg) == {tg[t].status : t \in Present(tg)}
\* refreshVideoDraftStatus with videoDraftStatus: the deadline for the source
\* file exists exactly while every target is final.
Refreshed(d, tg) ==
  LET found == StatusesOf(tg) IN
    IF found = {} THEN d
    ELSE [d EXCEPT !.retention = found \subseteq FinalStatus,
                   !.status = IF ~(found \subseteq FinalStatus) THEN "scheduled"
                              ELSE IF found = {"published"} THEN "published" ELSE "partial"]

\* MUTANT: a failure of unknown class is always worth another attempt.
RetryUnknown(class, spent) ==
  IF \/ class = "transient" /\ spent + 1 < MaxAttempts
     \/ class = "unknown"
  THEN "queued" ELSE "failed"
\* failedJobTransition
AfterFailure(class, spent) ==
  IF \/ class = "transient" /\ spent + 1 < MaxAttempts
     \/ class = "unknown" /\ spent + 1 < 2
  THEN "queued" ELSE "failed"

\* MUTANT: only the publish step counts.
OnlyPublishReached(kind, t) == kind = "publish"
\* videoStepMayHaveReachedAudience
MayHaveReachedAudience(kind, t) == kind = "publish" \/ route[t] = "youtube"

\* retryVideoTarget leaves providerPostId where it is.
NamesOlderPost(t, kind) == kind = "publish" /\ route[t] = "zernio" /\ target[t].prov # 0

Running(t) == \E k \in Kinds : job[t][k].status = "running"
IdleWorker(w) == attempt[w] = Idle
\* activeVideoJob: the fence every write of an attempt carries.
Holds(w) ==
  /\ ~IdleWorker(w)
  /\ LET row == job[attempt[w].t][attempt[w].kind] IN row.status = "running" /\ row.lockedBy = w
\* A lock names one claim for ever; a worker's name is reused once no row has it.
LockFree(w) == \A t \in Targets, k \in Kinds : job[t][k].lockedBy # w

Done(w) == attempt' = [attempt EXCEPT ![w] = Idle]
At(w, pcs) == ~IdleWorker(w) /\ attempt[w].pc \in pcs
Unused(t) == {k \in ObjectIds : object[t][k] = "none"}
Fresh(t, k) == k \in Unused(t) /\ \A u \in Unused(t) : k <= u

Init ==
  /\ route \in [Targets -> Routes]
  /\ draft = [status |-> "editing", retention |-> TRUE, pruned |-> FALSE]
  /\ target = [t \in Targets |-> [NoTarget EXCEPT !.status = "editing"]]
  /\ job = [t \in Targets |-> [k \in Kinds |-> NoRow]]
  /\ fence = [t \in Targets |-> 0]
  /\ due = [t \in Targets |-> FALSE] /\ past = due /\ soon = due
  /\ object = [t \in Targets |-> [k \in ObjectIds |-> "none"]]
  /\ attempt = [w \in Workers |-> Idle] /\ recon = Idle /\ asking = Idle
  /\ holds = {} /\ unheld = {}
  /\ ops = 0 /\ crashes = 0

-----------------------------------------------------------------------------
(* The worker: runVideoCycle *)

\* claimVideoJobs, one job at a time and the earlier first: preparation starts
\* its lead time earlier, so it is normally over when publication is due.  A claim behind an open credential
\* breaker is handed straight back (deferBlockedVideoJob) and changes nothing.
Claim(w, t, kind) ==
  /\ IdleWorker(w) /\ LockFree(w)
  /\ job[t][kind].status = "queued"
  /\ kind = "publish" => /\ due[t] /\ ("unprepared" \in Faults \/ job[t]["prepare"].status = "completed")
  /\ job' = [job EXCEPT ![t][kind].status = "running", ![t][kind].lockedBy = w]
  /\ attempt' = [attempt EXCEPT ![w] = [pc |-> "claimed", t |-> t, kind |-> kind,
                                        ext |-> 0, fence |-> fence[t], made |-> 0]]
  /\ UNCHANGED <<route, draft, target, fence, clock, object, recon, asking, holds, ghosts, bounds>>

\* settleVideoTargetJob and completeVideoJob: the job's completion and what
\* the target becomes, in one transaction that a lost lock turns into nothing.
Complete(w, t, row) ==
  IF Holds(w)
    THEN /\ job' = [job EXCEPT ![t][attempt[w].kind] = Unlocked(@, "completed")]
         /\ target' = [target EXCEPT ![t] = row]
    ELSE UNCHANGED <<job, target>>

\* MUTANT: any failed preparation does, even one that will be tried again.
EndsPublicationAlways(kind, next) == kind = "prepare"
\* A preparation that is dead takes its waiting publication with it.
EndsPublication(kind, next) == kind = "prepare" /\ next = "failed"
\* failVideoJob: the job's next status from its budget, the target's from the
\* job's.
FailJob(w, class) ==
  LET t == attempt[w].t
      kind == attempt[w].kind
      row == job[t][kind]
      next == AfterFailure(class, row.attempt)
      failed == [target EXCEPT ![t].status = IF next = "queued" THEN "scheduled" ELSE "failed"]
  IN
  /\ Done(w)
  /\ IF Holds(w)
       THEN /\ job' = [job EXCEPT ![t] =
                 [k \in Kinds |->
                   IF k = kind THEN Spent(row, next)
                   ELSE IF EndsPublication(kind, next) /\ @[k].status = "queued"
                     THEN Unlocked(@[k], "cancelled") ELSE @[k]]]
            /\ target' = failed /\ draft' = Refreshed(draft, failed)
       ELSE UNCHANGED <<job, target, draft>>
  /\ UNCHANGED <<route, fence, clock, object, recon, asking, holds, bounds>>
Fail(w, class) == FailJob(w, class) /\ UNCHANGED ghosts

\* requireVideoVerification: nobody can say whether the call reached anyone.
\* What the provider did return is kept on the target (updateActiveVideoTarget).
RequireVerification(w, prov) ==
  LET t == attempt[w].t
      doubted == [target EXCEPT ![t].status = "verification_required", ![t].prov = prov]
  IN
  /\ Done(w)
  /\ IF Holds(w)
       THEN /\ job' = [job EXCEPT ![t][attempt[w].kind] =
                        Spent(@, "verification_required")]
            /\ target' = doubted /\ draft' = Refreshed(draft, doubted)
       ELSE UNCHANGED <<job, target, draft>>
  /\ UNCHANGED <<route, fence, clock, object, recon, asking, holds, bounds>>

\* executeVideoJob, a target that is over, gone or already out: the job is done.
ExecuteNothing(w) ==
  /\ At(w, {"claimed"}) /\ target[attempt[w].t].status \in {"absent", "cancelled", "published"}
  /\ Done(w) /\ Complete(w, attempt[w].t, target[attempt[w].t])
  /\ UNCHANGED <<route, draft, fence, clock, object, recon, asking, holds, ghosts, bounds>>

Executable(w) ==
  /\ At(w, {"claimed"})
  /\ target[attempt[w].t].status \notin {"absent", "cancelled", "published"}

\* executeVideoJob without a source file, and a publication whose upload does
\* not exist yet.
ExecuteUnready(w) ==
  /\ Executable(w)
  /\ \/ draft.pruned
     \/ /\ attempt[w].kind = "publish" /\ route[attempt[w].t] # "zernio"
        /\ target[attempt[w].t].ext = 0
  /\ Fail(w, "unknown")

\* prepareZernio: a checkpoint, nothing is sent before its time.
ExecuteCheckpoint(w) ==
  LET t == attempt[w].t IN
  /\ Executable(w) /\ ~draft.pruned /\ attempt[w].kind = "prepare" /\ route[t] = "zernio"
  /\ Done(w) /\ Complete(w, t, [target[t] EXCEPT !.status = "prepared"])
  /\ UNCHANGED <<route, draft, fence, clock, object, recon, asking, holds, ghosts, bounds>>

\* publishYouTube: the upload carries its own publication time.
ExecuteYouTubePublish(w) ==
  LET t == attempt[w].t IN
  /\ Executable(w) /\ ~draft.pruned /\ attempt[w].kind = "publish" /\ route[t] = "youtube"
  /\ target[t].ext # 0
  /\ Done(w) /\ Complete(w, t, [target[t] EXCEPT !.status = "published"])
  /\ draft' = IF Holds(w) THEN Refreshed(draft, target') ELSE draft
  /\ UNCHANGED <<route, fence, clock, object, recon, asking, holds, ghosts, bounds>>

\* The call a prepared step makes: an upload, a container, a request to the
\* provider, or the question whether the container is ready.
CallOf(t, kind) ==
  CASE kind = "prepare" /\ route[t] = "youtube" -> "upload"
    [] kind = "prepare" /\ route[t] = "native" -> "container"
    [] kind = "publish" /\ route[t] = "zernio" -> "send"
    [] kind = "publish" /\ route[t] = "native" -> "ready"
    [] OTHER -> "none"

ExecuteCall(w) ==
  LET t == attempt[w].t
      kind == attempt[w].kind
  IN
  /\ Executable(w) /\ ~draft.pruned /\ CallOf(t, kind) # "none"
  /\ CallOf(t, kind) = "ready" => target[t].ext # 0
  /\ attempt' = [attempt EXCEPT ![w].pc = CallOf(t, kind), ![w].ext = target[t].ext]
  /\ UNCHANGED <<route, rows, clock, object, recon, asking, holds, ghosts, bounds>>

-----------------------------------------------------------------------------
(* The platforms *)

\* The call arrives.  A provider that knows the request id answers with the
\* post it made for it; a container is published once.
Reaches(w) ==
  LET t == attempt[w].t
      k == attempt[w].made'
  IN
  /\ At(w, {"upload", "container", "send", "publish"}) /\ attempt[w].made = 0
  /\ \E id \in ObjectIds :
       /\ CASE attempt[w].pc \in {"upload", "container"} -> Fresh(t, id)
            [] attempt[w].pc = "send" -> id = attempt[w].fence
            [] OTHER -> id = attempt[w].ext /\ object[t][id] = "container"
       /\ attempt' = [attempt EXCEPT ![w].made = id]
       /\ object' = [object EXCEPT ![t][id] =
            CASE attempt[w].pc = "upload" -> "scheduled"
              [] attempt[w].pc = "container" -> "container"
              [] attempt[w].pc = "publish" -> "public"
              [] OTHER -> IF @ = "none" THEN "accepted" ELSE @]
  /\ UNCHANGED <<route, rows, clock, recon, asking, holds, ghosts, bounds>>

\* An attempt has the upload in hand and no row names it yet.
InHand(t, k) ==
  \E w \in Workers : At(w, {"upload", "hold"}) /\ attempt[w].t = t /\ attempt[w].made = k
\* What happens at a platform by itself.  A forgotten upload keeps the moment it
\* was sent with, which a later schedule does not move.
GoesPublic(t, k) ==
  /\ \/ object[t][k] = "scheduled" /\ (past[t] \/ ~(target[t].ext = k \/ InHand(t, k)))
     \/ object[t][k] = "accepted"
  /\ object' = [object EXCEPT ![t][k] = "public"]
  /\ UNCHANGED <<route, rows, clock, actors, ghosts, bounds>>

RefusedByPlatform(t, k) ==
  /\ object[t][k] = "accepted"
  /\ object' = [object EXCEPT ![t][k] = "refused"]
  /\ UNCHANGED <<route, rows, clock, actors, ghosts, bounds>>

\* The scheduled moment, which is also when the publish job is due unless a
\* retry armed it.
TimePasses(t) ==
  /\ ~past[t] /\ fence[t] > 0
  /\ past' = [past EXCEPT ![t] = TRUE] /\ due' = [due EXCEPT ![t] = @ \/ ~soon[t]]
  /\ UNCHANGED <<route, rows, soon, object, actors, ghosts, bounds>>
\* The minute after a retry is over, before the scheduled moment or after it.
RetryDue(t) ==
  /\ soon[t] /\ ~due[t]
  /\ due' = [due EXCEPT ![t] = TRUE]
  /\ UNCHANGED <<route, rows, past, soon, object, actors, ghosts, bounds>>

-----------------------------------------------------------------------------
(* Answers *)

\* MUTANT: the upload of a lost job is forgotten.
UploadedAndForgotten(w) ==
  LET t == attempt[w].t IN
  /\ At(w, {"upload"}) /\ attempt[w].made # 0
  /\ Complete(w, t, [target[t] EXCEPT !.status = "prepared", !.ext = attempt[w].made])
  /\ Done(w)
  /\ UNCHANGED <<route, draft, fence, clock, object, recon, asking, holds, ghosts, bounds>>
\* prepareYouTube; an upload whose job was taken away meanwhile is kept private.
Uploaded(w) ==
  LET t == attempt[w].t IN
  /\ At(w, {"upload"}) /\ attempt[w].made # 0
  /\ Complete(w, t, [target[t] EXCEPT !.status = "prepared", !.ext = attempt[w].made])
  /\ IF Holds(w) THEN Done(w) ELSE attempt' = [attempt EXCEPT ![w].pc = "hold"]
  /\ UNCHANGED <<route, draft, fence, clock, object, recon, asking, holds, ghosts, bounds>>

\* keepYouTubeUploadPrivate, asked by the attempt that uploaded it.
KeepPrivate(w, answered) ==
  LET t == attempt[w].t
      k == attempt[w].made
  IN
  /\ At(w, {"hold"}) /\ Done(w)
  /\ object' = IF answered THEN [object EXCEPT ![t][k] = "held"] ELSE object
  /\ unheld' = IF answered THEN unheld ELSE unheld \cup {<<t, k>>}
  /\ UNCHANGED <<route, rows, clock, recon, asking, holds, bounds>>

\* prepareInstagram
ContainerCreated(w) ==
  LET t == attempt[w].t IN
  /\ At(w, {"container"}) /\ attempt[w].made # 0
  /\ Done(w) /\ Complete(w, t, [target[t] EXCEPT !.status = "prepared", !.ext = attempt[w].made])
  /\ UNCHANGED <<route, draft, fence, clock, object, recon, asking, holds, ghosts, bounds>>

\* instagramContainerReady and the ownership check behind it.
ContainerFinished(w) ==
  /\ At(w, {"ready"})
  /\ attempt' = [attempt EXCEPT ![w] = IF Holds(w) THEN [@ EXCEPT !.pc = "publish"] ELSE Idle]
  /\ UNCHANGED <<route, rows, clock, object, recon, asking, holds, ghosts, bounds>>

\* failVideoJob with InstagramContainerProcessingError: asked again later.
ContainerProcessing(w) ==
  LET t == attempt[w].t
      row == job[t]["publish"]
  IN
  /\ At(w, {"ready"}) /\ row.attempt + 1 < MaxAttempts /\ Done(w)
  /\ IF Holds(w)
       THEN /\ job' = [job EXCEPT ![t]["publish"] = Spent(@, "queued")]
            /\ target' = [target EXCEPT ![t].status = "prepared"]
       ELSE UNCHANGED <<job, target>>
  /\ UNCHANGED <<route, draft, fence, clock, object, recon, asking, holds, ghosts, bounds>>

\* failVideoJob with InstagramContainerInvalidError and an attempt left
\* (requeueInstagramPreparation): back to preparation, with a fresh budget there.
ContainerInvalid(w, class) ==
  LET t == attempt[w].t
      row == job[t]["publish"]
      again == [target EXCEPT ![t].status = "scheduled", ![t].ext = 0]
  IN
  /\ At(w, {"ready", "publish"}) /\ attempt[w].made = 0
  /\ AfterFailure(class, row.attempt) = "queued" /\ Done(w)
  /\ IF Holds(w)
       THEN /\ job' = [job EXCEPT ![t]["prepare"] = Requeued(@),
                                  ![t]["publish"] = Spent(@, "queued")]
            /\ target' = again /\ draft' = Refreshed(draft, again)
       ELSE UNCHANGED <<job, target, draft>>
  /\ UNCHANGED <<route, fence, clock, object, recon, asking, holds, ghosts, bounds>>

\* publishInstagram with the media id in hand.
ReelPublished(w) ==
  LET t == attempt[w].t IN
  /\ At(w, {"publish"}) /\ attempt[w].made # 0
  /\ Done(w) /\ Complete(w, t, [target[t] EXCEPT !.status = "published", !.ext = attempt[w].made])
  /\ draft' = IF Holds(w) THEN Refreshed(draft, target') ELSE draft
  /\ UNCHANGED <<route, fence, clock, object, recon, asking, holds, ghosts, bounds>>

\* MUTANT: what the provider has taken counts as what the platform shows.
ProviderAnsweredTaken(w) ==
  LET t == attempt[w].t
      k == attempt[w].made
  IN
  /\ At(w, {"send"}) /\ k # 0
  /\ Done(w) /\ Complete(w, t, [status |-> "published", ext |-> k, prov |-> k])
  /\ draft' = IF Holds(w) THEN Refreshed(draft, target') ELSE draft
  /\ UNCHANGED <<route, fence, clock, object, recon, asking, holds, ghosts, bounds>>
\* publishZernio: with the platform's link the Reel is published, without it
\* the provider has it and nobody has confirmed it.
ProviderAnswered(w) ==
  LET t == attempt[w].t
      k == attempt[w].made
  IN
  /\ At(w, {"send"}) /\ k # 0
  /\ IF object[t][k] = "public"
       THEN /\ Done(w) /\ Complete(w, t, [status |-> "published", ext |-> k, prov |-> k])
            /\ draft' = IF Holds(w) THEN Refreshed(draft, target') ELSE draft
            /\ UNCHANGED <<route, fence, clock, object, recon, asking, holds, ghosts, bounds>>
       ELSE RequireVerification(w, k) /\ UNCHANGED unheld

\* The answer never comes: AmbiguousPublicationError, whether or not it arrived.
Lost(w) ==
  /\ At(w, {"upload", "send", "publish"})
  /\ NamesOlderPost(attempt[w].t, attempt[w].kind) => "older_post" \in Faults
  /\ RequireVerification(w, target[attempt[w].t].prov)
  /\ unheld' = IF attempt[w].pc = "upload" THEN unheld \cup {<<attempt[w].t, attempt[w].made>>} ELSE unheld

\* The platform refuses, or a call that is safe to repeat is cut off.
Refused(w, class) ==
  /\ At(w, {"upload", "container", "send", "ready", "publish"})
  /\ attempt[w].made = 0 \/ attempt[w].pc = "container"
  /\ Fail(w, class)

\* The call did what it was asked, and outside ambiguousExternalMutation the
\* upload session does not answer (queryYouTubeUploadStatus), or an answer that
\* came is no JSON: an error like any other, which the queue may try again.
Unread(w, class) ==
  /\ "unread_answer" \in Faults
  /\ At(w, {"upload", "send", "publish"}) /\ attempt[w].made # 0
  /\ FailJob(w, class)
  /\ unheld' = IF attempt[w].pc = "upload" THEN unheld \cup {<<attempt[w].t, attempt[w].made>>} ELSE unheld

\* recoverVideoLocks: a lock nobody renews.  Unlike a failure it leaves the
\* waiting publication of a dead preparation alone.
Recover(t, kind) ==
  LET row == job[t][kind]
      doubt == MayHaveReachedAudience(kind, t)
      next == AfterFailure("unknown", row.attempt)
      tg == [target EXCEPT ![t].status = IF doubt THEN "verification_required"
               ELSE IF next = "queued" THEN "scheduled" ELSE "failed"]
  IN
  /\ row.status = "running"
  /\ NamesOlderPost(t, kind) => "older_post" \in Faults
  /\ "overlap" \in Faults \/ ~\E w \in Workers : Holds(w) /\ attempt[w].t = t /\ attempt[w].kind = kind
  /\ job' = [job EXCEPT ![t][kind] =
       Spent(row, IF doubt THEN "verification_required" ELSE next)]
  /\ target' = tg /\ draft' = Refreshed(draft, tg)
  /\ UNCHANGED <<route, fence, clock, object, actors, ghosts, bounds>>

\* pruneExpiredVideos, fenced on the status and deadline the sweep read; a
\* draft that never got a deadline falls under the same sweep by its age.
PrunableStatus == {"published", "partial", "cancelled", "editing"}
Prune ==
  /\ ~draft.pruned /\ draft.status \in PrunableStatus
  /\ draft' = [status |-> IF draft.status = "editing" THEN "cancelled" ELSE draft.status,
               retention |-> FALSE, pruned |-> TRUE]
  /\ UNCHANGED <<route, target, job, fence, clock, object, actors, ghosts, bounds>>

\* The process dies; what it had only in memory is gone.
Crash ==
  /\ crashes < MaxCrashes /\ crashes' = crashes + 1
  /\ attempt' = [w \in Workers |-> Idle] /\ recon' = Idle /\ asking' = Idle
  /\ unheld' = unheld \cup holds \cup
       {<<attempt[w].t, attempt[w].made>> : w \in {v \in Workers : At(v, {"upload", "hold"}) /\ attempt[v].made # 0}}
  /\ holds' = {}
  /\ UNCHANGED <<route, rows, clock, object, ops>>

-----------------------------------------------------------------------------
(* runPublicationReconciliation, the video half *)

\* MUTANT: the budget of questions is not looked at.
InDoubtForEver(row) == row.status = "verification_required"
InDoubt(row) == row.status = "verification_required" /\ row.reconcile < ReconcileMax
ReconClaim(t, kind) ==
  /\ recon = Idle
  /\ target[t].status = "verification_required" /\ InDoubt(job[t][kind])
  /\ job' = [job EXCEPT ![t][kind].lockedBy = "recon"]
  /\ recon' = [t |-> t, kind |-> kind, ext |-> target[t].ext, prov |-> target[t].prov, seen |-> "none"]
  /\ UNCHANGED <<route, draft, target, fence, clock, object, attempt, asking, holds, ghosts, bounds>>

Asked(row) == row.status = "verification_required" /\ row.lockedBy = "recon"

\* The object the sweep can ask about: an Instagram container is none.
Subject == IF route[recon.t] = "zernio" THEN recon.prov
           ELSE IF route[recon.t] = "youtube" THEN recon.ext ELSE 0
ReconAnswers ==
  /\ recon # Idle /\ recon.seen = "none" /\ Subject # 0
  /\ recon' = [recon EXCEPT !.seen = object[recon.t][Subject]]
  /\ UNCHANGED <<route, rows, clock, object, attempt, asking, holds, ghosts, bounds>>
\* What confirms the job: a public video, or an upload that exists.
Confirmed == \/ recon.seen = "public"
             \/ recon.seen # "none" /\ route[recon.t] = "youtube" /\ recon.kind = "prepare"

\* The job's fence first, and then the target, if it is still in doubt.
ReconConfirm ==
  LET t == recon.t
      status == IF recon.kind = "prepare" THEN "prepared" ELSE "published"
      tg == IF target[t].status = "verification_required"
              THEN [target EXCEPT ![t].status = status, ![t].ext = Subject] ELSE target
  IN
  /\ recon # Idle /\ Confirmed /\ recon' = Idle
  /\ IF \E k \in Kinds : Asked(job[t][k])
       THEN /\ job' = [job EXCEPT ![t] =
                 [k \in Kinds |-> IF Asked(@[k]) THEN Unlocked(@[k], "completed") ELSE @[k]]]
            /\ target' = tg /\ draft' = Refreshed(draft, tg)
       ELSE UNCHANGED <<job, target, draft>>
  /\ UNCHANGED <<route, fence, clock, object, attempt, asking, holds, ghosts, bounds>>

\* deferVideoReconciliation and escalateUnansweredVideo: no answer yet, an
\* error, or a provider's refusal, which is no permission to send again.
ReconDefer ==
  LET t == recon.t IN
  /\ recon # Idle /\ recon' = Idle
  /\ job' = IF Asked(job[t][recon.kind])
              THEN [job EXCEPT ![t][recon.kind].lockedBy = "none", ![t][recon.kind].reconcile = @ + 1]
              ELSE job
  /\ UNCHANGED <<route, draft, target, fence, clock, object, attempt, asking, holds, ghosts, bounds>>

-----------------------------------------------------------------------------
(* Operators *)

Issued(op) == op \in Operations /\ ops < MaxOps /\ ops' = ops + 1

\* replaceVideoTargets: only while every target is still being edited.
ChooseTargets(chosen) ==
  /\ Issued("choose") /\ chosen # {}
  /\ \A t \in Targets : target[t].status \in {"absent", "editing"}
  /\ target' = [t \in Targets |-> IF t \in chosen THEN [NoTarget EXCEPT !.status = "editing"] ELSE NoTarget]
  /\ job' = [t \in Targets |-> [k \in Kinds |-> NoRow]]
  /\ draft' = [draft EXCEPT !.status = "editing"]
  /\ UNCHANGED <<route, fence, clock, object, actors, ghosts, crashes>>

\* removeVideoTarget; the last one takes the draft with it.
Remove(t) ==
  LET tg == [target EXCEPT ![t] = NoTarget] IN
  /\ Issued("remove") /\ target[t].status = "editing"
  /\ target' = tg
  /\ job' = [job EXCEPT ![t] = [k \in Kinds |-> NoRow]]
  /\ draft' = IF Present(tg) = {} THEN [draft EXCEPT !.status = "cancelled", !.retention = TRUE]
              ELSE Refreshed(draft, tg)
  /\ UNCHANGED <<route, fence, clock, object, actors, ghosts, crashes>>

\* insertVideoJob for both kinds; a running job of the target refuses it all.
\* Every publish runAt is a new request id; "early" is one of a retry's own.
Arm(ts, kinds, early) ==
  /\ \A t \in ts, k \in kinds : job[t][k].status # "running"
  /\ \A t \in ts : fence[t] < MaxObjects
  /\ job' = [t \in Targets |-> [k \in Kinds |->
               IF t \in ts /\ k \in kinds THEN Requeued(job[t][k]) ELSE job[t][k]]]
  /\ fence' = [t \in Targets |-> IF t \in ts THEN fence[t] + 1 ELSE fence[t]]
  /\ due' = [t \in Targets |-> IF t \in ts THEN FALSE ELSE due[t]]
  /\ soon' = [t \in Targets |-> IF t \in ts THEN early ELSE soon[t]]

\* scheduleVideo
Schedule(ts) ==
  /\ Issued("schedule") /\ ts # {}
  /\ \A t \in ts : target[t].status \in Schedulable
  /\ Arm(ts, Kinds, FALSE)
  /\ past' = [t \in Targets |-> IF t \in ts THEN FALSE ELSE past[t]]
  /\ target' = [t \in Targets |-> IF t \in ts THEN [target[t] EXCEPT !.status = "scheduled"] ELSE target[t]]
  /\ draft' = [draft EXCEPT !.status = "scheduled", !.retention = FALSE]
  /\ UNCHANGED <<route, object, actors, ghosts, crashes>>

\* MUTANT: the file's deadline stands while the target is sent again.
RetryKeepingDeadline(t, tg) ==
  LET continues == route[t] = "youtube" /\ tg.ext # 0 IN
  /\ tg.status = "failed"
  /\ Arm({t}, IF continues THEN {"publish"} ELSE Kinds, TRUE)
  /\ target' = [target EXCEPT ![t] =
       IF continues THEN [tg EXCEPT !.status = "prepared"]
       ELSE [tg EXCEPT !.status = "scheduled", !.ext = 0]]
  /\ draft' = [draft EXCEPT !.status = "scheduled"]
\* retryVideoTarget, its transaction: an upload that survived is continued
\* from, anything else starts over; the provider's post id stays on the row.
RetryWrite(t, tg) ==
  LET continues == route[t] = "youtube" /\ tg.ext # 0 IN
  /\ tg.status = "failed"
  /\ Arm({t}, IF continues THEN {"publish"} ELSE Kinds, TRUE)
  /\ target' = [target EXCEPT ![t] =
       IF continues THEN [tg EXCEPT !.status = "prepared"]
       ELSE [tg EXCEPT !.status = "scheduled", !.ext = 0]]
  /\ draft' = [draft EXCEPT !.status = "scheduled", !.retention = FALSE]

\* askProviderBeforeRetry has somebody to ask.
Askable(t) == route[t] = "zernio" /\ target[t].prov # 0 /\ target[t].ext = 0

Retry(t) ==
  /\ Issued("retry") /\ ~Askable(t) /\ RetryWrite(t, target[t])
  /\ UNCHANGED <<route, past, object, actors, ghosts, crashes>>

Ask(op, t) ==
  asking' = [op |-> op, t |-> t, status |-> target[t].status, prov |-> target[t].prov,
             fence |-> fence[t], seen |-> "none"]

\* retryVideoTarget asks first when the provider still holds a post.
AskBeforeRetry(t) ==
  /\ asking = Idle /\ Askable(t)
  /\ Issued("retry") /\ target[t].status \in {"failed", "verification_required"}
  /\ Ask("retry", t)
  /\ UNCHANGED <<route, rows, clock, object, attempt, recon, holds, ghosts, crashes>>

\* settleVideoTarget: only a provider can be asked again without publishing again.
Settle(t) ==
  /\ asking = Idle /\ route[t] = "zernio" /\ target[t].ext = 0 /\ fence[t] > 0
  /\ \/ Issued("settle") /\ target[t].status \in {"verification_required", "published"}
     \/ Issued("settle_failed") /\ target[t].status = "failed"
  /\ Ask("settle", t)
  /\ UNCHANGED <<route, rows, clock, object, attempt, recon, holds, ghosts, crashes>>

\* The provider's answer about its post; without a post id the publication is
\* requested again under its request id, and the post it already has is returned.
AskAnswers ==
  LET t == asking.t
      k == IF asking.prov # 0 THEN asking.prov ELSE asking.fence
  IN
  /\ asking # Idle /\ asking.seen = "none"
  /\ object' = [object EXCEPT ![t][k] = IF @ = "none" THEN "accepted" ELSE @]
  /\ asking' = [asking EXCEPT !.seen = object'[t][k]]
  /\ UNCHANGED <<route, rows, clock, attempt, recon, holds, ghosts, bounds>>

\* record: published with a link, failed on the provider's refusal (which only
\* a question about a post can bring), otherwise still in doubt.
Recorded(k, seen, refusable) ==
  [ext |-> IF seen = "public" THEN k ELSE 0, prov |-> k,
   status |-> IF seen = "public" THEN "published"
              ELSE IF refusable /\ seen = "refused" THEN "failed" ELSE "verification_required"]

\* MUTANT: it is written over whatever is there.
StillAskedOfAnything == target[asking.t].status # "absent"
\* The answer is written only over the state the question was asked in.
StillAsked == target[asking.t].status = asking.status /\ target[asking.t].ext = 0

AnswerRecorded ==
  LET t == asking.t
      row == Recorded(IF asking.prov # 0 THEN asking.prov ELSE asking.fence, asking.seen,
                      asking.prov # 0)
      tg == [target EXCEPT ![t] = row]
  IN
  /\ asking # Idle /\ asking.seen # "none" /\ StillAsked /\ asking' = Idle
  /\ IF asking.op = "retry" /\ row.status = "failed" /\ ~Running(t) /\ fence[t] < MaxObjects
       THEN RetryWrite(t, row)
       ELSE target' = tg /\ draft' = Refreshed(draft, tg) /\ UNCHANGED <<job, fence, due, soon>>
  /\ UNCHANGED <<route, past, object, attempt, recon, holds, ghosts, bounds>>

\* The provider cannot be reached, or something else settled the target.
AnswerDropped ==
  /\ asking # Idle /\ asking' = Idle
  /\ UNCHANGED <<route, rows, clock, object, attempt, recon, holds, ghosts, bounds>>

\* settleVideoTarget with what the operator sees on the platform.
SettleKnown(t, k) ==
  LET tg == [target EXCEPT ![t] = [status |-> "published", ext |-> k, prov |-> @.prov]] IN
  /\ Issued("settle") /\ route[t] = "zernio" /\ object[t][k] = "public"
  /\ target[t].ext = 0 /\ target[t].status \in {"verification_required", "published", "failed"}
  /\ target' = tg /\ draft' = Refreshed(draft, tg)
  /\ UNCHANGED <<route, job, fence, clock, object, actors, ghosts, crashes>>

\* cancelVideo; uploads whose time has not come are then kept private.
Cancel ==
  /\ Issued("cancel") /\ holds = {} /\ ~\E t \in Targets : Running(t)
  /\ holds' = {<<t, target[t].ext>> : t \in {u \in Targets :
       route[u] = "youtube" /\ target[u].status # "published" /\ target[u].ext # 0
       /\ fence[u] > 0 /\ ~past[u]}}
  /\ job' = [t \in Targets |-> [k \in Kinds |->
       IF job[t][k].status = "queued" THEN Unlocked(job[t][k], "cancelled") ELSE job[t][k]]]
  /\ target' = [t \in Targets |->
       IF target[t].status \in {"absent", "published"} THEN target[t]
       ELSE [target[t] EXCEPT !.status = "cancelled"]]
  /\ draft' = [draft EXCEPT !.status = "cancelled", !.retention = TRUE]
  /\ UNCHANGED <<route, fence, clock, object, attempt, recon, asking, ghosts, crashes>>

\* keepYouTubeUploadPrivate for one of them; a failure is only reported.
Hold(t, k, answered) ==
  /\ <<t, k>> \in holds /\ holds' = holds \ {<<t, k>>}
  /\ object' = IF answered THEN [object EXCEPT ![t][k] = "held"] ELSE object
  /\ unheld' = IF answered THEN unheld ELSE unheld \cup {<<t, k>>}
  /\ UNCHANGED <<route, rows, clock, attempt, recon, asking, bounds>>

-----------------------------------------------------------------------------

Working(w) ==
  \/ \E t \in Targets, kind \in Kinds : Claim(w, t, kind)
  \/ ExecuteNothing(w) \/ ExecuteUnready(w) \/ ExecuteCheckpoint(w)
  \/ ExecuteYouTubePublish(w) \/ ExecuteCall(w)
  \/ Uploaded(w) \/ ContainerCreated(w) \/ ContainerFinished(w) \/ ContainerProcessing(w)
  \/ ReelPublished(w) \/ ProviderAnswered(w) \/ Lost(w)
  \/ \E class \in ErrorClasses : Refused(w, class) \/ Unread(w, class) \/ ContainerInvalid(w, class)
  \/ \E answered \in BOOLEAN : KeepPrivate(w, answered)
Sweeping ==
  \/ \E t \in Targets, kind \in Kinds : Recover(t, kind) \/ ReconClaim(t, kind)
  \/ ReconConfirm \/ ReconDefer \/ Prune
Platform ==
  \/ \E w \in Workers : Reaches(w)
  \/ \E t \in Targets, k \in ObjectIds : GoesPublic(t, k) \/ RefusedByPlatform(t, k)
  \/ AskAnswers \/ ReconAnswers
  \/ \E t \in Targets : TimePasses(t) \/ RetryDue(t)
Operating ==
  \/ \E chosen \in SUBSET Targets : ChooseTargets(chosen) \/ Schedule(chosen)
  \/ \E t \in Targets : Remove(t) \/ Retry(t) \/ AskBeforeRetry(t) \/ Settle(t)
  \/ \E t \in Targets, k \in ObjectIds : SettleKnown(t, k)
  \/ \E t \in Targets, k \in ObjectIds, answered \in BOOLEAN : Hold(t, k, answered)
  \/ AnswerRecorded \/ AnswerDropped \/ Cancel
Next ==
  \/ \E w \in Workers : Working(w)
  \/ Sweeping \/ Platform \/ Operating \/ Crash
Spec == Init /\ [][Next]_vars

\* The worker loop, the sweeps and the clock keep running; calls end, because
\* every one has a timeout.  Operators and crashes are owed nothing.
Fairness ==
  /\ \A w \in Workers : WF_vars(Working(w))
  /\ \A t \in Targets, kind \in Kinds : WF_vars(Recover(t, kind))
  /\ \A t \in Targets : WF_vars(TimePasses(t)) /\ WF_vars(RetryDue(t))
FairSpec == Spec /\ Fairness

-----------------------------------------------------------------------------
(* Properties *)

\* Every variable holds what its column or record may hold.
TypeOK ==
  /\ route \in [Targets -> AllRoutes]
  /\ draft \in DraftRow /\ target \in [Targets -> TargetRow]
  /\ job \in [Targets -> [Kinds -> JobRow]] /\ fence \in [Targets -> 0 .. MaxObjects]
  /\ due \in [Targets -> BOOLEAN] /\ past \in [Targets -> BOOLEAN] /\ soon \in [Targets -> BOOLEAN]
  /\ object \in [Targets -> [ObjectIds -> ObjectStates]]
  /\ attempt \in [Workers -> Attempt \cup {Idle}]
  /\ recon \in Question \cup {Idle} /\ asking \in Command \cup {Idle}
  /\ holds \subseteq Targets \X ObjectIds
  /\ unheld \subseteq Targets \X (0 .. MaxObjects)
  /\ ops \in 0 .. MaxOps /\ crashes \in 0 .. MaxCrashes

\* A target that says published names something the audience has, or a YouTube
\* upload that goes public by itself: publishYouTube settles locally, at the
\* scheduled moment, or after a retry possibly before it.
PublishedReelIsLive ==
  \A t \in Targets : target[t].status = "published" =>
    /\ target[t].ext # 0
    /\ \/ object[t][target[t].ext] = "public"
       \/ /\ route[t] = "youtube" /\ object[t][target[t].ext] = "scheduled"
          /\ past[t] \/ soon[t]

\* "Failed" is what a retry sends again, so it is never said of a target whose
\* video is out or on its way out.
FailedIsNotOut ==
  \A t \in Targets : target[t].status = "failed" =>
    \A k \in ObjectIds : object[t][k] \notin {"public", "accepted"}

\* The status of a target is the truth about the platform, both ways, whatever
\* was lost, repeated or recovered (failVideoJob, recoverVideoLocks, record,
\* completePublish).
TargetTellsTheTruth == PublishedReelIsLive /\ FailedIsNotOut

\* What an audience has or will get of a target, unless somebody stops it.
GoingOut(t) ==
  {k \in ObjectIds : \/ object[t][k] \in {"public", "accepted"}
                     \/ route[t] = "youtube" /\ object[t][k] = "scheduled"}
\* Crashes, lost answers, retries and settlements never put one video on a
\* platform twice.
OneReel == \A t \in Targets : Cardinality(GoingOut(t)) <= 1

\* A cancelled YouTube upload whose time has not come is private for good, or
\* the call that makes it so is still to be made, or it failed and that was
\* reported (cancelVideo, prepareYouTube after a lost lock).
CancelledIsHeld ==
  \A t \in Targets : target[t].status = "cancelled" /\ ~past[t] =>
    \A k \in ObjectIds : object[t][k] = "scheduled" =>
      <<t, k>> \in holds \cup unheld \/ InHand(t, k)

\* A draft called off leaves no YouTube upload to go public at a moment still to
\* come, unless a call that should have held it failed (cancelVideo: "Private
\* scheduled uploads which can be safely kept private").
CalledOffIsHeld ==
  draft.status = "cancelled" => \A t \in Targets : ~past[t] =>
    \A k \in ObjectIds : object[t][k] = "scheduled" =>
      <<t, k>> \in holds \cup unheld \/ InHand(t, k)

\* The source file has a deletion deadline only while no target needs it
\* (refreshVideoDraftStatus against every command that brings a target back).
SourceKept ==
  draft.retention /\ draft.status # "editing" => StatusesOf(target) \subseteq FinalStatus

\* What is published stays published under the id it was confirmed with: no
\* answer taken earlier, no lost lock and no command says otherwise.
PublishedStays ==
  [][\A t \in Targets : target[t].status = "published" => target'[t] = target[t]]_vars

\* A prepared target still has the job that will publish it.
PreparedGoesOut ==
  \A t \in Targets : target[t].status = "prepared" =>
    job[t]["publish"].status \in {"queued", "running"}

\* However many attempts fail, time out or die, the retries of a video end.
VideoJobsEnd ==
  <>[](\A t \in Targets, k \in Kinds : job[t][k].status \notin {"queued", "running"})
=============================================================================
