---------------------------- MODULE PublishQueue ----------------------------
(***************************************************************************)
(* The delivery queue of one publication: the publish_jobs rows, the       *)
(* publication_targets rows that mirror them, the operator's standing      *)
(* "cancel the rest", and every attempt that is delivering a row.          *)
(*                                                                         *)
(* Two publications share no row, so one is modelled; what they do share   *)
(* (the credential breaker, "this platform published something else        *)
(* since") appears as a free choice of the step that reads it.  A due time *)
(* is a delay and nothing else: a queued row may be claimed at any moment. *)
(*                                                                         *)
(* Each action is one synchronous stretch of the process: one SQLite       *)
(* transaction with the writes around it, or one answer of a platform.     *)
(***************************************************************************)
EXTENDS Naturals, FiniteSets

CONSTANTS
  Targets,            \* the delivery targets of the publication
  Workers,            \* delivery attempts that may be in flight together
  MaxJobs,            \* BOUND: rows a target may ever have
  Adapter,            \* how a target's platform is called, see AdapterKinds
  Parts,              \* posts the publication becomes on a target
  MaxAttempts,        \* publishRetryPolicy().maxAttempts
  PartialMaxAttempts, \* PUBLISH_PARTIAL_MAX_ATTEMPTS
  ReconcileMax,       \* RECONCILE_MAX_ATTEMPTS
  Operations,         \* what operators do in this instance
  Faults,             \* what goes wrong beyond crashes and lost answers
  MaxOps,             \* BOUND: operator commands
  MaxCrashes          \* BOUND: process restarts

\* "single" is one call; "chain" is several, and what went out is handed back
\* when one is refused (x.ts); "staged" is one call per attempt (threads.ts);
\* "split" is several, forgotten when one is refused (discord.ts).
AdapterKinds == {"single", "chain", "staged", "split"}
AllOperations == {"plan", "cancel_rest", "cancel_draft", "retry", "republish",
                  "resend", "skip", "replan_skipped", "settle", "resume_from"}
\* "lease_lapse": a live attempt's lease ages out (a stalled event loop, a
\* restart's short grace).  "unreadable_answer": the platform accepted the
\* call and the body of its answer could not be read.
AllFaults == {"lease_lapse", "unreadable_answer"}

JobIds == 1 .. MaxJobs
Least(a, b) == IF a <= b THEN a ELSE b
Most(a, b) == IF a <= b THEN b ELSE a

ASSUME WorkersAssumption == "none" \notin Workers /\ "recon" \notin Workers
ASSUME BoundsAssumption ==
  /\ MaxJobs \in Nat /\ MaxAttempts \in Nat /\ PartialMaxAttempts \in Nat
  /\ ReconcileMax \in Nat /\ MaxOps \in Nat /\ MaxCrashes \in Nat
ASSUME AdapterAssumption ==
  /\ Adapter \in [Targets -> AdapterKinds]
  /\ Parts \in [Targets -> Nat \ {0}]
ASSUME ChoicesAssumption == Operations \subseteq AllOperations /\ Faults \subseteq AllFaults

\* Above every budget the transitions no longer look at the count.
AttemptCap == Most(2, Most(MaxAttempts, PartialMaxAttempts))
Spend(attempt) == Least(attempt + 1, AttemptCap)

JobStatus == {"queued", "publishing", "published", "failed", "skipped",
              "cancelled", "verification_required"}
DraftStatus == {"ready", "scheduled", "published", "failed", "cancelled"}
Phases == {"none", "validate", "prepare", "publish", "verify"}
ErrorClasses == {"transient", "unknown", "permanent"}
Pcs == {"idle", "claimed", "validate", "prepare", "publish", "verify"}
Results == {"none", "ok", "partial", "deferred", "failed", "skipped"}

VARIABLES
  jobs,      \* publish_jobs: target -> job id -> row or NoJob
  nextJob,   \* AUTOINCREMENT of job_id, per target
  mirror,    \* publication_targets: status, and whether it names a post
  declared,  \* a publication_cancellations row exists
  draft,     \* drafts.status
  posted,    \* drafts.postId is set
  attempt,   \* worker -> the delivery attempt it runs
  recon,     \* the reconciliation sweep's current question
  live,      \* GHOST: target -> part -> copies the audience can see, 0..2
  begun,     \* GHOST: targets already part-way out when the cancel was declared
  abandoned, \* GHOST: targets given up on and not asked for since
  ops,       \* commands issued, bounded by MaxOps
  crashes    \* restarts, bounded by MaxCrashes

queue == <<jobs, nextJob, mirror>>
studio == <<declared, draft, posted>>
ghosts == <<begun, abandoned>>
vars == <<jobs, nextJob, mirror, declared, draft, posted, attempt, recon, live,
          begun, abandoned, ops, crashes>>

Row == [status: JobStatus \cup {"no_row"}, phase: Phases, lockedBy: Workers \cup {"none", "recon"},
        stale: BOOLEAN, attempt: 0 .. AttemptCap, reconcile: 0 .. ReconcileMax,
        resume: Nat, progress: Nat]
MirrorRow == [status: JobStatus \cup {"absent"}, ext: BOOLEAN]
IdleAttempt == [pc |-> "idle"]
Attempt == [pc: Pcs \ {"idle"}, target: Targets, id: JobIds, from: Nat, sent: Nat,
            result: Results, zombie: BOOLEAN]
IdleRecon == [pc |-> "idle"]
Question == [pc: {"asking"}, target: Targets, id: JobIds, ext: BOOLEAN]

-----------------------------------------------------------------------------
(* Rows *)

NewRow == [status |-> "queued", phase |-> "none", lockedBy |-> "none",
           stale |-> FALSE, attempt |-> 0, reconcile |-> 0, resume |-> 0,
           progress |-> 0]
NoJob == [NewRow EXCEPT !.status = "no_row"]

HasRow(t, i) == jobs[t][i].status # "no_row"
Rows(t) == {i \in JobIds : HasRow(t, i)}
\* The newest row of a target, what every operator command reads.
Latest(t, i) == HasRow(t, i) /\ \A k \in Rows(t) : k <= i

Unlocked(row) == [row EXCEPT !.lockedBy = "none", !.stale = FALSE]
Settled(row, status) == [Unlocked(row) EXCEPT !.status = status, !.phase = "none"]

Superseded == {"queued", "failed", "verification_required"}
\* deleteSupersededJobs: the other rows of the same target go.
ClearSuperseded(rows, i) ==
  [k \in JobIds |-> IF k # i /\ rows[k].status \in Superseded THEN NoJob ELSE rows[k]]

\* UNIQUE(publication_key, target, status).
UniqueIndex(js) ==
  \A t \in Targets : \A i, k \in JobIds :
    (i # k /\ js[t][i].status # "no_row") => js[t][i].status # js[t][k].status

\* publicationStatus over every row of the publication, and the fold of it
\* into the draft: a cancelled draft is left alone, and so is one with work left.
StatusesOf(js) ==
  {js[t][i].status : t \in Targets, i \in JobIds} \ {"no_row"}
Refreshed(js, d) ==
  LET found == StatusesOf(js) IN
    IF d = "cancelled" \/ found = {} \/ found \cap {"queued", "publishing"} # {}
      THEN d
    ELSE IF found \cap {"failed", "verification_required"} # {} THEN "failed"
    ELSE IF found = {"cancelled"} THEN "cancelled" ELSE "published"

\* MUTANT: only the call itself counts as having reached anyone.
OnlyPublishReached(phase) == phase = "publish"
\* mayHaveReachedAudience
MayHaveReachedAudience(phase) == phase \notin {"none", "validate", "prepare"}

\* MUTANT: what is not permanent is tried again, whatever was spent.
RetryForEver(class, spent) == IF class = "permanent" THEN "failed" ELSE "queued"
\* failedJobTransition: its budget is spent by the attempt that failed.
AfterFailure(class, spent) ==
  IF \/ class = "transient" /\ spent + 1 < MaxAttempts
     \/ class = "unknown" /\ spent + 1 < 2
  THEN "queued" ELSE "failed"

-----------------------------------------------------------------------------
(* Attempts *)

Idle(w) == attempt[w] = IdleAttempt
\* The fence every write of an attempt carries: the row is still its own.
Holds(w) ==
  /\ ~Idle(w)
  /\ LET row == jobs[attempt[w].target][attempt[w].id] IN
       row.status = "publishing" /\ row.lockedBy = w
\* A lock id is a uuid of its own: a worker's name returns only when no row
\* carries it any more.
LockFree(w) == \A t \in Targets, i \in JobIds : jobs[t][i].lockedBy # w

InFlight(w, t) == ~Idle(w) /\ attempt[w].target = t
AtPlatform(w, t) == InFlight(w, t) /\ attempt[w].pc = "publish"

Init ==
  /\ jobs = [t \in Targets |-> [i \in JobIds |-> NoJob]]
  /\ nextJob = [t \in Targets |-> 1]
  /\ mirror = [t \in Targets |-> [status |-> "absent", ext |-> FALSE]]
  /\ declared = FALSE /\ draft = "ready" /\ posted = FALSE
  /\ attempt = [w \in Workers |-> IdleAttempt]
  /\ recon = IdleRecon
  /\ live = [t \in Targets |-> [p \in 1 .. Parts[t] |-> 0]]
  /\ begun = {} /\ abandoned = {}
  /\ ops = 0 /\ crashes = 0

\* MUTANT: the claim does not ask whether the delivery was cancelled.
ClaimRegardless(row) == TRUE
\* deliveryNotCancelled, asked of a row with nothing to finish.
NotCancelled(row) == declared => row.resume > 0
\* The target names a post and the row says of none which part went out.
AlreadyDelivered(t, row) == mirror[t].ext /\ row.resume = 0

\* claimPublishJob, the claim itself.
Claim(w, t, i) ==
  LET row == jobs[t][i] IN
  /\ Idle(w) /\ LockFree(w)
  /\ row.status = "queued"
  /\ ~AlreadyDelivered(t, row) /\ NotCancelled(row)
  /\ jobs' = [jobs EXCEPT ![t][i] = [row EXCEPT !.status = "publishing", !.lockedBy = w,
                                               !.stale = FALSE, !.phase = "none"]]
  /\ mirror' = [mirror EXCEPT ![t].status = "publishing"]
  /\ attempt' = [attempt EXCEPT ![w] =
       [pc |-> "claimed", target |-> t, id |-> i,
        from |-> IF Adapter[t] = "staged" THEN row.progress ELSE row.resume,
        sent |-> 0, result |-> "none", zombie |-> FALSE]]
  /\ UNCHANGED <<nextJob, studio, recon, live, ghosts, ops, crashes>>

\* claimPublishJob, the target already names a post and the row carries
\* nothing to continue from.
ClaimRefuseDuplicate(t, i) ==
  /\ jobs[t][i].status = "queued"
  /\ AlreadyDelivered(t, jobs[t][i])
  /\ jobs' = [jobs EXCEPT ![t][i] = [Unlocked(@) EXCEPT !.status = "verification_required"]]
  /\ mirror' = [mirror EXCEPT ![t].status = "verification_required"]
  /\ UNCHANGED <<nextJob, studio, attempt, recon, live, ghosts, ops, crashes>>

\* claimPublishJob, the claim lost to the cancellation.  The unique index may
\* refuse the write, and then the transaction leaves nothing behind.
ClaimStopCancelled(t, i) ==
  /\ jobs[t][i].status = "queued"
  /\ ~AlreadyDelivered(t, jobs[t][i]) /\ ~NotCancelled(jobs[t][i])
  /\ jobs' = [jobs EXCEPT ![t][i] = Settled(@, "cancelled")]
  /\ UniqueIndex(jobs')
  /\ mirror' = [mirror EXCEPT ![t].status = "cancelled"]
  /\ UNCHANGED <<nextJob, studio, attempt, recon, live, ghosts, ops, crashes>>

\* MUTANT: the target row is written whether or not the lease still holds.
SettleUnfenced(w, row, image, superseding, refreshing) ==
  LET t == attempt[w].target
      i == attempt[w].id
      written == [jobs[t] EXCEPT ![i] = row]
  IN /\ mirror' = [mirror EXCEPT ![t] = image]
     /\ IF Holds(w)
        THEN /\ jobs' = [jobs EXCEPT ![t] = IF superseding THEN ClearSuperseded(written, i)
                                            ELSE written]
             /\ draft' = IF refreshing THEN Refreshed(jobs', draft) ELSE draft
        ELSE UNCHANGED <<jobs, draft>>

\* A settlement: fenced by the lease, mirrored, and folded into the draft when
\* the handler does so.  A lost lease rolls all of it back.
Settle(w, row, image, superseding, refreshing) ==
  LET t == attempt[w].target
      i == attempt[w].id
      written == [jobs[t] EXCEPT ![i] = row]
  IN IF Holds(w)
     THEN /\ jobs' = [jobs EXCEPT ![t] = IF superseding THEN ClearSuperseded(written, i)
                                         ELSE written]
          /\ mirror' = [mirror EXCEPT ![t] = image]
          /\ draft' = IF refreshing THEN Refreshed(jobs', draft) ELSE draft
     ELSE UNCHANGED <<jobs, mirror, draft>>

OwnRow(w) == jobs[attempt[w].target][attempt[w].id]
OwnMirror(w) == mirror[attempt[w].target]

\* failPublishJob
Fail(w, class) ==
  LET status == AfterFailure(class, OwnRow(w).attempt) IN
  Settle(w, [Settled(OwnRow(w), status) EXCEPT !.attempt = Spend(@)],
         [OwnMirror(w) EXCEPT !.status = status], TRUE, status = "failed")

\* MUTANTS: an ambiguous answer is a failure like any other, tried again or not.
RetryAmbiguous(w) == Fail(w, "unknown")
GiveUpAmbiguous(w) == Fail(w, "permanent")

\* requirePublishVerification
RequireVerification(w) ==
  Settle(w, [Settled(OwnRow(w), "verification_required") EXCEPT !.attempt = Spend(@)],
         [OwnMirror(w) EXCEPT !.status = "verification_required"], TRUE, TRUE)

\* forcePublishJobVerification: no row is superseded, and the evidence of a
\* result, when there is one, replaces the reference the target holds.
ForceVerification(w, ext) ==
  Settle(w, [Settled(OwnRow(w), "verification_required") EXCEPT !.attempt = Spend(@)],
         [status |-> "verification_required", ext |-> ext], FALSE, TRUE)

Retire(w) == attempt' = [attempt EXCEPT ![w] = IdleAttempt]
SettleFrame == UNCHANGED <<nextJob, declared, posted, recon, live, ghosts, ops, crashes>>

NextPc == [claimed |-> "validate", validate |-> "prepare", prepare |-> "publish",
           publish |-> "verify"]

\* timedDeliveryPhase: the lease check and the phase write are one statement.
EnterPhase(w) ==
  LET a == attempt[w] IN
  /\ ~Idle(w) /\ a.pc # "verify"
  /\ a.pc = "publish" <=> a.result # "none"
  /\ Holds(w)
  /\ jobs' = [jobs EXCEPT ![a.target][a.id].phase = NextPc[a.pc]]
  /\ attempt' = [attempt EXCEPT ![w].pc = NextPc[a.pc]]
  /\ UNCHANGED <<nextJob, mirror, studio, recon, live, ghosts, ops, crashes>>

\* ... and an attempt that lost its lease stops there, its failure discarded.
LeaseLost(w) ==
  /\ ~Idle(w) /\ attempt[w].pc # "verify"
  /\ attempt[w].pc = "publish" <=> attempt[w].result # "none"
  /\ ~Holds(w)
  /\ Retire(w)
  /\ UNCHANGED <<queue, studio, recon, live, ghosts, ops, crashes>>

\* The adapter, the breaker or the media refuses before the platform is asked.
FailBeforeCall(w, class) ==
  /\ attempt[w].pc \in {"claimed", "validate", "prepare"}
  /\ Fail(w, class)
  /\ Retire(w) /\ SettleFrame

\* The platform answers.  Posts go out in order, the first one missing next.
PublishedSoFar(w) == attempt[w].from + attempt[w].sent
NextPart(w) == PublishedSoFar(w) + 1
Calling(w) == attempt[w].pc = "publish" /\ attempt[w].result = "none"
Copies(n) == Least(n + 1, 2)
Lands(w) == live' = [live EXCEPT ![attempt[w].target][NextPart(w)] = Copies(@)]

\* The platform takes the next post.  An attempt the worker stopped waiting
\* for has nobody to report to.
CallAccepted(w) ==
  LET a == attempt[w]
      last == NextPart(w) = Parts[a.target]
      result == IF last THEN "ok" ELSE IF Adapter[a.target] = "staged" THEN "deferred" ELSE "none"
  IN
  /\ Calling(w) /\ NextPart(w) <= Parts[a.target]
  /\ Lands(w)
  /\ attempt' = [attempt EXCEPT ![w] =
       IF a.zombie /\ result # "none" THEN IdleAttempt
       ELSE [a EXCEPT !.sent = @ + 1, !.result = result]]
  /\ UNCHANGED <<queue, studio, recon, ghosts, ops, crashes>>

\* An error the adapter throws from a call: ambiguous, or of a class.  Only a
\* chain that already has posts out turns it into a partial result.
Refused(w, class) ==
  IF attempt[w].zombie
  THEN Retire(w) /\ UNCHANGED <<jobs, mirror, draft>>
  ELSE IF Adapter[attempt[w].target] = "chain" /\ PublishedSoFar(w) > 0
  THEN /\ attempt' = [attempt EXCEPT ![w].result = "partial"]
       /\ UNCHANGED <<jobs, mirror, draft>>
  ELSE Fail(w, class) /\ Retire(w)

CallRejected(w, class) ==
  /\ Calling(w)
  /\ Refused(w, class)
  /\ SettleFrame

\* ambiguousExternalMutation: the connection is lost, with or without the post.
CallLost(w, landed) ==
  /\ Calling(w) /\ NextPart(w) <= Parts[attempt[w].target]
  /\ IF landed THEN Lands(w) ELSE UNCHANGED live
  /\ IF attempt[w].zombie THEN UNCHANGED <<jobs, mirror, draft>> ELSE RequireVerification(w)
  /\ Retire(w)
  /\ UNCHANGED <<nextJob, declared, posted, recon, ghosts, ops, crashes>>

\* FAULT: the post is out and the body of the answer never arrives.  It is not
\* an ExternalTransportError, so it is an error like any other.
CallUnreadable(w, class) ==
  /\ "unreadable_answer" \in Faults
  /\ Calling(w) /\ NextPart(w) <= Parts[attempt[w].target]
  /\ Lands(w)
  /\ Refused(w, class)
  /\ UNCHANGED <<nextJob, declared, posted, recon, ghosts, ops, crashes>>

\* The adapter hands back a refusal instead of throwing one: no credentials to
\* call with, text over the limit, an answer that says no.
Refusals == {"failed", "skipped"}
CallDeclined(w, refusal) ==
  LET kind == Adapter[attempt[w].target] IN
  /\ Calling(w) /\ attempt[w].sent = 0 /\ ~attempt[w].zombie
  /\ kind # "split"
  /\ kind = "chain" => refusal = "failed" /\ attempt[w].from = 0
  /\ attempt' = [attempt EXCEPT ![w].result = refusal]
  /\ UNCHANGED <<queue, studio, recon, live, ghosts, ops, crashes>>

\* withinPublishTimeout: the worker stops waiting and settles from the phase
\* it reads off the row.  Its call is not cancelled, and may still land.
Timeout(w) ==
  LET a == attempt[w] IN
  /\ ~Idle(w) /\ ~a.zombie /\ a.pc # "claimed"
  /\ IF Holds(w) /\ MayHaveReachedAudience(OwnRow(w).phase)
     THEN RequireVerification(w) ELSE Fail(w, "permanent")
  /\ attempt' = [attempt EXCEPT ![w] =
       IF a.pc = "publish" /\ a.result = "none" THEN [a EXCEPT !.zombie = TRUE]
       ELSE IdleAttempt]
  /\ SettleFrame

\* completePublishJob: the adapter deferred, and spends no attempt.
CompleteDeferred(w) ==
  /\ attempt[w].pc = "verify" /\ attempt[w].result = "deferred"
  /\ Settle(w, [Settled(OwnRow(w), "queued") EXCEPT !.progress = PublishedSoFar(w),
                                                   !.resume = PublishedSoFar(w)],
            [OwnMirror(w) EXCEPT !.status = "queued"], FALSE, FALSE)
  /\ Retire(w) /\ SettleFrame

\* settlePartialPublication.  answered: the platform answered something since
\* the last attempt, so it is up and refusing this one.
CompletePartial(w, answered) ==
  LET status == IF OwnRow(w).attempt + 1 < PartialMaxAttempts /\ ~answered
                THEN "queued" ELSE "failed" IN
  /\ attempt[w].pc = "verify" /\ attempt[w].result = "partial"
  /\ Settle(w, [Settled(OwnRow(w), status) EXCEPT !.attempt = Spend(@),
                                                 !.resume = PublishedSoFar(w)],
            [status |-> status, ext |-> TRUE], TRUE, status = "failed")
  /\ Retire(w) /\ SettleFrame

\* The result is final: what was not published names no post, and a refusal
\* handed back spends no attempt and is not tried again.
CompleteFinal(w) ==
  LET status == IF attempt[w].result = "ok" THEN "published" ELSE attempt[w].result IN
  /\ attempt[w].pc = "verify" /\ attempt[w].result \in {"ok"} \cup Refusals
  /\ Settle(w, Settled(OwnRow(w), status),
            [status |-> status, ext |-> status = "published"], TRUE, TRUE)
  /\ Retire(w) /\ SettleFrame

\* settleUnexpectedFinalization: recording the result threw.  The evidence is
\* the id the result carries.
AnyResultNames(result) == result # "none"  \* MUTANT
NamesPost(result) == result \in {"ok", "partial"}
FinalizationFails(w) ==
  /\ attempt[w].pc = "verify"
  /\ ForceVerification(w, NamesPost(attempt[w].result))
  /\ Retire(w) /\ SettleFrame

\* ... and when recording a failure threw, there is no evidence to add.
FailureUnrecorded(w) ==
  /\ attempt[w].pc \in {"claimed", "validate", "prepare", "publish"}
  /\ attempt[w].result = "none" /\ ~attempt[w].zombie
  /\ ForceVerification(w, OwnMirror(w).ext)
  /\ Retire(w) /\ SettleFrame

-----------------------------------------------------------------------------
(* Restarts and leases *)

\* The process dies: its rows stay locked.
Crash ==
  /\ crashes < MaxCrashes /\ crashes' = crashes + 1
  /\ attempt' = [w \in Workers |-> IdleAttempt]
  /\ recon' = IdleRecon
  /\ UNCHANGED <<queue, studio, live, ghosts, ops>>

Asking(t, i) == recon # IdleRecon /\ recon.target = t /\ recon.id = i
Orphaned(t, i) ==
  IF jobs[t][i].lockedBy = "recon" THEN ~Asking(t, i)
  ELSE ~\E w \in Workers : Holds(w) /\ attempt[w].target = t /\ attempt[w].id = i

\* A lock passes its age.  A living holder renews it first, unless its process
\* is held up for that long.
LeaseExpires(t, i) ==
  /\ HasRow(t, i) /\ jobs[t][i].lockedBy # "none" /\ ~jobs[t][i].stale
  /\ Orphaned(t, i) \/ "lease_lapse" \in Faults
  /\ jobs' = [jobs EXCEPT ![t][i].stale = TRUE]
  /\ UNCHANGED <<nextJob, mirror, studio, attempt, recon, live, ghosts, ops, crashes>>

\* withJobHeartbeat
Heartbeat(w) ==
  /\ Holds(w) /\ OwnRow(w).stale
  /\ jobs' = [jobs EXCEPT ![attempt[w].target][attempt[w].id].stale = FALSE]
  /\ UNCHANGED <<nextJob, mirror, studio, attempt, recon, live, ghosts, ops, crashes>>

\* MUTANT: a row is recovered only once its attempt has named a phase.
LeftBehindInPhase(t, i) ==
  jobs[t][i].status = "publishing" /\ jobs[t][i].stale /\ jobs[t][i].phase # "none"
LeftBehind(t, i) == jobs[t][i].status = "publishing" /\ jobs[t][i].stale
Recovered(row) ==
  [Settled(row, IF MayHaveReachedAudience(row.phase) THEN "verification_required" ELSE "queued")
     EXCEPT !.attempt = Spend(@)]

\* recoverStalePublishJobs: no budget is asked for the attempt it spends.
RecoverStale ==
  LET Stale(t) == {i \in JobIds : LeftBehind(t, i)} IN
  /\ \E t \in Targets : Stale(t) # {}
  /\ jobs' = [t \in Targets |-> [i \in JobIds |->
       IF i \in Stale(t) THEN Recovered(jobs[t][i])
       ELSE IF Stale(t) # {} /\ jobs[t][i].status \in Superseded THEN NoJob
       ELSE jobs[t][i]]]
  /\ mirror' = [t \in Targets |->
       IF Stale(t) = {} THEN mirror[t]
       ELSE [mirror[t] EXCEPT !.status = jobs'[t][CHOOSE i \in Stale(t) : TRUE].status]]
  /\ draft' = Refreshed(jobs', draft)
  /\ UNCHANGED <<nextJob, declared, posted, attempt, recon, live, ghosts, ops, crashes>>

-----------------------------------------------------------------------------
(* The reconciliation sweep *)

\* runPublicationReconciliation claims a row and remembers what its target
\* named then.
InDoubtForEver(row) == row.status = "verification_required"  \* MUTANT
InDoubt(row) == row.status = "verification_required" /\ row.reconcile < ReconcileMax
ReconcileClaim(t, i) ==
  /\ recon = IdleRecon
  /\ InDoubt(jobs[t][i])
  /\ jobs[t][i].lockedBy = "none" \/ jobs[t][i].stale
  /\ jobs' = [jobs EXCEPT ![t][i] = [@ EXCEPT !.lockedBy = "recon", !.stale = FALSE]]
  /\ recon' = [pc |-> "asking", target |-> t, id |-> i, ext |-> mirror[t].ext]
  /\ UNCHANGED <<nextJob, mirror, studio, attempt, live, ghosts, ops, crashes>>

ReconHolds ==
  LET row == jobs[recon.target][recon.id] IN
  row.status = "verification_required" /\ row.lockedBy = "recon"

\* The platform shows the post the target names, its first one.
ReconcileConfirm ==
  LET t == recon.target IN
  /\ recon # IdleRecon /\ recon.ext /\ live[t][1] > 0
  /\ IF ReconHolds
     THEN /\ jobs' = [jobs EXCEPT ![t][recon.id] = Settled(@, "published")]
          /\ mirror' = [mirror EXCEPT ![t] = [status |-> "published", ext |-> TRUE]]
          /\ draft' = Refreshed(jobs', draft)
     ELSE UNCHANGED <<jobs, mirror, draft>>
  /\ recon' = IdleRecon
  /\ UNCHANGED <<nextJob, declared, posted, attempt, live, ghosts, ops, crashes>>

Polled(row) == [Unlocked(row) EXCEPT !.reconcile = row.reconcile + 1]
\* deferOrdinaryReconciliation: nothing to ask about, or no answer.
ReconcileDefer ==
  /\ recon # IdleRecon
  /\ jobs' = IF ReconHolds
             THEN [jobs EXCEPT ![recon.target][recon.id] = Polled(@)]
             ELSE jobs
  /\ recon' = IdleRecon
  /\ UNCHANGED <<nextJob, mirror, studio, attempt, live, ghosts, ops, crashes>>

-----------------------------------------------------------------------------
(* Operators *)

Command(name) == name \in Operations /\ ops < MaxOps /\ ops' = ops + 1

\* persistPublicationPlanTx: what has nothing out yet is planned again, what is
\* in flight, settled or part-way out is not.
ReplaceableInHand(row) ==  \* MUTANT
  row.status \in {"queued", "failed", "publishing"} /\ row.resume = 0
Replaceable(row) == row.status \in {"queued", "failed"} /\ row.resume = 0
KeptRows(t) == [i \in JobIds |-> IF Replaceable(jobs[t][i]) THEN NoJob ELSE jobs[t][i]]
FinalUnlessInHand(t) ==  \* MUTANT
  \E i \in Rows(t) : jobs[t][i].status \in {"published", "skipped", "verification_required"}
FinalTarget(t) ==
  \E i \in Rows(t) :
    \/ jobs[t][i].status \in {"publishing", "published", "skipped", "verification_required"}
    \/ jobs[t][i].status \in {"queued", "failed"} /\ jobs[t][i].resume > 0

\* publishDraftToQueue and mutateScheduledDraft, over the enabled targets.
Plan(enabled) ==
  LET fresh == {t \in enabled : ~FinalTarget(t)} IN
  /\ Command("plan") /\ draft # "cancelled"
  /\ enabled \cap abandoned = {} \/ "replan_skipped" \in Operations
  /\ \A t \in fresh : nextJob[t] <= MaxJobs
  /\ jobs' = [t \in Targets |->
       IF t \in fresh THEN [KeptRows(t) EXCEPT ![nextJob[t]] = NewRow] ELSE KeptRows(t)]
  /\ nextJob' = [t \in Targets |-> IF t \in fresh THEN nextJob[t] + 1 ELSE nextJob[t]]
  /\ draft' = Refreshed(jobs', "scheduled")
  /\ posted' = TRUE /\ declared' = FALSE /\ begun' = {}
  /\ UNCHANGED <<mirror, attempt, recon, live, abandoned, crashes>>

\* What a cancellation leaves to finish: posts out, or an attempt under way.
PartWay(t) ==
  \/ \E i \in Rows(t) : jobs[t][i].resume > 0
  \/ \E w \in Workers : InFlight(w, t)
Declare ==
  /\ declared' = TRUE
  /\ begun' = IF declared THEN begun ELSE {t \in Targets : PartWay(t)}

\* cancelRemainingDelivery
CancelRest ==
  /\ Command("cancel_rest") /\ posted
  /\ Declare
  /\ jobs' = [t \in Targets |-> [i \in JobIds |->
       IF Replaceable(jobs[t][i]) THEN Settled(jobs[t][i], "cancelled") ELSE jobs[t][i]]]
  /\ UniqueIndex(jobs')
  /\ mirror' = [t \in Targets |->
       IF mirror[t].status # "absent" /\ \E i \in Rows(t) : Replaceable(jobs[t][i])
       THEN [mirror[t] EXCEPT !.status = "cancelled"] ELSE mirror[t]]
  /\ UNCHANGED <<nextJob, draft, posted, attempt, recon, live, abandoned, crashes>>

\* cancelDraft: with anything of it out the rows stay as the record, else the
\* publication is taken back whole.
CancelDraft ==
  LET out == \E t \in Targets : \E i \in Rows(t) : jobs[t][i].status \in
               {"publishing", "published", "skipped", "verification_required"}
  IN
  /\ Command("cancel_draft") /\ draft \in {"ready", "scheduled"}
  /\ draft' = "cancelled"
  /\ IF posted /\ out
     THEN /\ Declare
          /\ jobs' = [t \in Targets |-> [i \in JobIds |->
               IF jobs[t][i].status \in {"queued", "failed"}
               THEN [jobs[t][i] EXCEPT !.status = "cancelled"] ELSE jobs[t][i]]]
          /\ UniqueIndex(jobs')
          /\ UNCHANGED posted
     ELSE /\ jobs' = [t \in Targets |-> [i \in JobIds |-> NoJob]]
          /\ posted' = FALSE
          /\ UNCHANGED <<declared, begun>>
  /\ UNCHANGED <<nextJob, mirror, attempt, recon, live, abandoned, crashes>>

\* A requeued row sheds its lock, backoff, phase and in-flight progress.
Requeue(t, i, resume) ==
  /\ jobs' = [jobs EXCEPT ![t][i] =
       [Settled(@, "queued") EXCEPT !.attempt = 0, !.resume = resume, !.progress = 0]]
  /\ mirror' = [mirror EXCEPT ![t] = [status |-> "queued", ext |-> @.ext /\ resume > 0]]
  /\ UNCHANGED nextJob

\* createPublishJob, for a target without a row.
CreateMissing(t) ==
  /\ Rows(t) = {} /\ nextJob[t] <= MaxJobs
  /\ jobs' = [jobs EXCEPT ![t][nextJob[t]] = NewRow]
  /\ nextJob' = [nextJob EXCEPT ![t] = @ + 1]
  /\ mirror' = [mirror EXCEPT ![t] = [status |-> "queued", ext |-> FALSE]]

\* requeuePublicationTargetsTx: the target is asked for again.
AskedAgain(t) ==
  /\ posted /\ draft' = "scheduled" /\ declared' = FALSE /\ begun' = {}
  /\ abandoned' = abandoned \ {t}
  /\ UNCHANGED <<posted, attempt, recon, crashes>>

\* requeueSocialTarget with audienceReached "resume"
ResumeFailed(t, i) ==
  /\ Latest(t, i) /\ jobs[t][i].status = "failed"
  /\ ~AlreadyDelivered(t, jobs[t][i])
  /\ Requeue(t, i, jobs[t][i].resume)

\* retryTarget, and resendTarget which may also create the row.
Retry(t) ==
  /\ Command("retry")
  /\ \E i \in JobIds : ResumeFailed(t, i)
  /\ AskedAgain(t) /\ UNCHANGED live

Resend(t) ==
  /\ Command("resend")
  /\ CreateMissing(t) \/ \E i \in JobIds : ResumeFailed(t, i)
  /\ AskedAgain(t) /\ UNCHANGED live

\* ops retry: everything again, from a target whose posts the operator has
\* taken down.  No call of an earlier attempt is still under way.
Republish(t) ==
  /\ Command("republish")
  /\ ~\E w \in Workers : AtPlatform(w, t)
  /\ \/ CreateMissing(t)
     \/ \E i \in JobIds :
          /\ Latest(t, i) /\ jobs[t][i].status \in {"failed", "cancelled", "skipped", "published"}
          /\ Requeue(t, i, 0)
  /\ AskedAgain(t)
  /\ live' = [live EXCEPT ![t] = [p \in DOMAIN @ |-> 0]]

\* abandonSocialTarget
Skip(t) ==
  /\ Command("skip") /\ posted
  /\ \E i \in JobIds :
       /\ Latest(t, i) /\ jobs[t][i].status \in {"failed", "verification_required"}
       /\ jobs' = [jobs EXCEPT ![t][i] = Settled(@, "cancelled")]
  /\ UniqueIndex(jobs')
  /\ mirror' = [mirror EXCEPT ![t].status = "cancelled"]
  /\ draft' = Refreshed(jobs', draft)
  /\ abandoned' = abandoned \cup {t}
  /\ UNCHANGED <<nextJob, declared, posted, attempt, recon, live, begun, crashes>>

\* settleAmbiguousTarget.  The operator reports what is on the platform, and
\* looks when no call is still under way.
SettleAmbiguous(t, found) ==
  LET status == IF found THEN "published" ELSE "queued" IN
  /\ Command("settle") /\ posted
  /\ ~\E w \in Workers : AtPlatform(w, t)
  /\ found <=> \E p \in DOMAIN live[t] : live[t][p] > 0
  /\ \E i \in JobIds :
       /\ Latest(t, i) /\ jobs[t][i].status = "verification_required"
       /\ jobs' = [jobs EXCEPT ![t][i] = [Settled(@, status) EXCEPT !.attempt = 0]]
  /\ mirror' = [mirror EXCEPT ![t] = [status |-> status, ext |-> found]]
  /\ draft' = Refreshed(jobs', draft)
  /\ UNCHANGED <<nextJob, declared, posted, attempt, recon, live, ghosts, crashes>>

\* resumeTargetFrom: the operator names one live post, and the row's ids
\* become that one.
ResumeFrom(t) ==
  /\ Command("resume_from") /\ posted
  /\ \E p \in DOMAIN live[t] : live[t][p] > 0
  /\ \E i \in JobIds :
       /\ Latest(t, i) /\ jobs[t][i].resume > 0 /\ jobs[t][i].status # "publishing"
       /\ jobs' = [jobs EXCEPT ![t][i] =
            [Settled(@, "queued") EXCEPT !.attempt = 0, !.resume = 1]]
  /\ mirror' = [mirror EXCEPT ![t] = [status |-> "queued", ext |-> TRUE]]
  /\ draft' = Refreshed(jobs', draft)
  /\ abandoned' = abandoned \ {t}
  /\ UNCHANGED <<nextJob, declared, posted, attempt, recon, live, begun, crashes>>

-----------------------------------------------------------------------------

\* The worker's own steps on an attempt, and the ones it is owed.
Deliver(w) ==
  \/ EnterPhase(w) \/ LeaseLost(w)
  \/ CallAccepted(w)
  \/ \E landed \in BOOLEAN : CallLost(w, landed)
  \/ \E class \in ErrorClasses :
       FailBeforeCall(w, class) \/ CallRejected(w, class) \/ CallUnreadable(w, class)
  \/ \E refusal \in Refusals : CallDeclined(w, refusal)
  \/ Timeout(w)
  \/ CompleteDeferred(w) \/ CompleteFinal(w)
  \/ \E answered \in BOOLEAN : CompletePartial(w, answered)
  \/ FinalizationFails(w) \/ FailureUnrecorded(w)

ClaimStep(t, i) ==
  (\E w \in Workers : Claim(w, t, i)) \/ ClaimRefuseDuplicate(t, i) \/ ClaimStopCancelled(t, i)

Reconcile == ReconcileConfirm \/ ReconcileDefer

Operator ==
  \/ \E enabled \in SUBSET Targets \ {{}} : Plan(enabled)
  \/ CancelRest \/ CancelDraft
  \/ \E t \in Targets :
       \/ Retry(t) \/ Resend(t) \/ Republish(t) \/ Skip(t) \/ ResumeFrom(t)
       \/ \E found \in BOOLEAN : SettleAmbiguous(t, found)

Next ==
  \/ \E w \in Workers : Deliver(w) \/ Heartbeat(w)
  \/ \E t \in Targets, i \in JobIds : ClaimStep(t, i) \/ LeaseExpires(t, i) \/ ReconcileClaim(t, i)
  \/ RecoverStale \/ Reconcile \/ Crash
  \/ Operator

Spec == Init /\ [][Next]_vars

\* The queue loop claims what is due, every attempt ends (its timeout sees to
\* that), time ages an orphaned lock, and the watchdog and the sweep run.
Fairness ==
  /\ \A w \in Workers : WF_vars(Deliver(w))
  /\ \A t \in Targets, i \in JobIds :
       /\ WF_vars(ClaimStep(t, i))
       /\ WF_vars(LeaseExpires(t, i) /\ Orphaned(t, i))
  /\ WF_vars(RecoverStale) /\ WF_vars(Reconcile)
FairSpec == Spec /\ Fairness

-----------------------------------------------------------------------------
(* Type invariant *)

TypeOK ==
  /\ jobs \in [Targets -> [JobIds -> Row]]
  /\ nextJob \in [Targets -> 1 .. MaxJobs + 1]
  /\ mirror \in [Targets -> MirrorRow]
  /\ declared \in BOOLEAN /\ posted \in BOOLEAN
  /\ draft \in DraftStatus
  /\ attempt \in [Workers -> Attempt \cup {IdleAttempt}]
  /\ recon \in Question \cup {IdleRecon}
  /\ DOMAIN live = Targets
  /\ \A t \in Targets : live[t] \in [1 .. Parts[t] -> 0 .. 2]
  /\ begun \subseteq Targets /\ abandoned \subseteq Targets
  /\ ops \in 0 .. MaxOps /\ crashes \in 0 .. MaxCrashes

-----------------------------------------------------------------------------
(* Safety *)

\* No reader of a target sees a post of the publication twice, whatever crashes,
\* lost answers, timeouts, retries, edits and cancellations came in between: the
\* promise of the claim's duplicate gate, the phase a worker writes before it
\* calls, and the continuation state a payload carries.
NoDuplicate == \A t \in Targets : \A p \in DOMAIN live[t] : live[t][p] <= 1

\* Whatever the interleaving of claims, plans, requeues and recoveries, a target
\* never has two rows that could still be delivered: enqueue, requeue and
\* deleteSupersededJobs between them.
OneOpenRow ==
  \A t \in Targets : \A i, k \in Rows(t) :
    (jobs[t][i].status # "cancelled" /\ jobs[t][k].status # "cancelled") => i = k

\* The target row Studio reads says what the newest job row says, once the row
\* is being delivered, is delivered or is in doubt: each settlement writes both
\* or neither, and a settlement that lost its lease writes neither.
MirrorAgrees ==
  \A t \in Targets : \A i \in Rows(t) :
    jobs[t][i].status \in {"publishing", "published", "skipped", "verification_required"}
      => mirror[t].status = jobs[t][i].status

\* A target reported published names a post, and what a target names is in
\* front of the audience, whether a worker, an emergency settlement, the sweep
\* or an operator recorded it: verify, edit and delete all aim by that name.
PublishedIsLive ==
  \A t \in Targets :
    /\ mirror[t].status = "published" => mirror[t].ext
    /\ mirror[t].ext => live[t][1] > 0

\* While an attempt that holds its row is calling the platform, the row says
\* so: what recovery and the timeout read decides between "queued" and
\* "verification_required", so a row requeued by either was never called for.
PhaseTruthful ==
  \A w \in Workers :
    (Holds(w) /\ attempt[w].pc \in {"publish", "verify"})
      => MayHaveReachedAudience(OwnRow(w).phase)

\* A post that is out is never forgotten: once nothing is under way on its
\* target, the target names it, or a row is in doubt or says what to continue
\* from, unless an operator gave it up or took the whole publication back.
NothingForgotten ==
  \A t \in Targets :
    \/ \A p \in DOMAIN live[t] : live[t][p] = 0
    \/ mirror[t].ext \/ t \in abandoned \/ ~posted
    \/ \E w \in Workers : InFlight(w, t)
    \/ \E i \in Rows(t) : jobs[t][i].resume > 0 \/
         jobs[t][i].status \in {"publishing", "verification_required"}

\* A row an attempt is delivering changes state only by that attempt, or by the
\* recovery of a lock that aged out: no command of an operator, no sweep and no
\* other attempt settles it.
HeldRowIsFenced ==
  [][\A t \in Targets : \A i \in Rows(t) :
       (jobs[t][i].status = "publishing" /\ jobs'[t][i].status # "publishing")
         => jobs[t][i].stale \/ \E w \in Workers :
              jobs[t][i].lockedBy = w /\ attempt'[w] # attempt[w]]_vars

\* From the moment "cancel the rest" is declared until the publication is asked
\* for again, nothing new reaches a target that had nothing under way: the
\* cancellation binds in the claim, wherever the tap landed.
CancelBinds ==
  [][\A t \in Targets : \A p \in DOMAIN live[t] :
       (declared /\ live'[t][p] > live[t][p]) => t \in begun]_vars

\* The queue implements what DeliveryPromise says of it to the audience.
Promise == INSTANCE DeliveryPromise WITH shown <- live, stopped <- declared, finishing <- begun
KeepsPromise == Promise!Spec

-----------------------------------------------------------------------------
(* What the proofs strengthen the invariants with, see PublishQueueProofs *)

\* The row of an attempt at the platform names the very phase it is in.
PhaseIsNamed ==
  \A w \in Workers :
    (Holds(w) /\ attempt[w].pc \in {"publish", "verify"}) => OwnRow(w).phase = attempt[w].pc

\* A question the sweep still waits on was asked within its budget.
PollsLeft ==
  (recon # IdleRecon /\ ReconHolds) => jobs[recon.target][recon.id].reconcile < ReconcileMax

\* Without a publication there are no rows.
RowsAreAsked == posted \/ \A t \in Targets : Rows(t) = {}

IndInv == TypeOK /\ PhaseIsNamed /\ PollsLeft /\ RowsAreAsked

-----------------------------------------------------------------------------
(* Liveness *)

RowStatus(t, i, status) == jobs[t][i].status = status

\* No row stays locked for ever: the attempt ends, or its lock ages out and is
\* recovered.
PublishingEnds ==
  \A t \in Targets, i \in JobIds :
    RowStatus(t, i, "publishing") ~> ~RowStatus(t, i, "publishing")

\* Once operators leave it alone the publication settles: retries are spent,
\* recoveries end, and every row reaches a state nothing will pick up by itself.
DeliverySettles ==
  <>[](\A t \in Targets, i \in JobIds :
         ~RowStatus(t, i, "queued") /\ ~RowStatus(t, i, "publishing"))

=============================================================================
