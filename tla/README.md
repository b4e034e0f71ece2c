# Solo Publisher in TLA+

Solo Publisher takes one person's post, and delivers it to a dozen platforms,
each with a schedule, a queue of its own, and no way to take a second copy back.
The backend is one Node/Bun process over one SQLite database: everything that
has to survive the process is a row, everything that races is an `await`.

This directory holds a model of that backend, the checks TLC makes of it, and the
theorems TLAPS proves about it. Paths below are relative to
`src/apps/backend/src/` unless they start with `src/`.

* [Inventory](#inventory): the system's parts
* [Modules](#modules): what is modelled, and how it corresponds to the code
* [Runs](#runs): what TLC checks, with which bounds and fairness
* [Findings](#findings): where the code and its own words disagree
* [Proofs](#proofs): what holds for every instance
* [Not modelled](#not-modelled) and [what is left](#what-is-left)

## Inventory

| component | state it keeps | operations | interacts with | module |
|---|---|---|---|---|
| publishing queue: `publishing/queue.ts`, `queue-state.ts`, `job-policy.ts` | `publish_jobs` (status, lock, phase, attempts, poll count, payload with what is already out), `publication_targets` | enqueue, claim, the settlements of an attempt, recovery of stale locks | called by the delivery worker, the watchdog and the planner | `PublishQueue` |
| delivery worker: `delivery/publish-workflow.ts` | none that survives; one attempt per claimed row | run the four phases, heartbeat, time out, settle | platform adapters, queue, credential breaker | `PublishQueue` |
| reconciliation sweep: `delivery/publication-reconciliation.ts` | lock and poll count on rows in doubt | claim, confirm, defer | queue rows, adapters' verify | `PublishQueue`, `VideoQueue` |
| cancellation: `publishing/cancellation.ts`, `draft-lifecycle.ts` | `publication_cancellations` | cancel the rest, cancel a draft | checked by every claim | `PublishQueue`, `SitePages`, `VideoQueue` |
| planner: `publishing/publication-writer.ts`, `publication-workflow.ts`, `scheduled-draft-mutation.ts` | the plan of a draft | publish or schedule, replan after an edit | queue rows, site jobs, Story cards | `PublishQueue`, `PostDraft`, `SitePages` |
| operator commands: `publishing/requeue.ts`, `abandon.ts`, `operations/*` | none of their own | retry, resend, republish, skip, settle, resume from | queue rows and target rows | `PublishQueue`, `SitePages`, `VideoQueue` |
| video lifecycle: `publishing/video-service.ts`, `video-settle.ts`, `delivery/video-worker.ts` | `video_drafts`, `video_targets`, `video_jobs` | prepare, upload, publish, verify, recover, settle, prune | the sweep, breaker, notifications | `VideoQueue` |
| drafts and translations: `studio/services/posts.ts`, `content/translation-worker.ts` | `drafts`, `post_locales`, `draft_thread_parts`, `draft_translations` | edit, claim, translate, settle, fail | Story cards, planner | `PostDraft` |
| Story cards: `story-cards/*` | `draft_story_cards` | queue for a text, render, recover | drafts, translations, planner | `PostDraft` |
| site jobs: `delivery/site-jobs.ts`, `site-media.ts`, `site-index-now.ts` | `site_jobs`, locale state, media, the outbox file | claim a batch, materialise, complete, fail, recover, announce | planner, cancellation, IndexNow | `SitePages` |
| platform adapters: `delivery/platform-adapters.ts`, `delivery/social/*`, `delivery/zernio.ts` | none; what they carry on from travels in the payload | publish, verify, remove | the platforms | `Adapters` |
| feed media: `delivery/media-prepare.ts` | files under names made of asset and bounds | encode, stage, prune | every feed target of a cycle | `FeedMedia` |
| Story media: `delivery/story-media.ts`, `story-derivatives.ts` | files; the processor's cache and slot | render, share, repair, prune | the media processor | `StoryMedia` |
| credential breaker: `observability/auth-circuit.ts`, `token-health.ts`, `alerts.ts` | `credential_checks` | record failure, record success, ask, probe, alert | deliveries, the sweep, the probe | `Breaker` |
| credentials: `channels/*` | `platform_tokens`, `.env`, memory | connect, renew, apply, reload | every adapter | `Credentials` |
| removals and purges: `delivery/external-removals.ts`, `operations/publication-purge.ts` | target rows | remove, replace or purge what is live | adapters, requeue | `RemoteCopies` |
| bot conversations: `bot/*` | `conversation_sessions`, `pending_albums` | take a message, answer a tap, finalise an album | Studio services | `Desk` |
| notices: `interfaces/telegram/*`, `notifications/jobs.ts`, `db/repositories/events.ts` | `studio_notification_jobs`, `publication_events`, `alert_dedup` | schedule a reminder, record, reserve, send | every settlement | `Notices` |
| deploy agents: `src/deploy/deploy-agent.ts` | environment files, records | deploy, promote, roll back | the containers | `Deployment` |
| runtime: `runtime/workers.ts`, `foundation/scheduler.ts`, `worker-signal.ts` | loops and wake-ups | start with recovery, run, drain | every worker | recovery and crashes in each module |
| HTTP, MCP, CLI, public site, settings, content parsing, maintenance | read models, files | dispatch, rendering, conversion | the commands above | not modelled |

What is hard here, and what correctness means for each part:

* **Queue and delivery worker.** A call to a platform is not a transaction: it may
  land with no answer, answer late, or outlive the process. Whether a row may be
  tried again is decided from what was written *before* the call. Correct: no
  second copy, nothing that is out is forgotten, every row ends.
* **Leases.** A worker's row can be recovered under it. Correct: a write by an
  attempt that lost its row changes nothing, and no one else settles a held row.
* **Operators against workers.** Edits, retries, skips and cancellations land at
  any moment. Correct: one open row per target, a cancellation binds what had not
  begun, what was given up stays given up.
* **Chains.** Part of a thread may be out. Correct: a retry writes the rest of it
  and only the rest, and an adapter that counts its own budgets ends.
* **Sweep.** A question is asked, an answer comes later. Correct: it settles the
  row it asked about, if that row is still in doubt, and gives up within a budget.
* **Video.** The same hazards with upload sessions, containers and two-step
  publication. Correct: one copy, a status that is the truth both ways, a cancelled
  upload that stays private, a source file that outlives its use.
* **Drafts.** A model and a renderer answer about a text that may be gone. Correct:
  no late answer lands on another text, and what is delivered is what was saved.
* **Site.** A newer request arrives while an older one is rendered. Correct: the page
  keeps its media and never shows replaced ones, every change is announced.
* **Files without a table.** A name being there is the record that the file is ready.
  Correct: what is delivered is whole, and made for that target.
* **Breaker.** Concurrent attempts report together. Correct: it opens at its
  threshold and only for refusals, and the operator hears of it.
* **Credentials.** Three homes of one token, renewed and replaced concurrently.
  Correct: the account chosen last is the one published to, no token is used twice.
* **Removals.** Several objects, one call each, one transaction at the end. Correct:
  what the audience sees is named by a row, and only one delivery of it is out.
* **Conversations.** Old buttons stay in the chat. Correct: a button does what its own
  screen said, an answer is taken once.
* **Notices.** Reserved, then sent. Correct: at most one message per event, and
  nothing asked for or announced is lost.
* **Deployments.** A step may fail or the agent die after each. Correct: the record
  names what runs, and what it goes back to was healthy.

The hazards themselves, each at its line, are listed in `PROJECT.json`.

## Modules

| module | what it is |
|---|---|
| `DeliveryPromise` | what the queue promises an audience: posts in order, each once, and nothing new after a cancellation except what was under way |
| `PublishQueue` | the queue, its attempts, the sweep and the operators of one publication |
| `PublishQueueClaims` | what comments and command summaries say of it and TLC refutes |
| `VideoQueue` | one video on its way to the platforms |
| `PostDraft` | a post while it is written: texts, translation, Story cards, plan |
| `SitePages` | the public pages of one post, their queue, and the search index |
| `Adapters` | one delivery inside its platform's adapter |
| `FeedMedia`, `StoryMedia` | media prepared for feeds and for Stories |
| `Breaker` | the credential breaker of one target and what feeds it |
| `Credentials` | where a credential lives and which one is used |
| `RemoteCopies` | removal, replacement and purge of what is out |
| `Desk` | the operator's conversation with the bot |
| `Notices` | what operators are told |
| `Deployment` | the two deploy agents |
| `MCPublishQueue`, `MCVideoQueue`, `MCPostDraft`, `MCSitePages` | instances for TLC |
| `MCWorkshop` | `FeedMedia` ... `Deployment` side by side |
| `PublishQueueProofs`, `PublishQueuePromiseProofs` | theorems of the queue: rows, cancellations and one open row; the promise to the audience |
| `VideoQueueProofs`, `SitePagesProofs` | theorems of these two |
| `PostDraftProofs` | theorems of `PostDraft` |
| `WorkshopProofs` | theorems of `Desk`, and of the parts of `MCWorkshop` side by side |
| `DeliveryProofs` | theorems of `Adapters`, `FeedMedia` and `StoryMedia` |
| `OperationsProofs` | theorems of `Credentials`, `Breaker`, `Deployment`, `RemoteCopies` and `Notices` |

All modules follow one convention. An action is one synchronous stretch of the
process, ended by an `await`: a transaction with the writes around it, or one answer
of a platform. Times are delays, unless an order of two of them is the point; then
they are a flag (`VideoQueue`) or a small clock (`Breaker`, `Notices`). A process that
dies loses what only its memory held. Texts, media and ids are numbers used once.
Faults that may be switched off are named in a constant of the module (`Faults`,
`Accidents`, `...Faults`), each with a comment of what it stands for; where a run
leaves one out, [Findings](#findings) says what it breaks.

### PublishQueue

One publication is modelled, because two publications share no row. What they do
share is read by one step each and becomes a free choice there: whether the
credential breaker refuses (`FailBeforeCall`), whether a platform answered anything
since the last attempt (`CompletePartial`). A due time is only a delay, so a queued row
may be claimed at any moment, and a lock has passed its age (`stale`) or has not.

| variable | code |
|---|---|
| `jobs[t][i]` | the `publish_jobs` row `i` of target `t`: `status`, `currentPhase`, `lockedBy`, `attemptCount`, `reconcileAttemptCount`; `resume` counts the published ids a payload carries, `progress` what a staged adapter reads; a row that does not exist has status `no_row` |
| `mirror[t]` | the `publication_targets` row: `status`, and whether it has an `externalId` |
| `declared` | a `publication_cancellations` row exists |
| `draft`, `posted` | `drafts.status`, and whether `drafts.postId` is set |
| `attempt[w]` | the asynchronous function that is delivering a row: where it is awaiting (`pc`), what it has sent, and whether its worker stopped waiting for it (`zombie`) |
| `recon` | the sweep's question under way, with what it read before asking |
| `live` | ghost: what the audience can see. `Republish` takes it down, since that command is for posts the operator deleted |
| `begun`, `abandoned` | ghosts: what had started when a cancellation was declared; targets given up on |

* *Claims*: `Claim`, `ClaimRefuseDuplicate` (the target already names a post),
  `ClaimStopCancelled` are the three outcomes of `claimPublishJob`.
* *An attempt*: `EnterPhase` or `LeaseLost` before each phase;
  `CallAccepted`, `CallRejected`, `CallLost`, `CallUnreadable`, `CallDeclined` for
  what a platform answers; `Timeout`; `Heartbeat`; and the settlements
  `CompleteFinal`, `CompleteDeferred`, `CompletePartial`, `Fail`,
  `RequireVerification`, `ForceVerification`. All settlements go through `Settle`,
  which is `withLease`: a lost lease rolls back row, target and draft together.
* *Recovery*: `Crash`, `LeaseExpires`, `RecoverStale`.
* *The sweep*: `ReconcileClaim`, then `ReconcileConfirm` or `ReconcileDefer`.
* *Operators*: `Plan`, `CancelRest`, `CancelDraft`, `Retry`, `Resend`, `Republish`,
  `Skip`, `SettleAmbiguous`, `ResumeFrom`.

Adapters come in four shapes (`Adapter`): `single`, one call; `chain`, several calls
with what went out handed back when one is refused (`x.ts`); `staged`, one call per
attempt (`threads.ts`); `split`, several calls, forgotten when one is refused
(`discord.ts`). A publication becomes `Parts[t]` posts. `Adapters` below opens them.

Two things are assumed of operators and named in the model. `settle` reports what is
on the platform and is used when no call is under way; `republish` is used after the
posts were taken down. Two things of the environment are switched by `Faults`:
`lease_lapse` (a living attempt's lock ages out) and `unreadable_answer` (a platform
accepted the call and its answer's body could not be read). Crashes and lost answers
are never switched off, only bounded.

Counters stop at the largest budget that reads them (`Spend`), and copies at two.
The bounds are `MaxJobs`, `MaxOps` and `MaxCrashes`.

### VideoQueue

`route[t]` is how a target is delivered: `youtube` (upload privately with a publication
time, made public by YouTube itself), `native` (an Instagram container, then a second
call that publishes it) or `zernio` (a provider that takes the Reel first and answers a
repeated request with the post it already made). `object[t][k]` is what the platform
holds, beside the rows of `video_drafts`, `video_targets` and `video_jobs`; `fence` is
what a request id is made of; `attempt`, `recon` and `asking` are the worker, the sweep and
the command that wait for an answer; `holds` is the calls of a cancellation that keep an
upload private. Three flags are about time: `due`, the publish job may be claimed; `past`, the
moment the video was planned for has come (`TimePasses`, which makes a job due as well); `soon`,
a retry that continues from an upload runs its publish job after a minute (`RetryDue`), whatever
`scheduledAt` says, so that a job may be due and the upload not yet public.

Both job kinds are claimed by `Claim`, executed by `Execute...` up to the call, and
answered by `Uploaded`, `ContainerCreated`, `ContainerFinished`, `ReelPublished`,
`ProviderAnswered`, `Lost`, `Refused`, `Unread`; `Complete`, `Fail` and `RequireVerification` settle
with the lock checked. `Unread` is an answer nobody could read: whatever the call made is there, and
the attempt fails as if it were not (the fault `unread_answer`). `Recover`, `Prune`, `Crash` and the sweep's `Recon...` follow the
worker's cycle, and the operator's commands are `ChooseTargets`, `Remove`, `Schedule`,
`Retry`, `Settle` (after asking the provider, `Ask`/`AnswerRecorded`) and `Cancel`.
`overlap` is two processes at work while a new one starts.

### PostDraft

A text is an *edition*, a number used once. `posts[i].ru` and `.machine` say which Russian
edition a post has and which one its English was made from; `cards[l].path` says which
edition a rendered card shows; `plan` is what the queued jobs carry. `plain` is the Russian
editions that ask for no English (`translationWanted`: no Cyrillic in them), which the accident
`plain` brings in; a change of the thread queues a translation only if its first post's is not
one of them, and the ghost `asked` remembers whether the last one did. The author's edits
(`EditText`, `EditMedia`, `ToggleTarget`, `SetStoryPublishMode`, the thread commands) end
in the replan the code ends them in, which may be refused (`behind`). `translator` and
`renderer` are the two loops with what they read before waiting.

### SitePages

`page[l]` is what `post_locales` and the public read model make of one language; `rows` are
its `site_jobs`, oldest first; `build` is the render under way with the versions it read;
`index` is the IndexNow outbox and its requests. `CycleBegins` claims a batch with its
coalescing, `BuildEnds`/`BuildFails` write under the version fence (`Written`), `Stall`,
`Crash` and `Recover` are the faults of the cycle, and plans, repairs, media edits,
cancellations, retry and skip are the commands. A behaviour is limited to one `scene`,
a set of commands and faults, and the scenes of a run add up.

### Adapters

The call sequence of every social adapter, with the two places it may keep its position:
the payload (`stride`, `trail`) or the memory of one attempt (`pocket`). `wall` is what the
platform shows. Threads and Instagram Stories make one call per attempt and defer; X, the
X article, Discord and Zernio make several. Their own budgets (polls of a container,
rebuilds, refetches) are constants.

### FeedMedia and StoryMedia

Here nothing has a row: a file under its name is the record that it was made.
`FeedMedia` is one asset encoded per feed in a publish cycle, in lanes that share an encode
for the same bounds; an attempt that timed out leaves its encoder running. `StoryMedia` is
the Story variants of one asset, two of a video and one of an image, rendered in the server, by an
operator's command in another process, or by the remote processor with its single slot and its
cache of finished jobs. A render places one file after the other, so half of the pair may be there;
an encoder's output lies beside the name until it is renamed; a download a render gave up on
(`late`) still arrives. The delivery is Telegram's, which reads its own file of the pair.

### Breaker and Credentials

`Breaker` is one row of `credential_checks` (`gauge`) with the deliveries, the sweep and the
probe that read it before a call and change it after, the probe's clock, and the trip event
with its alert cooldown (`bulletin`). The ghosts `ledger` and `rounds` count what was really
refused and probed. `Credentials` is one credential in its three homes, `.env`, the sealed
row and the server's memory, with the renewal in flight; a renewal stores the fingerprint of the
`.env` it finds as the row's seed, also for an account that was connected in the browser
(`connected`).

### RemoteCopies, Desk, Notices, Deployment

`RemoteCopies` is one target of several objects under overlapping commands, each a process
that reads the row, calls once per object, and commits what it learned in one fenced
transaction. A purge's fence is the code's `targetSignature`: status and address. Where a platform
may leave a post without an address (the fault `unlinked`) it cannot tell two deliveries apart. `Desk` has a row per conversation with its step and revision, every screen
ever sent, and the album worker beside the serial handling of updates. `Notices` is
reminders, the journal with its cooldowns, and one or two overlapping consumers which
reserve an event before they call Telegram. `Deployment` is two agents and four targets,
with the environment file, the container and the record of each.

### MCWorkshop

The nine modules from `Adapters` to `Deployment` (all but the queues, drafts and pages) share no state, so one run checks them side
by side: the initial state picks a `scene`, only that part moves, and the state space is the
sum, not the product, of theirs.

## Runs

All runs set `CHECK_DEADLOCK FALSE`: when every row is final and the operators'
commands are spent the system has nothing left to do. The largest (`posts`, two
million states, `video` and `workshop`, above one each) take one to three minutes with two workers,
the others one or less.

| run | module | question |
|---|---|---|
| `audience` | `MCPublishQueue` | Does the queue keep `DeliveryPromise`, and does what it records correspond to what is out? |
| `rows` | `MCPublishQueue` | Do rows, target rows and leases stay consistent under every command and fault? |
| `cancel` | `MCPublishQueue` | Does a cancellation bind, whatever it races? |
| `settles` | `MCPublishQueue` | Does everything end? |
| `video` | `MCVideoQueue` | One copy on every route, and a status that is the truth? |
| `video_ends` | `MCVideoQueue` | Do the retries of a video end? |
| `posts` | `MCPostDraft` | Does any late answer land on another text, and is what goes out what was saved? |
| `site` | `MCSitePages` | Does a page keep its media, and is every change announced? |
| `workshop` | `MCWorkshop` | The nine parts around the queues, one at a time |
| `v_severed_chain`, `v_truncated`, `v_lost_connection` | | counterexamples, see [Findings](#findings) |

**audience** (about 270 000 states): one target with a chain of two posts, two
attempts in flight, two rows, a restart, lapsing leases, three commands. It checks
`KeepsPromise`, the refinement of `DeliveryPromise` with `shown <- live`: no post
appears twice or out of order, and after "cancel the rest" only targets part-way out
grow. `PhaseTruthful` says why: while an attempt that holds its row is at the platform,
the row says so, and that is what recovery and the timeout decide from.
`PublishedIsLive`: a target reported published names a post, and what is named is out.
`NothingForgotten`: whatever is out is named by the target, in doubt, under way or
continued from. The commands and faults left out here are the ones that break these
properties; they are in [Findings](#findings).

**rows** (about 490 000 states): one target of a staged adapter, every command and
every fault. `OneOpenRow`: a target never has two rows that could be delivered.
`MirrorAgrees`: the target row says what the job row says once it is under way,
delivered or in doubt. `HeldRowIsFenced`: a row under delivery changes status only by
its attempt or by recovery of an aged lock. `IndInv` is the invariant of the proofs.

**cancel** (about 820 000 states): two targets, one of them a chain, and the
cancellation racing claims, attempts, an emergency answer of an operator, a skip and a
new plan. `CancelBinds`: between a cancellation and the next request nothing reaches a
target that had nothing under way. A second target also keeps the draft alive when the
first is skipped, so a new row can meet a target that already names a post
(`ClaimRefuseDuplicate`).

**settles** (about 15 000 states): one worker, restarts, and no lease lapsing for a
living attempt. `PublishingEnds`: no row stays locked for ever. `DeliverySettles`: once
operators leave it alone, every row reaches a status nothing picks up by itself.

*Bounds of these four.* Two attempts in flight are needed for one to lose its row to the
other, and each property is about a pair; two rows per target are needed for a replan
beside an old row. Two parts give a chain a middle. `MaxAttempts = 2` gives one retry and
then none, `PartialMaxAttempts = 3` one more for a half-sent chain, and `ReconcileMax = 2` a
poll that is not the last. Three commands allow plan, cancel and ask again; one restart
allows a crash inside a call and a delivery after it, `settles` has two for a crash during
recovery's retry; `rows` has none, since a lease that lapses under a living attempt loses
the row as a crash does and leaves someone to write to it. What the first three check is
proved for every bound as well, see [Proofs](#proofs).

**video**: one target on each of the three routes (a choice of the initial state), two
workers of two overlapping processes, one restart, three objects on the platform, four
commands out of all six: what a repeated retry finds needs the fourth. `OneReel`: crashes, lost answers, retries and settlements put at
most one copy before the audience. `TargetTellsTheTruth`: published names something the
audience has, or a YouTube upload that goes public by itself, and that before its moment only where
a retry ran the publish job early; and failed, which a retry sends again, is never said of what is
out or on its way. `CancelledIsHeld`: a cancelled upload whose time has not come is private, or the
call that makes it so is under way or was reported lost. `SourceKept`: the source has a
deadline only while nothing needs it. `PreparedGoesOut`: a prepared target has the job that
publishes it. `PublishedStays`: no answer taken earlier overwrites a confirmed publication.
Three objects are one more than a first attempt and its retry make. Two targets share only
the draft's fold; the tests cover that fold, the run covers the races under it.

**video_ends**: two restarts, three attempts, preparation that may be claimed too early
(`unprepared`), a retry that still names an older post (`older_post`), answers nobody can read
(`unread_answer`). `VideoJobsEnd`: no job stays open for ever.

**posts** (about two million states): four editions, two posts in a thread, one attempt of each
loop, one restart, and every edit; Russian texts with and without a translation to ask for (`plain`).
`EnglishOfThisPost`: once nothing is queued, machine English in a thread is of the text its post has
now, whenever the last change of the thread asked for English; without that condition the
claim is `ThreadIsTranslated`, which this instance refutes. `CardShowsText`: under the same condition
a ready card is of the text the post has now. `DeliveredIsCurrent`: what is delivered is the plan of
what was saved, unless the author was told otherwise. `StoriesAreServed`: a post held back
has a card that will release it, and a planned Story has its picture. Four editions are an
original, its replacement while the translator is away, a second part, and a replacement of
that; the second attempt of a loop differs from the first only in its number. The fourth edition
is an edit of a thread and without a restart (`EditionsOutsideThreads`): a late answer in a thread
needs the thread to be made, a restart an edit before it and one after it.

**site**: both pages, four rows, two attempts, two commands and two troubles, in five
scenes. `PageKeepsItsMedia`: a page visitors can open shows its media, or a build is ahead,
or the operator knows. `NoStalePage`, `ChangeIsAnnounced`, and `SiteSettles`: every job ends
and every address is announced once commands and troubles are over. Two commands are the
one whose build is under way and the one that changes the page under it. The scenes keep
combinations apart that would multiply the states without meeting each other: repairs do
not read what plans write.

**workshop** (about a million states), one property for each part:

| part | property | what it says | instance |
|---|---|---|---|
| `FeedMedia` | `DeliveredFits` | every feed is handed the encode for its own bounds | two feeds of different bounds, two cycles, every fault |
| `StoryMedia` | `StoryIsItsOwn` | Telegram is handed the file made for it, whole, and never the other platform's of a pair that is half there | image and video, both providers, two processes, four renders, every fault |
| `Deployment` | `ReleasesHold` | the record names what runs and what a restart would run; what it goes back to was healthy | three releases, one of them bad, three requests, a death of an agent |
| `Credentials` | `CredentialHolds` | the account chosen last is published to, no refresh token is used twice | a Meta token and X, two accounts, five tokens, two restarts, no `CredentialFaults` |
| `RemoteCopies` | `CopiesAccounted` | one delivery is out at most, and every object of it is named | two commands at once, two parts, four objects, every object with an address |
| `Desk` | `DialogsHold` | one result for what was sent, one answer to a question, and a button does what its screen said | two messages, five moves |
| `Notices` | `NoticesHold` | told once, of what still stands; reminders and failures are not lost; the card catches up | two operators, one of whom blocked the bot, two consumers, one kill |
| `Adapters` | `PlaceHolds` | chains in order, the place survives the attempt, published is to the end, one article draft, deferrals end | albums of 0, 1, 3, chains of 1, 2 |
| `Breaker` | `BreakerHolds` | paused after exactly a threshold of refusals and for nothing else, probes spaced, trips told | one delivery, the sweep and the probe, six moments |

Each instance has two of whatever overlaps (commands, consumers, feeds, accounts, processes)
and one more unit of each budget than a first failure spends. `Adapters`, `FeedMedia` and
`Breaker` have counters, and their bounds are chosen so that each budget is exhausted in
some behaviour: two polls until patience ends, a threshold of two, a pause shorter than
the distance of probes. `MCWorkshop` fixes the initial choices of the parts that stand still.

*Fairness.* `PublishQueue` (`Fairness`): the queue loop polls and claims what is due
(`ClaimStep`); an attempt's next step happens, because every phase runs under a timeout
(`Deliver`); time passes for an orphaned lock (`LeaseExpires` of a row no one holds); the
watchdog loop recovers (`RecoverStale`); the sweep's request returns (`Reconcile`).
`VideoQueue`: a worker's next step, recovery of a stale lock, the coming of a time.
`SitePages`: the cycle, the end of a build, recovery, the coming of a date, and an
IndexNow request that is accepted in the end or repeated after its backoff. All are weak:
the loops of `runtime/workers.ts` run on intervals for ever and each of these steps stays
enabled until taken. Operators, crashes, lapses, troubles and a particular answer of a
platform are never fair, the one exception being that IndexNow, which refuses a bounded
number of times, accepts a request at last.

## Findings

Three are runs that TLC ends with a counterexample to what the repository says; those below name the
formula, and what to change in a run's `.cfg` to see it.

| run | what happens |
|---|---|
| `v_severed_chain` | A later part is in doubt; the sweep verifies the first post and calls the target published, with the rest never sent. |
| `v_truncated` | An encode that failed leaves a partial file under the name that means ready, and the next attempt publishes it. The Story encoder writes beside and renames. |
| `v_lost_connection` | A Meta account is connected while a renewal is in flight; the renewal stores its token over it. |

The rest is recorded in `PROJECT.json` with the lines that disagree. By part:

*Queue.* A plan queues a new row for a target the operator skipped (`publication-writer.ts:78`).
A retried Threads chain starts again, because `requeue.ts:168` keeps only underscored keys and
the adapter's progress has none. An accepted call whose body cannot be read is retried
(`errors.ts:46`). With an older cancelled row the claim's cancellation is refused on every cycle
(`queue.ts:163`). Cancelling a draft forgets what a half-sent chain has out
(`draft-lifecycle.ts:45`); when one target of that draft is then republished and the draft planned
anew, a Threads chain of another target, which names no post before its last, starts again (the
property `KeepsPromise`, two targets, `"plan"`, `"cancel_draft"` and `"republish"`). To see the
others, check in `MCPublishQueue`, with `Adapter <- AllStaged`, `"retry"`, and
`Faults = {"unreadable_answer"}` where they are needed, the formulas
`RetryWritesTheRest`, `LostAnswerIsInDoubt`, `CancelledWorkEnds` (under `FairSpec`) and
`RecordIsKept` of `PublishQueueClaims`, and `KeepsPromise` with `"replan_skipped"` and two
targets (skipping the only one cancels the draft). Not stated by a formula:
`operations/resume-from.ts:60` replaces the ids of a row by one, and after two parts the retry
sends the second again; recovery spends an attempt and asks for no budget (`queue.ts:249`) while
`runtime/workers.ts:87` speaks of the bounded retry policy; `publish-workflow.ts:281` says
preparation and verification timeouts stay retryable, and the first is permanent, the second
goes to verification; `cancellation.ts:49` leaves the draft `scheduled` when it stops
everything; the poll budget of a row in doubt is never reset.

*Video.* A YouTube upload in doubt does not hold the publish job waiting behind it, and
recovery of a spent preparation leaves the publish job queued: the fault `unprepared`, with
which `SourceKept`, `PreparedGoesOut` and `PublishedStays` fail. A retry keeps the
`providerPostId` of the post that was refused (`publishing/video-service.ts:383`), so when the
repeated publication is lost, whoever asks about it asks about the older post, and `failed` is
recorded while the new Reel is on its way: the fault `older_post`. A settlement of a failed
target, which the code accepts, is the operation `settle_failed`. An upload is asked about, and its
answer read, outside `ambiguousExternalMutation` (`delivery/video-publishers.ts:100`, `:101`, `:107`, `:139`),
so an error there is a plain failure although every byte may be committed: the queue uploads the
video again and both copies go public, and the same is true of the answers of a Reel's publication
and of the provider. That is the fault `unread_answer`; the comment at `video-publishers.ts:98` says
that this provider needs no verification. With any of the four `OneReel` and `TargetTellsTheTruth`
fail, the last one already with one worker, one target on `youtube` and no command but `"schedule"`;
`video` leaves them out, `video_ends` includes the three faults, and the [proofs](#proofs) name the
same four exclusions. A retry that continues from an upload runs the publish job after a minute
(`publishing/video-service.ts:390`), while the upload keeps the time it was sent with: the target is published
while nobody can see it, and cancelling the video then neither holds the upload nor keeps it from
going public. `TargetTellsTheTruth` says exactly which uploads that can be, and `CalledOffIsHeld`,
checked in place of the invariants of `video`, ends in that cancellation.

*Drafts.* A change of a thread queues a translation only if the first post's Russian asks for one
(`studio/services/posts.ts:153`): with Latin text there, a later post keeps the English of the text it
replaced, although the comment above that line says that every thread change leaves the English stale
(the accident `plain`; `ThreadIsTranslated` in `posts`). Making a thread shortens the first post and
draws no card again; where no translation is queued either, the cards show the text before the split,
which is `CardShowsText` without its condition. Editing the Russian text queues no translation, and one that lands after
scheduling reaches the draft and not the plan. A plan that comes due while a card is drawn again
publishes the older picture (the accident `late`), and an edit that is refused after its card was
replaced leaves the plan without its picture (`undone`). A Story of a one-language post waits for a card nobody
renders (`story-cards/store.ts:121`, the accident `one_language`).

*Site.* A replan after one language is published drops that page's media until the other is
built. A cancelled page still goes public at its time (`CancelledStaysHidden`, with
`Scenes <- CancelScenes`), and the cancelled row of a page that was not out yet can be retried:
it is opened at once (`requeue.ts:136`), and the page it builds is public before its time and
without its media (`PageKeepsItsMedia` in a scene of `"cancel"` and `"retry"`). A site row queued under a standing cancellation is never ended;
that is why `SiteSettles` has the disjunct `declared`.

*Files.* A forced repair that fails deletes the good pair (`PreparedStays`), and one sent to
the processor is answered from its cache.

*Deployment.* A failing deployment of the running release records it as its own predecessor
(`NotItsOwnPredecessor`); a 502 that means "rolled back" is retried as a network error; a first
deployment of an unrecorded target that fails or dies leaves in its environment file an image that
was never healthy, and the next one records that image as what to go back to (`"unproven"`).

*Credentials and breaker.* An account connected while a renewal is in flight is overwritten by the
answer of the renewal (`AccountIsChosen` with `CredentialFaults = {"race"}`), and a renewal of X whose
answer is lost leaves the used refresh token in the row (`TokenIsUnused` with `{"answer_lost"}`).
The renewal of a Meta token that was connected in the browser, whose row has no seed, stores the
fingerprint of whatever token `.env` holds (`channels/meta-tokens.ts:125`), so a later start with that line
edited or removed drops the account the operator chose, against the comments at `meta-tokens.ts:79`
and `:142` (`ConnectedStays` of `Credentials` with `{"env_edited"}`).
The answer of the probe never counts for a half-finished chain (`AnswerEndsTheWait`, with
`PartialTries = 3`), a refusal by the breaker spends an attempt, and no refreshed credential
closes it, whatever `auth-circuit.ts:9` says.

*Removals.* The signature a purge is fenced by knows no object, only target, status and URL
(`operations/publication-purge.ts:191`): a target republished while the purge asks the platform, whose old and
new posts have no URL (`delivery/social/discord.ts:151`, a missing permalink), looks the same, and the record of a
live post is erased (`CopiesAccounted` with `RemoteFaults = {"unlinked"}`, one part, two objects, two
commands). A purge passes over a target being published (`"unsettled"`); a target that is
half out is republished from the start; a removal repeated after a kill leaves the row
published for ever.

*Conversations.* An album and a text answer one question (`DeskFaults = {"overlap"}`), a part
that arrives during the import (`"late_part"`) or a crash before the row is deleted
(`"torn"`) makes a second draft, and the intake's buttons carry no revision.

*Notices.* The card is repainted on an event nobody records; a video's completion is
dropped behind an earlier one of the hour; publishing at once leaves the reminder; moving one
language in the last minutes reminds of the other twice.

*Adapters.* A Zernio call lost and then refused ends as failed with the post live; Discord
hands back nothing when a later message is refused, so its retry sends the first again. Both are
named exceptions of `PlaceHolds`.

## Proofs

Each theorem is for every value of the constants its module's `ASSUME`s allow: any number
of targets, workers, rows, parts, bounds and budgets, every command and every fault, unless
the table says otherwise.

| theorem | module | statement |
|---|---|---|
| `Inductive` | `PublishQueueProofs` | `Spec => []IndInv` |
| `TypeCorrect` | | `Spec => []TypeOK`; in particular no attempt or poll counter passes its budget |
| `PhaseIsTruthful` | | `Spec => []PhaseTruthful` |
| `HeldRowStaysFenced` | | `Spec => HeldRowIsFenced` |
| `RowsAreOrdered` | | `Spec => []RowsInv` |
| `OneRowIsOpen`, `MirrorIsTrue` | | `Spec => []OneOpenRow`, `Spec => []MirrorAgrees` |
| `CancellationBinds` | | `Spec => CancelBinds` |
| `PostsAreKnown`, `PromiseIsKept` | `PublishQueuePromiseProofs` | `Spec => []PromiseInv`, `Spec => KeepsPromise` (the refinement of `DeliveryPromise`), if `Kept` |
| `NothingTwice`, `NamesAreLive`, `NothingIsForgotten` | | `Spec => []NoDuplicate`, `Spec => []PublishedIsLive`, `Spec => []NothingForgotten`, if `Kept` |
| `VideoTypes` | `VideoQueueProofs` | `Spec => []TypeOK` |
| `VideoSourceKept`, `VideoPreparedGoesOut`, `VideoPublishedStays` | | `Spec => []SourceKept`, `Spec => []PreparedGoesOut`, `Spec => PublishedStays`, if `InOrder` |
| `VideoCancelledIsHeld` | | `Spec => []CancelledIsHeld`, if `InOrder` and `Readable` |
| `VideoTellsTheTruth`, `VideoOneReel` | | `Spec => []TargetTellsTheTruth`, `Spec => []OneReel`, if `Careful` |
| `DraftTypes`, `EnglishFollowsThePost`, `CardsFollowTheText` | `PostDraftProofs` | `DraftSpec => []DraftTypeOK`, `[]EnglishOfThisPost`, `[]CardShowsText` |
| `StoriesAreAlwaysServed`, `PlansAreCurrent` | | `DraftSpec => []StoriesAreServed`, if `Steady`; `DraftSpec => []DeliveredIsCurrent`, if also `"late"` is no accident |
| `SiteTypes`, `PagesAreNotStale`, `ChangesAreAnnounced` | `SitePagesProofs` | `SiteSpec => []SiteTypeOK`, `[]NoStalePage`, `[]ChangeIsAnnounced` |
| `PagesKeepTheirMedia` | | `SiteSpec => []PageKeepsItsMedia`, if `PlansAhead` |
| `EveryFeedFits`, `StoriesAreTheirOwn` | `DeliveryProofs` | `FeedSpec => [](FeedTypeOK /\ DeliveredFits)`, `StorySpec => [](StoryTypeOK /\ StoryIsItsOwn)` |
| `PlacesSurvive` | | `AdaptersSpec => [](AdaptersTypeOK /\ PlaceHolds)` |
| `BreakerInductive`, `BreakerIsSound` | `OperationsProofs` | `BreakerSpec => []BreakerInv`, `BreakerSpec => [](BreakerTypeOK /\ BreakerHolds)` |
| `CredentialsAreTyped` | | `CredentialSpec => []CredentialTypeOK` |
| `ChosenAccountIsUsed`, `RefreshTokenIsUnused` | | `CredentialSpec => []AccountIsChosen`, if neither `"race"` nor `"env_edited"` is a fault; `CredentialSpec => []TokenIsUnused`, if `"answer_lost"` is none |
| `CredentialsAreKept` | | `CredentialSpec => [](CredentialTypeOK /\ CredentialHolds)`, if `CredentialFaults = {}` |
| `RecordsAreTrue`, `AgentsKeepReleases` | | `DeploySpec => [](DeployTypeOK /\ RecordIsRunning)`; `DeploySpec => []ReleasesHold`, if `"unproven"` is no fault |
| `RemoteRowsAreTyped` | | `RemoteSpec => []RemoteTypeOK` |
| `CopiesAreAccounted` | | `RemoteSpec => [](RemoteTypeOK /\ CopiesAccounted)`, if `Settled` and `Linked` |
| `NoticesAreKept` | | `NoticesSpec => [](NoticesTypeOK /\ NoticesHold)` |
| `ButtonsDoWhatTheyShow` | `WorkshopProofs` | `DeskSpec => [](DeskTypeOK /\ ConfirmedIsShown)` |
| `QuestionsAreAnsweredOnce`, `SentIsTakenOnce` | | `DeskSpec => []AskedOnce`, if `OneAtATime`; `DeskSpec => []TakenOnce`, if `RowsGo` |
| `DialogsAreKept` | | `DeskSpec => [](DeskTypeOK /\ DialogsHold)`, if `DeskFaults = {}` |
| `PartsKeepTheirTypes` | | `WorkshopSpec => []WorkshopTypeOK` |

*Assumptions*: the named `ASSUME`s of the modules, and no others. In `PublishQueue` the
names `none` and `recon` are no worker's, bounds are naturals, an adapter has one of the four
shapes and at least one part, commands and faults are among the known ones; the breaker's
periods are positive and the probe's interval is longer than its retry.

*`IndInv`* strengthens `TypeOK` by three facts. `PhaseTruthful` is not inductive alone: it
says that the phase of a row *may have reached the audience*, and to carry it through
`EnterPhase` one must know which phase it is, so `PhaseIsNamed` says the row of an attempt
at the platform names exactly that phase. `PollsLeft` is needed for `reconcile` to stay
within its type: the budget is asked when the sweep claims a row, spent when it defers, and
between the two only the lock protects the count. `RowsAreAsked` (no rows without a
publication) is kept by the same case analysis. Every action has a lemma that states its
effect in the same three terms: what it does to rows (`JobsEffect`: each row is untouched,
settled by its holder, recovered when stale, or changed by a command that excludes
`publishing`), to attempts (`AttemptEffect`) and to the types. `StepEffect` collects them
over `Next`; `PhaseKept`, `PollsKept`, `AskedKept` and `HeldRowStaysFenced` use only those
effects.

*`RowsInv`* adds the order of rows: ids are given in order and never reused (`IdsOnlyGrow`),
and only the newest row of a target is not given up (`NewestOpen`). `OneOpenRow` alone is not
inductive, because a command acts on the *latest* row and could revive an older open one;
`MirrorAgrees` needs `OneOpenRow`, since a settlement writes the one target row from
whichever job row it settles.

*`CancelBinds`* is a property of steps. Its invariant `FinishedOnly` says that while a
cancellation stands, a target with anything under way or half out was so when it was
declared: claims ask, recovery and settlements only continue, and every command that asks
for something new takes the declaration away.

*The promise to the audience.* `Kept` is what the theorems assume of an instance: the answer of an
accepted call can be read, neither `resume_from` nor the plan of a skipped target is used, and a
target whose publication is several posts has an adapter that hands back those that went out
(`chain`), or one that keeps their number with the row (`staged`) and no command that drops it
(`LeftAlone`: no retry or resend, and not the cancellation of a draft together with a republication,
which makes the draft plannable again). Each of these is needed: TLC ends in two copies of a post with any
of them put back, the way [Findings](#findings) tells, and with a `split` adapter of several posts as
well (Discord, in `PlaceHolds`). A staged delivery differs from a chain in what it leaves on the way:
a deferral writes `progress` and `resume` of its row and no name into its target, so a row under way
may have posts out that the target does not name. `RowKnows` therefore keeps `progress` with
`resume`, `ResultKnows` says that an attempt which still has something to report has sent at most
its one part, and `Shelved` and `TakenBack` are the one place where what is out is known by the
given-up row alone: a draft that was cancelled part-way and that nothing wakes. Under `Kept` the posts of a target are always a
prefix of its parts, and `PromiseInv` says that whoever may publish next knows its length: a
waiting row, and one under delivery whose phase says that nothing was called for (`RowKnows`:
`resume` posts are out, or the target names a post whose row was given up, and then the claim
refuses); the attempt that holds its row (`HolderKnows`: `from + sent`, with `from` what the row
says); and the attempt at the platform whether or not it still holds its row (`CallerKnows`),
for a call that timed out may yet land. The last is what makes the rest hold: while somebody is
at the platform no row of the target waits, and there is at most one such attempt (`OneCaller`).
A target that has no open row has nothing out that is not named or given up (`ClosedKnows`,
`Untouched`), so a plan may begin there. `NothingForgotten` follows with `MirrorAgrees`; the
refinement follows with `FinishedOnly`: a call that lands is `Show` of the next part, a plan or
a retry is `Ask`, a first "cancel the rest" is `Stop`, and every other step stutters.

*`VideoQueue`.* Three invariants, each resting on the one before. `RowsInv` is about one target's
*line*, its two rows, their attempts and its status: which statuses go with which open rows, that a
row in doubt or with someone at the platform is waited for by the other (`Frozen`), and that a
question of the sweep names the row and the object it asked about. `SourceKept`, `PreparedGoesOut`
and `PublishedStays` follow from it. Its hypothesis `InOrder` leaves out the fault `unprepared`: a
publish job that is claimed before its upload is known to have ended is exactly what a line
excludes. `PlatformInv` relates the rows to what the platform holds: for YouTube every upload is
named, under way, or in doubt (`Accounted`), so a cancellation that holds what the row names holds
everything; for Instagram a container belongs to the attempt that made it; for the provider, posts
are numbered by the request they answer. `CancelledIsHeld` follows. `TruthInv` is about the provider
again, whose rows can be asked about later: the post a row names is the one its last request made.
`TargetTellsTheTruth` and `OneReel` follow where the operator settles nothing the code should have
refused (`settle_failed`) and a retry does not keep the older post's name (`older_post`). From
`PlatformInv` on, an answer can be read (`Readable`: no `unread_answer`), because an upload nobody
names is what `Accounted` excludes. `Careful` is `InOrder` and `Readable` without `older_post` and
`settle_failed`, and each of the four is a finding that breaks the properties. On the instance of
`video` TLC finds `TargetTellsTheTruth` and `OneReel` violated with any one of the four, and `SourceKept`,
`PreparedGoesOut` and `PublishedStays` with `unprepared`. Only for `CancelledIsHeld` are `InOrder` and
`Readable` what the proof needs and perhaps not the property: TLC finds no violation with
`unread_answer` on the instance of `video`, nor with `unprepared` on its YouTube and Instagram routes.
A published YouTube upload is public, or waits for its moment while the moment has come or a retry
has armed the publication; `YouTube` carries that disjunction, and `TargetTellsTheTruth` is it.

*`PostDraft`.* An answer is about a text only if its claim still stands, and every edit takes the
claims of what it changes away, unless it is a change of a thread that asks for no English (`asked`).
`EnglishInv` says so of the translator: while its claim stands and the last change asked, the
texts it was given are those of the posts. `CardsInv` says it of the renderer: a row that is still
claimed is about the card being drawn, and once no English is to come every card is queued for the text
there is. Both hold with every accident. `DeckInv` is what the rows
have in common: a card that is ready has its file, a post with media has no card, the two languages
have one together. `StoryInv` says that a planned Story shows the cards of the post unless one is
being drawn again, and `PlanInv` that a plan is current or waits for cards; `StoriesAreServed` and
`DeliveredIsCurrent` follow from these three. `Steady` leaves out the accidents `undone` and
`one_language`, and `PlansAreCurrent` also `late`, the three of [Findings](#findings); the fourth,
a text no platform takes, is in. None of the exclusions is idle: TLC finds `StoriesAreServed` violated
with `undone` or `one_language` alone, and `DeliveredIsCurrent` with `one_language`, with `late`, or with
`undone` once `unfit` makes something to refuse.

*`Desk`.* A question leaves copies: the revision on a screen, in an answer whose media is being
imported, in an album's row. `DeskInv` relates each to the conversation as it is now. One
conversation is open at most, and whatever is open asks a question that was posed last
(`SessionsKnown`); a question still in a conversation or in the import has no answer yet
(`OpenQuestions`), and an answer under way is to the question of its revision or to none that is
open (`AnswerFits`), so that an answer either ends its question or finds it over. What was sent is
in one place, a conversation, an import or an album, until it goes into a result (`SentHomes`). A
screen whose revision is current shows what the conversation holds (`ScreenFits`), from which
`ConfirmedIsShown` follows; that a confirmation without times names no platforms (`Fits`) is what
"publish now" needs. A step is then one of few things: it ends, asks or answers (`Talk`, `Result`),
and shows a screen or none (`ScreenShown`). The invariant holds whatever the server does meanwhile, and
two of its parts say what they lean on: that a question still open has no answer needs that nothing is
done beside an import (`OneAtATime`: no `"overlap"`), and that what was sent is in one place needs that the row
of an album goes with the draft it became (`RowsGo`: no `"late_part"`, no `"torn"`). Neither condition can be
dropped and neither part needs the other's: TLC finds `AskedOnce` violated with `"overlap"` alone and
`TakenOnce` with `"late_part"` or with `"torn"` alone, and each holds with the other's faults.
`ConfirmedIsShown` needs nothing.

*`SitePages`.* `FenceInv` relates the render under way to the page: what was replaced under a
build is known to it as changed, so what it may still write was made from the page's media
(`BuildKnows`). `OutboxInv` relates the request in flight to what is pending: an address changed
after the request was sent stays in the file when it is accepted. `QueueTyped` is the shape of the rows and which
of them may be locked. `MediaInv` says of each page that the public can open that it shows its media
or that a job of it `Promises` to: one not begun, one whose lock was lost, one the build under way
is rendering, or one that failed, which the operator is told of. A page whose time has not come has
a job that waits for it. `PlansAhead` leaves out the two scenes of the findings, a plan made after
one page was rendered and a retry of what was cancelled, since both strand a page.

*`FeedMedia`.* A file fits the bounds in its name, every encoder writes only the name of its
own bounds, even one whose attempt is over, and what was shown fits.

*`StoryMedia`.* `StoryInv` says of each step what may be on disk. Whatever has the name of a variant
is whole (`Placed`), because encoders, downloads and even a download that was given up on write another
name and rename; a render that is placing its files has whole ones beside (`LanesFit`); and a
delivery that found its files prepared named every file of the asset and not some of them
(`NamesThePair`). The last is what the pair needs: half of it may be there at any moment, and a
delivery that took the half it found would hand Telegram the standard file.

*`Adapters`.* What is out is known at every step to the payload of a row that may be tried again or
to the memory of the calls under way: `WallInv` gives the wall of each adapter as a function of the
two, and every answer, loss and restart either keeps that or leaves the row in doubt. Discord hands
back nothing of what it sent, which is why it is excepted from the order of a chain. `EssayInv`
says the same of an article's draft. `PausesEnd` is an invariant with a measure (`PaceInv`): the
deferrals so far are paid for by the containers that are ready, each worth the `Patience` polls it
may have waited, by the one being waited for, by the posts out and by the rebuilds and fetches
spent; the stage says how many containers there are (`ThreadsPlace`), at most those of two albums
and one for each post. An Instagram Story pays by the container it is at.

*`Breaker`.* The gauge is related to the two ghosts that count what the provider really said
(streak, last refusal, last trip) and to the alert's clock; `BreakerInv` also orders the times.

*`Credentials`.* What the server would publish with depends on whether the row grew from the
`.env` token it read. `ChosenInv` says which homes agree: memory is that token whenever the
row does not decide (`EnvInMemory`) or is due for renewal (`DueInMemory`), a renewal carries
the account chosen (`CallFits`), a token new in `.env` is one no row grew from (`EnvIsNew`), and only a
connected account's row of Meta is tied to no `.env` token (`SeedUntilConnected`), which a renewal ends.
`UnusedInv` says that a used token of X is neither in the row nor, without a row, the one of `.env`.
The two halves of `CredentialHolds` fail for different reasons: an account connected while a renewal
is in flight is overwritten by it (`"race"`), one that was connected and renewed is dropped by a start
with another `.env` (`"env_edited"`), and an answer that is lost leaves a used token stored
(`"answer_lost"`). TLC finds each half violated with its own fault and not with the other; types and
the tokens' numbers (`CredentialTyped`) hold with both.

*`RemoteCopies`.* Every republication is a *round*, and what is out is of one round and named by the
row, by the job's progress or by the delivery under way (`LiveIsNamed`). A command knows of each
object it saw whether it took it down, and what it saw published in the round that still stands
covers what is out (`KnowsItsObjects`). A command that found nothing published has nothing to be fenced on, and runs alone on a target that is gone
(`KeepsApart`). That, and that a purge finds the target at rest, is what the fault `unsettled` breaks
and `Settled` assumes. A purge recognises what it asked about by its address alone: `LinksFit` says that
an address is of an object of the delivery it stands for, in the row and in what a command saw, and
needs that every object has one (`Linked`). TLC finds `CopiesAccounted` violated with either fault.

*`Deployment`.* `Reached` says of each step of an agent what is done by then: what is written is the
goal, what runs is what was written. `Followed` carries that across the two hosts: while the first
waits, the second works for the goal of the first, an answer "ok" is only there while the second
host rests on that goal, and it never works without a deployment or a trouble of the first. A target
at rest (`Resting`) agrees with its record; a death marks its target as in trouble, which the next
success ends. `HealthInv` adds that what is recorded, displaced, activated or promoted was seen
healthy, and needs that a target without a record is not taken over from an image nobody saw healthy
(`"unproven"`).

*`Notices`.* What `NoticesHold` says leans on what the consumer has in hand. An event on a desk is
reserved and on no other desk, and no administrator still to be told has heard it (`ToldInv`). A
failure names its one half, so a notice dropped as moot is about a half that moved on
(`FailureInv`). With one process the card shows, or the desk is about to show, what no event still
waiting will correct (`CardInv`): an event that expires unread, a refused edit and a death are
exactly the steps that make it `blank`.

*Model-checked only*: the liveness (`PublishingEnds`, `DeliverySettles`, `VideoJobsEnd`, `SiteSettles`),
which is beyond the prover, and the properties of the three runs that expect a violation. Every other
property of a run is stated by a theorem. What is proved of a part is true of it in `MCWorkshop`, where
one part moves and the others stand still (`PartsBehave`: a behaviour of `WorkshopSpec` is one of each part's
specification). No module uses a `RECURSIVE` operator.

## Not modelled

* *HTTP, public read models, MCP and CLI dispatch, settings screens*: they keep no state that
  races anything; what they call is modelled where the state is. The read model's one rule that
  matters, when a page is public, is `Public` of `SitePages`.
* *Maintenance, backups, usage counters, migrations*: they read or delete by age what other
  components left, and nothing waits for them.
* *Texts, markdown, formatting, captions, keyboards, prompts*: data transformation. Where a
  limit of a platform decides something (`unfit` of `PostDraft`), it is a free choice.
* *Uploads and encodings* are one step with every outcome. *Editing a published text in place*
  is one remote call with nothing to race but itself.
* *The order in which due rows are claimed, lanes per target, backoff, the delay of
  blog-dependent posts*: the model allows every order, so what holds, holds for the code's.
* *Warnings of expiry and of missing scopes, the redirects of consent pages, job slots of the media
  processor beyond a busy one.*
* *`settleForReconciliation`* (`publishing/queue.ts:463`), which settles a retryable result that
  names posts and is not partial, a result no adapter returns.
* *Wake-ups and drain* (`worker-signal.ts`, `scheduler.ts`): a lost wake-up delays a cycle to the
  next interval, which fairness covers; a drain that is cut short is a crash.
* *Two backend processes on one database* are excluded by the deployment, except while one
  starts and the other stops: `VideoQueue`'s `overlap`, `Notices`' second clerk. SQLite is taken as
  serialised transactions.

The components with status `partly` or `not_modelled` in `PROJECT.json` say what each leaves out.

## What is left

1. Two targets under one video draft in a run of their own.
2. Queue slots and settings, with the schedule they propose.
3. The drain of a stopping process, and an interval loop whose task outlives it.
