------------------------------ MODULE SitePages ------------------------------
(***************************************************************************)
(* The public pages of one post, one page per language, and the queue that *)
(* renders them.  A page is public when its locale is enabled for the site *)
(* and its time has come, whatever the queue has done; the queue copies    *)
(* the post's media into the page (a page shows no media that has not been *)
(* copied).  Rendering takes long, so commands change the page and the     *)
(* queue under it.  A finished build also names the page to IndexNow: the  *)
(* file of pending addresses and the serialised requests are here too.     *)
(***************************************************************************)
EXTENDS Integers, FiniteSets, SequencesExt

CONSTANTS
  Scenes,      \* the sets of commands and faults a behaviour is limited to
  MaxAttempts, \* SITE_JOB_MAX_ATTEMPTS (5 in the code)
  MaxRows,     \* bound: site jobs of the post
  MaxCommands, \* bound: operator commands in a behaviour
  MaxTroubles  \* bound: failed builds, crashes, stalls and refused requests

AllSceneParts == {"plan", "late_plan", "repair", "alt", "cancel", "cancel_draft", "retry", "skip",
                  "fail", "crash", "stall", "refuse"}
ASSUME SiteBoundsAssumption ==
  /\ MaxAttempts \in Nat \ {0} /\ MaxRows \in Nat \ {0, 1}
  /\ MaxCommands \in Nat /\ MaxTroubles \in Nat
ASSUME SiteScenesAssumption == Scenes \subseteq SUBSET AllSceneParts

Locales == {"ru", "en"}
Reasons == {"site", "edit", "media", "refresh"} \* site_ru, edit_ru, replace_ru_media, refresh_ru_site
OpenStatuses == {"queued", "rendering"}
ActiveStatuses == OpenStatuses \union {"published"}
Statuses == ActiveStatuses \union {"failed", "cancelled"}

VARIABLES
  scene,    \* what this behaviour may do
  page,     \* post_locales: the media of the post and what the page shows of it
  rows,     \* site_jobs, oldest first
  declared, \* a publication_cancellations row stands
  hidden,   \* the draft is cancelled: the feed leaves it out
  build,    \* the cycle's render under way
  index,    \* indexnow.json and the requests of this process
  spent     \* commands and troubles so far (bounds only)

siteVars == <<scene, page, rows, declared, hidden, build, index, spent>>

Page == [enabled: BOOLEAN, due: BOOLEAN,
         media: {"raw", "copied", "outdated"}] \* site_media_json: as planned, copied, copied from replaced media
Row == [reason: Reasons, locale: Locales, status: Statuses, attempts: 0 .. MaxAttempts,
        waits: BOOLEAN,                 \* next_attempt_at is the locale's publication time
        lock: {"none", "mine", "lost"}] \* locked_by: this cycle's, or a cycle that died
Outbox == [pending: SUBSET Locales, \* pending_urls
           batch: SUBSET Locales,   \* the addresses of the request under way
           again: SUBSET Locales,   \* those whose revision changed since it was sent
           owed: SUBSET Locales,    \* ghost: changed and in no accepted request since
           busy: BOOLEAN, chained: Nat, backoff: BOOLEAN]
\* The render under way: the locales it makes, those written since it read their
\* version, and those whose media were replaced since.
NoBuild == [on |-> FALSE, doing |-> {}, stale |-> {}, replaced |-> {}]

SiteTypeOK ==
  /\ scene \in Scenes
  /\ page \in [Locales -> Page]
  /\ rows \in Seq(Row) /\ Len(rows) <= MaxRows
  /\ declared \in BOOLEAN /\ hidden \in BOOLEAN
  /\ build \in [on: BOOLEAN, doing: SUBSET Locales, stale: SUBSET Locales, replaced: SUBSET Locales]
  /\ index \in Outbox
  /\ spent \in [commands: 0 .. MaxCommands, troubles: 0 .. MaxTroubles]
  /\ \A i \in DOMAIN rows : (rows[i].lock = "none") <=> (rows[i].status # "rendering")
  /\ \A i \in DOMAIN rows : rows[i].attempts = MaxAttempts => rows[i].status \in {"failed", "cancelled"}

SiteRow(l) == [reason |-> "site", locale |-> l, status |-> "queued", attempts |-> 0, waits |-> TRUE, lock |-> "none"]

\* A plan of both languages, each page's time still to come.
SiteInit ==
  /\ scene \in Scenes
  /\ page = [l \in Locales |-> [enabled |-> TRUE, due |-> FALSE, media |-> "raw"]]
  /\ rows = <<SiteRow("ru"), SiteRow("en")>>
  /\ declared = FALSE /\ hidden = FALSE
  /\ build = NoBuild
  /\ index = [pending |-> {}, batch |-> {}, again |-> {}, owed |-> {}, busy |-> FALSE, chained |-> 0, backoff |-> FALSE]
  /\ spent = [commands |-> 0, troubles |-> 0]

Command(part) ==
  /\ part \in scene /\ spent.commands < MaxCommands
  /\ spent' = [spent EXCEPT !.commands = @ + 1]
Trouble(part) ==
  /\ part \in scene /\ spent.troubles < MaxTroubles
  /\ spent' = [spent EXCEPT !.troubles = @ + 1]

---------------------------------------------------------------------------
(* What visitors see *)

Public(l) == page[l].enabled /\ page[l].due /\ ~hidden
HasMedia(l) == page[l].media # "raw"

RowsOf(l) == {i \in DOMAIN rows : rows[i].locale = l}
LatestSiteRow(l) ==
  LET own == {i \in RowsOf(l) : rows[i].reason = "site"}
  IN IF own = {} THEN 0 ELSE CHOOSE i \in own : \A j \in own : j <= i

Due(l) ==
  /\ ~page[l].due
  /\ page' = [page EXCEPT ![l].due = TRUE]
  /\ UNCHANGED <<scene, rows, declared, hidden, build, index, spent>>

---------------------------------------------------------------------------
(* The cycle *)

\* MUTANT: the last attempt is followed by another.
ReleasedOnceMore(row) ==
  [row EXCEPT !.lock = "none", !.attempts = @ + 1, !.waits = FALSE,
              !.status = IF row.attempts < MaxAttempts THEN "queued" ELSE "failed"]
\* The lock of a cycle that died is older than the timeout: at startup with a
\* short grace, later by the cycle or the watchdog.
Released(row) ==
  LET attempt == row.attempts + 1 IN
  [row EXCEPT !.lock = "none", !.attempts = attempt, !.waits = FALSE,
              !.status = IF attempt < MaxAttempts THEN "queued" ELSE "failed"]
Recover ==
  /\ \E i \in DOMAIN rows : rows[i].lock = "lost"
  /\ rows' = [i \in DOMAIN rows |-> IF rows[i].lock = "lost" THEN Released(rows[i]) ELSE rows[i]]
  /\ UNCHANGED <<scene, page, declared, hidden, build, index, spent>>
\* The heartbeat did not run for the whole timeout and the watchdog did.
Stall ==
  /\ build.on /\ Trouble("stall")
  /\ rows' = [i \in DOMAIN rows |-> IF rows[i].lock = "mine" THEN Released(rows[i]) ELSE rows[i]]
  /\ UNCHANGED <<scene, page, declared, hidden, build, index>>

Claimable(row) == row.status = "queued" /\ (row.waits => page[row.locale].due) /\ ~declared

\* The jobs' statuses decide which locales a build renders, not the plan.
ActiveLocales(jobs) == {jobs[i].locale : i \in {j \in DOMAIN jobs : jobs[j].status \in ActiveStatuses}}

\* Claim, then the source and the version of both locales in the same step.
CycleBegins ==
  /\ ~build.on
  /\ \E i \in DOMAIN rows : Claimable(rows[i])
  /\ rows' = [i \in DOMAIN rows |-> IF Claimable(rows[i]) THEN [rows[i] EXCEPT !.status = "rendering", !.lock = "mine"]
                                    ELSE rows[i]]
  /\ build' = [on |-> TRUE, doing |-> {l \in ActiveLocales(rows') : page[l].due}, stale |-> {}, replaced |-> {}]
  /\ UNCHANGED <<scene, page, declared, hidden, index, spent>>

\* MUTANT: the manifest is written whatever happened to the source since.
WrittenUnfenced(b) == b.doing
\* The locales whose manifest may be written: untouched since they were read.
Written(b) == b.doing \ b.stale
\* MUTANT: a manifest that was not stored counts as rendered.
StaleIsRendered(b) == FALSE
StaleWrite(b) == b.doing \ Written(b) # {}

FailOne(row) == IF row.lock = "mine" THEN Released(row) ELSE row
CompleteOne(row) == IF row.lock = "mine" THEN [row EXCEPT !.status = "published", !.lock = "none"] ELSE row

Rendered(l) == IF l \in build.replaced THEN "outdated" ELSE "copied"
Persisted == [l \in Locales |-> IF l \in Written(build) THEN [page[l] EXCEPT !.media = Rendered(l)] ELSE page[l]]

---------------------------------------------------------------------------
(* IndexNow: addresses wait in a file, requests go one after another *)

Waiting(ix) == ix.pending # {}
\* No request under way: nothing of the last one is remembered.
Quiet(ix) == [ix EXCEPT !.busy = FALSE, !.batch = {}, !.again = {}]
Send(ix) ==
  IF Waiting(ix) THEN [ix EXCEPT !.busy = TRUE, !.batch = ix.pending, !.again = {}] ELSE Quiet(ix)

\* A new revision of every address, whether it was pending or not.
Enqueued(ix, urls) ==
  [ix EXCEPT !.pending = @ \union urls, !.again = IF ix.busy THEN @ \union urls ELSE @, !.owed = @ \union urls]
\* MUTANT: only a finished build sends what is pending.
PingedWhenBuilt(ix, urls) ==
  IF urls = {} THEN ix
  ELSE LET filed == Enqueued(ix, urls) IN IF ix.busy THEN [filed EXCEPT !.chained = @ + 1] ELSE Send(filed)
Pinged(ix, urls) ==
  IF urls = {} THEN IF ~Waiting(ix) \/ ix.busy \/ ix.backoff THEN ix ELSE Send(ix)
  ELSE LET filed == Enqueued(ix, urls) IN IF ix.busy THEN [filed EXCEPT !.chained = @ + 1] ELSE Send(filed)

\* MUTANT: everything the request named is taken as announced.
DroppedByName(ix) == ix.pending \ ix.batch
\* An accepted request clears the addresses whose revision it carried.
Dropped(ix) == ix.pending \ (ix.batch \ ix.again)

NextSend(ix) == IF ix.chained > 0 THEN Send([ix EXCEPT !.chained = @ - 1]) ELSE Quiet(ix)
IndexAccepted ==
  /\ index.busy
  /\ index' = NextSend([index EXCEPT !.pending = Dropped(index), !.backoff = FALSE,
                                      !.owed = @ \ (index.batch \ index.again)])
  /\ UNCHANGED <<scene, page, rows, declared, hidden, build, spent>>
IndexRefused ==
  /\ index.busy /\ Trouble("refuse")
  /\ index' = NextSend([index EXCEPT !.backoff = TRUE])
  /\ UNCHANGED <<scene, page, rows, declared, hidden, build>>
BackoffPasses ==
  /\ index.backoff
  /\ index' = [index EXCEPT !.backoff = FALSE]
  /\ UNCHANGED <<scene, page, rows, declared, hidden, build, spent>>
\* A cycle with nothing to build drains what is pending.
IdleCycle ==
  /\ ~build.on /\ ~\E i \in DOMAIN rows : Claimable(rows[i])
  /\ Waiting(index) /\ ~index.busy /\ ~index.backoff
  /\ index' = Pinged(index, {})
  /\ UNCHANGED <<scene, page, rows, declared, hidden, build, spent>>

---------------------------------------------------------------------------
(* The end of a build *)

\* The manifests are stored and the jobs settled before anything else runs; a
\* build that met a changed source is a failed one and renders again.
BuildEnds ==
  /\ build.on
  /\ LET completes == ~StaleWrite(build) IN
     /\ rows' = [i \in DOMAIN rows |-> IF completes THEN CompleteOne(rows[i]) ELSE FailOne(rows[i])]
     /\ index' = Pinged(index, IF completes /\ rows' # rows THEN {l \in Locales : Public(l)} ELSE {})
  /\ page' = Persisted
  /\ build' = NoBuild
  /\ UNCHANGED <<scene, declared, hidden, spent>>
\* A file that cannot be fetched or transcoded.
BuildFails ==
  /\ build.on /\ Trouble("fail")
  /\ rows' = [i \in DOMAIN rows |-> FailOne(rows[i])]
  /\ index' = Pinged(index, {})
  /\ build' = NoBuild
  /\ UNCHANGED <<scene, page, declared, hidden>>

\* The process dies, with the manifests stored or not, and the jobs not settled.
Crash ==
  /\ build.on \/ index.busy
  /\ Trouble("crash")
  /\ page' \in {page, Persisted}
  /\ rows' = [i \in DOMAIN rows |-> IF rows[i].lock = "mine" THEN [rows[i] EXCEPT !.lock = "lost"] ELSE rows[i]]
  /\ build' = NoBuild
  /\ index' = [index EXCEPT !.busy = FALSE, !.chained = 0, !.batch = {}, !.again = {}]
  /\ UNCHANGED <<scene, declared, hidden>>

---------------------------------------------------------------------------
(* Commands of the operator and of the bot *)

Touched(ls) == IF build.on THEN [build EXCEPT !.stale = @ \union ls] ELSE build
Replaced(ls) == IF build.on THEN [Touched(ls) EXCEPT !.replaced = @ \union ls] ELSE build

OpenAlready(reason, l) == \E i \in RowsOf(l) : rows[i].reason = reason /\ rows[i].status \in OpenStatuses
Repair(reason, l) ==
  rows' = IF OpenAlready(reason, l) THEN rows
          ELSE Append(rows, [SiteRow(l) EXCEPT !.reason = reason, !.waits = FALSE])

\* Content repair of what is published: text, media, or only the page.
EditText(l) ==
  /\ Command("repair") /\ Len(rows) < MaxRows
  /\ build' = Touched({l})
  /\ Repair("edit", l)
  /\ UNCHANGED <<scene, page, declared, hidden, index>>
ReplaceMedia(l) ==
  /\ Command("repair") /\ Len(rows) < MaxRows
  /\ page' = [page EXCEPT ![l].media = "raw"]
  /\ build' = Replaced({l})
  /\ Repair("media", l)
  /\ UNCHANGED <<scene, declared, hidden, index>>
RefreshPage(l) ==
  /\ Command("repair") /\ Len(rows) < MaxRows
  /\ Repair("refresh", l)
  /\ UNCHANGED <<scene, page, declared, hidden, build, index>>
\* Reviewed descriptions of the page's pictures, and its address to IndexNow.
DescribeMedia(l) ==
  /\ Command("alt") /\ page[l].enabled /\ HasMedia(l)
  /\ build' = Touched({l})
  /\ index' = Enqueued(index, {k \in Locales : Public(k)})
  /\ UNCHANGED <<scene, page, rows, declared, hidden>>

\* An edit or a new schedule of a post still waiting: queued and failed jobs go,
\* both pages are written anew, and a locale rendered or being rendered gets no job.
FinalLocales == {rows[i].locale : i \in {j \in DOMAIN rows : rows[j].status \in {"rendering", "published"}}}
\* The rows that stay are found in their order.
InOrder(kept) == {f \in [1 .. Cardinality(kept) -> kept] : \A a, b \in DOMAIN f : a < b => f[a] < f[b]}
Planned(kept) == kept \o SetToSeq({SiteRow(l) : l \in Locales \ FinalLocales})
Plan(later) ==
  /\ \/ Command("plan") /\ FinalLocales = {}
     \/ Command("late_plan") /\ FinalLocales # {} /\ later \intersect FinalLocales = {}
  /\ ~hidden
  /\ \E i \in DOMAIN rows : rows[i].status = "queued" /\ rows[i].waits
  /\ Len(rows) + 2 <= MaxRows
  /\ declared' = FALSE
  /\ page' = [l \in Locales |-> [page[l] EXCEPT !.media = "raw", !.due = @ /\ l \notin later]]
  /\ \E f \in InOrder({i \in DOMAIN rows : rows[i].status \notin {"queued", "failed"}}) :
       rows' = Planned([n \in DOMAIN f |-> rows[f[n]]])
  /\ build' = Replaced(Locales)
  /\ UNCHANGED <<scene, hidden, index>>

CancelledRow(row) == IF row.status \in {"queued", "failed"} THEN [row EXCEPT !.status = "cancelled"] ELSE row
CancelRemaining ==
  /\ Command("cancel") /\ ~hidden
  /\ declared' = TRUE
  /\ rows' = [i \in DOMAIN rows |-> CancelledRow(rows[i])]
  /\ UNCHANGED <<scene, page, hidden, build, index>>
CancelDraft ==
  /\ Command("cancel_draft") /\ ~hidden
  /\ hidden' = TRUE
  /\ IF FinalLocales # {}
     THEN /\ declared' = TRUE
          /\ rows' = [i \in DOMAIN rows |-> CancelledRow(rows[i])]
          /\ UNCHANGED <<page, build>>
     ELSE /\ rows' = <<>>
          /\ page' = [l \in Locales |-> [page[l] EXCEPT !.enabled = FALSE, !.media = "raw", !.due = FALSE]]
          /\ build' = Touched(Locales)
          /\ UNCHANGED declared
  /\ UNCHANGED <<scene, index>>
Retry(l) ==
  LET i == LatestSiteRow(l) IN
  /\ Command("retry") /\ i # 0
  /\ rows[i].status \in {"failed", "cancelled", "published"}
  /\ rows' = [rows EXCEPT ![i].status = "queued", ![i].attempts = 0, ![i].waits = FALSE]
  /\ declared' = FALSE
  /\ UNCHANGED <<scene, page, hidden, build, index>>
Skip(l) ==
  LET i == LatestSiteRow(l) IN
  /\ Command("skip") /\ i # 0
  /\ rows[i].status = "failed"
  /\ rows' = [rows EXCEPT ![i].status = "cancelled"]
  /\ UNCHANGED <<scene, page, declared, hidden, build, index>>

Queueing == Recover \/ CycleBegins \/ BuildEnds
Announcing == IndexAccepted \/ BackoffPasses \/ IdleCycle
Troubles == Stall \/ BuildFails \/ Crash \/ IndexRefused
Commands ==
  \/ \E l \in Locales : EditText(l) \/ ReplaceMedia(l) \/ RefreshPage(l) \/ DescribeMedia(l) \/ Retry(l) \/ Skip(l)
  \/ \E later \in SUBSET Locales : Plan(later)
  \/ CancelRemaining \/ CancelDraft
SiteNext == Queueing \/ Announcing \/ Troubles \/ Commands \/ \E l \in Locales : Due(l)

\* The cycle and the watchdog run on timers and a render is bounded by the
\* timeouts of its calls; a request is cut off after eight seconds.
SiteFairness ==
  /\ WF_siteVars(Recover) /\ WF_siteVars(CycleBegins) /\ WF_siteVars(BuildEnds)
  /\ WF_siteVars(IndexAccepted) /\ WF_siteVars(BackoffPasses) /\ WF_siteVars(IdleCycle)
  /\ \A l \in Locales : WF_siteVars(Due(l))
SiteSpec == SiteInit /\ [][SiteNext]_siteVars
SiteFairSpec == SiteSpec /\ SiteFairness

---------------------------------------------------------------------------
(* Properties *)

KnownBroken(l) == \E i \in RowsOf(l) : rows[i].status \in {"failed", "cancelled"}
OpenJob == \E i \in DOMAIN rows : rows[i].status \in OpenStatuses
BuildAhead == \E i \in DOMAIN rows :
  /\ rows[i].status \in OpenStatuses
  /\ rows[i].status = "queued" /\ rows[i].waits => page[rows[i].locale].due

\* A page visitors can open shows its media, or a build of the post that
\* waits for no date is still to come, or the operator has been told that building this page failed.  Edits
\* and replacements take the copied media away and rely on a later build, while
\* builds under way are fenced, coalesced, recovered and retried.
PageKeepsItsMedia == \A l \in Locales : Public(l) /\ ~HasMedia(l) => BuildAhead \/ KnownBroken(l)

\* A page never shows copied media of an earlier edition: the render of media
\* that were replaced while it ran is thrown away and made again.
NoStalePage == \A l \in Locales : page[l].media # "outdated"

\* A public change is on record until a request sent after it was accepted: a
\* page changed again during the request stays pending, and so do refusals and
\* a restart.
ChangeIsAnnounced == index.owed \subseteq index.pending

\* Every job ends, published or failed, and every address is announced, once
\* commands and troubles are over: no lock stays, no rebuild repeats for ever.
\* Only a standing cancellation leaves a job in the queue.
SiteSettles == <>[](~build.on /\ ~Waiting(index) /\ (OpenJob => declared))

\* Cancelling the rest of a publication stops a page that was not out yet.
CancelledStaysHidden ==
  [][\A l \in Locales : (declared /\ ~page[l].due /\ ~\E i \in RowsOf(l) : rows[i].status \in ActiveStatuses)
       => ~Public(l)']_siteVars
=============================================================================
