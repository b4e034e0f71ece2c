--------------------------- MODULE SitePagesProofs ---------------------------
(***************************************************************************)
(* Theorems of SitePages, for every set of scenes, every budget and any    *)
(* number of jobs, commands and troubles.  What a build that took long may *)
(* write (NoStalePage) and what is owed to the search engines              *)
(* (ChangeIsAnnounced) speak of a source that changes while someone works  *)
(* on it, and need not know what the rows of the queue say.  That a page   *)
(* keeps its media (PageKeepsItsMedia) is owed to the rows: QueueTyped     *)
(* gives their shape and MediaInv the job that each page without its media *)
(* relies on.                                                              *)
(***************************************************************************)
EXTENDS SitePages, SequenceTheorems, FiniteSetTheorems, NaturalsInduction, WellFoundedInduction,
        TLAPS

Pages == [Locales -> Page]
BuildShape(b) == b = [on |-> b.on, doing |-> b.doing, stale |-> b.stale, replaced |-> b.replaced]
Outboxes == [pending: SUBSET Locales, batch: SUBSET Locales, again: SUBSET Locales,
             owed: SUBSET Locales, busy: BOOLEAN, chained: Nat, backoff: BOOLEAN]

\* What was replaced under a build is known to it as changed, so what it may write
\* was made from the media the page has.
BuildKnows == BuildShape(build) /\ build.replaced \subseteq build.stale

FenceInv == page \in Pages /\ NoStalePage /\ BuildKnows
OutboxInv == index \in Outboxes /\ ChangeIsAnnounced

-----------------------------------------------------------------------------
(* The fence of a build *)

LEMMA FenceStarts == SiteInit => FenceInv
BY DEF SiteInit, FenceInv, Pages, Page, NoStalePage, BuildKnows, BuildShape, NoBuild

\* A command that changes the source under a build.
LEMMA TouchedKnows ==
  ASSUME BuildKnows, NEW ls
  PROVE  BuildKnows' \/ build' \notin {Touched(ls), Replaced(ls)}
BY DEF BuildKnows, BuildShape, Touched, Replaced

LEMMA PersistedFits ==
  ASSUME FenceInv
  PROVE  Persisted \in Pages /\ \A l \in Locales : Persisted[l].media # "outdated"
BY DEF FenceInv, BuildKnows, NoStalePage, Persisted, Written, Rendered, Pages, Page

LEMMA NewBuildKnows == ASSUME build' = NoBuild PROVE BuildKnows'
BY DEF BuildKnows, BuildShape, NoBuild

\* Pages and build as they are, or changed in one of the ways the actions have.
LEMMA FenceKept ==
  ASSUME FenceInv,
         page' = page \/ page' = Persisted
           \/ (page' \in Pages /\ \A l \in Locales : page'[l].media \in {page[l].media, "raw"}),
         \/ build' = build \/ build' = NoBuild
         \/ \E ls : build' \in {Touched(ls), Replaced(ls)}
         \/ build'.replaced = {} /\ BuildShape(build')
  PROVE  FenceInv'
<1>1. page' \in Pages /\ NoStalePage'
  BY PersistedFits DEF FenceInv, NoStalePage
<1>2. BuildKnows'
  BY TouchedKnows, NewBuildKnows DEF FenceInv, BuildKnows
<1> QED BY <1>1, <1>2 DEF FenceInv

\* The actions that write no page and no build.
LEMMA FenceUntouched ==
  ASSUME FenceInv, \/ Recover \/ Stall \/ IndexAccepted \/ IndexRefused \/ BackoffPasses \/ IdleCycle
                   \/ CancelRemaining \/ (\E l \in Locales : RefreshPage(l) \/ Retry(l) \/ Skip(l))
                   \/ UNCHANGED siteVars
  PROVE  FenceInv'
<1>1. UNCHANGED <<page, build>>
  BY DEF Recover, Stall, IndexAccepted, IndexRefused, BackoffPasses, IdleCycle, CancelRemaining,
         RefreshPage, Retry, Skip, siteVars
<1> QED BY <1>1, FenceKept

\* The cycle: a build begins with what it read, and ends by writing what is fenced.
LEMMA FenceCycle ==
  ASSUME FenceInv, CycleBegins \/ BuildEnds \/ BuildFails \/ Crash
  PROVE  FenceInv'
<1>1. CASE CycleBegins
  <2>1. page' = page /\ build'.replaced = {} /\ BuildShape(build')
    BY <1>1 DEF CycleBegins, BuildShape
  <2> QED BY <2>1, FenceKept
<1>2. CASE BuildEnds \/ BuildFails \/ Crash
  <2>1. page' \in {page, Persisted} /\ build' = NoBuild
    BY <1>2 DEF BuildEnds, BuildFails, Crash
  <2> QED BY <2>1, FenceKept
<1> QED BY <1>1, <1>2

\* The commands that change what a build was made from, and the clock.
LEMMA FenceCommands ==
  ASSUME FenceInv, NEW l \in Locales, NEW later \in SUBSET Locales,
         \/ EditText(l) \/ ReplaceMedia(l) \/ DescribeMedia(l) \/ Due(l)
         \/ Plan(later) \/ CancelDraft
  PROVE  FenceInv'
<1>1. \A k \in Locales : page[k] \in Page
  BY DEF FenceInv, Pages
<1>2. CASE EditText(l) \/ DescribeMedia(l)
  <2>1. page' = page /\ build' = Touched({l})
    BY <1>2 DEF EditText, DescribeMedia
  <2> QED BY <2>1, FenceKept
<1>3. CASE ReplaceMedia(l)
  <2>1. page' = [page EXCEPT ![l].media = "raw"] /\ build' = Replaced({l})
    BY <1>3 DEF ReplaceMedia
  <2>2. page' \in Pages /\ \A k \in Locales : page'[k].media \in {page[k].media, "raw"}
    BY <1>1, <2>1 DEF FenceInv, Pages, Page
  <2> QED BY <2>1, <2>2, FenceKept
<1>4. CASE Due(l)
  <2>1. page' = [page EXCEPT ![l].due = TRUE] /\ build' = build
    BY <1>4 DEF Due
  <2>2. page' \in Pages /\ \A k \in Locales : page'[k].media \in {page[k].media, "raw"}
    BY <1>1, <2>1 DEF FenceInv, Pages, Page
  <2> QED BY <2>1, <2>2, FenceKept
<1>5. CASE Plan(later)
  <2>1. /\ page' = [k \in Locales |-> [page[k] EXCEPT !.media = "raw", !.due = @ /\ k \notin later]]
        /\ build' = Replaced(Locales)
    BY <1>5 DEF Plan
  <2>2. page' \in Pages /\ \A k \in Locales : page'[k].media \in {page[k].media, "raw"}
    BY <1>1, <2>1 DEF Pages, Page
  <2> QED BY <2>1, <2>2, FenceKept
<1>6. CASE CancelDraft
  <2>1. CASE page' = page /\ build' = build
    BY <2>1, FenceKept
  <2>2. CASE /\ page' = [k \in Locales |-> [page[k] EXCEPT !.enabled = FALSE, !.media = "raw", !.due = FALSE]]
             /\ build' = Touched(Locales)
    <3>1. page' \in Pages /\ \A k \in Locales : page'[k].media \in {page[k].media, "raw"}
      BY <1>1, <2>2 DEF Pages, Page
    <3> QED BY <2>2, <3>1, FenceKept
  <2> QED BY <1>6, <2>1, <2>2 DEF CancelDraft
<1> QED BY <1>2, <1>3, <1>4, <1>5, <1>6

LEMMA FenceStep == FenceInv /\ [SiteNext]_siteVars => FenceInv'
<1> SUFFICES ASSUME FenceInv, [SiteNext]_siteVars PROVE FenceInv'
  OBVIOUS
<1>1. "ru" \in Locales /\ {} \in SUBSET Locales
  BY DEF Locales
<1>2. CASE CycleBegins \/ BuildEnds \/ BuildFails \/ Crash
  BY <1>2, FenceCycle
<1>3. CASE \/ \E l \in Locales : EditText(l) \/ ReplaceMedia(l) \/ DescribeMedia(l) \/ Due(l)
           \/ \E later \in SUBSET Locales : Plan(later)
           \/ CancelDraft
  <2>1. CASE \E l \in Locales : EditText(l) \/ ReplaceMedia(l) \/ DescribeMedia(l) \/ Due(l)
    BY <1>1, <2>1, FenceCommands
  <2>2. CASE \E later \in SUBSET Locales : Plan(later)
    BY <1>1, <2>2, FenceCommands
  <2>3. CASE CancelDraft
    BY <1>1, <2>3, FenceCommands
  <2> QED BY <1>3, <2>1, <2>2, <2>3
<1>4. CASE \/ Recover \/ Stall \/ IndexAccepted \/ IndexRefused \/ BackoffPasses \/ IdleCycle
           \/ CancelRemaining \/ (\E l \in Locales : RefreshPage(l) \/ Retry(l) \/ Skip(l))
           \/ UNCHANGED siteVars
  BY <1>4, FenceUntouched
<1> QED BY <1>2, <1>3, <1>4 DEF SiteNext, Queueing, Announcing, Troubles, Commands

-----------------------------------------------------------------------------
(* The outbox *)

LEMMA OutboxStarts == SiteInit => OutboxInv
BY DEF SiteInit, OutboxInv, Outboxes, ChangeIsAnnounced

Announced(ix) == ix \in Outboxes /\ ix.owed \subseteq ix.pending

LEMMA EnqueuedIsAnnounced ==
  ASSUME NEW ix, Announced(ix), NEW urls \in SUBSET Locales
  PROVE  Announced(Enqueued(ix, urls))
BY DEF Announced, Outboxes, Enqueued

LEMMA SendIsAnnounced ==
  ASSUME NEW ix, Announced(ix)
  PROVE  Announced(Send(ix)) /\ Announced(NextSend(ix))
<1>1. \A x : Announced(x) => Announced(Send(x)) /\ Announced(Quiet(x))
  BY DEF Announced, Outboxes, Send, Quiet
<1>2. ix.chained > 0 => Announced([ix EXCEPT !.chained = @ - 1])
  BY DEF Announced, Outboxes
<1> QED BY <1>1, <1>2 DEF NextSend

LEMMA PingedIsAnnounced ==
  ASSUME NEW ix, Announced(ix), NEW urls \in SUBSET Locales
  PROVE  Announced(Pinged(ix, urls))
<1>1. Announced(Enqueued(ix, urls)) /\ Announced(Send(ix)) /\ Announced(Send(Enqueued(ix, urls)))
  BY EnqueuedIsAnnounced, SendIsAnnounced
<1>2. Announced([Enqueued(ix, urls) EXCEPT !.chained = @ + 1])
  BY <1>1 DEF Announced, Outboxes
<1> QED BY <1>1, <1>2 DEF Pinged

LEMMA OutboxStep == OutboxInv /\ [SiteNext]_siteVars => OutboxInv'
<1> SUFFICES ASSUME OutboxInv, [SiteNext]_siteVars PROVE Announced(index')
  BY DEF OutboxInv, Announced, ChangeIsAnnounced
<1>1. Announced(index)
  BY DEF OutboxInv, Announced, ChangeIsAnnounced
<1>2. CASE index' = index
  BY <1>1, <1>2
<1>3. CASE \E urls \in SUBSET Locales : index' \in {Pinged(index, urls), Enqueued(index, urls)}
  BY <1>1, <1>3, PingedIsAnnounced, EnqueuedIsAnnounced
<1>4. CASE IndexAccepted
  <2>1. Announced([index EXCEPT !.pending = Dropped(index), !.backoff = FALSE,
                                !.owed = @ \ (index.batch \ index.again)])
    BY <1>1 DEF Announced, Outboxes, Dropped
  <2> QED BY <1>4, <2>1, SendIsAnnounced DEF IndexAccepted
<1>5. CASE IndexRefused
  <2>1. Announced([index EXCEPT !.backoff = TRUE])
    BY <1>1 DEF Announced, Outboxes
  <2> QED BY <1>5, <2>1, SendIsAnnounced DEF IndexRefused
<1>6. CASE BackoffPasses
  BY <1>1, <1>6 DEF BackoffPasses, Announced, Outboxes
<1>7. CASE Crash
  BY <1>1, <1>7 DEF Crash, Announced, Outboxes
<1>8. CASE BuildEnds \/ BuildFails \/ IdleCycle \/ \E l \in Locales : DescribeMedia(l)
  <2>1. {} \in SUBSET Locales /\ {l \in Locales : Public(l)} \in SUBSET Locales
    OBVIOUS
  <2>2. \/ index' = Pinged(index, {}) \/ index' = Pinged(index, {l \in Locales : Public(l)})
        \/ index' = Enqueued(index, {l \in Locales : Public(l)})
    BY <1>8 DEF BuildEnds, BuildFails, IdleCycle, DescribeMedia
  <2> QED BY <1>1, <2>1, <2>2, PingedIsAnnounced, EnqueuedIsAnnounced
<1>9. CASE \/ Recover \/ CycleBegins \/ Stall \/ CancelRemaining \/ CancelDraft
           \/ (\E later \in SUBSET Locales : Plan(later))
           \/ (\E l \in Locales : EditText(l) \/ ReplaceMedia(l) \/ RefreshPage(l) \/ Retry(l) \/ Skip(l) \/ Due(l))
           \/ UNCHANGED siteVars
  <2>1. index' = index
    BY <1>9 DEF Recover, CycleBegins, Stall, CancelRemaining, CancelDraft, Plan, EditText, ReplaceMedia,
                RefreshPage, Retry, Skip, Due, siteVars
  <2> QED BY <1>1, <2>1
<1> QED BY <1>4, <1>5, <1>6, <1>7, <1>8, <1>9 DEF SiteNext, Queueing, Announcing, Troubles, Commands

-----------------------------------------------------------------------------
(* The rows of the queue *)

GoodRow == {row \in Row : /\ (row.lock = "none") <=> (row.status # "rendering")
                          /\ row.attempts = MaxAttempts => row.status \in {"failed", "cancelled"}}

QueueTyped ==
  /\ scene \in Scenes /\ declared \in BOOLEAN /\ hidden \in BOOLEAN
  /\ rows \in Seq(GoodRow) /\ Len(rows) <= MaxRows
  /\ build \in [on: BOOLEAN, doing: SUBSET Locales, stale: SUBSET Locales, replaced: SUBSET Locales]
  /\ spent \in [commands: 0 .. MaxCommands, troubles: 0 .. MaxTroubles]

\* A set of natural numbers has a least one, a bounded one a greatest.
LEMMA LeastNat == ASSUME NEW T \in SUBSET Nat, T # {} PROVE \E x \in T : \A y \in T : ~(y < x)
<1>1. IsWellFoundedOn(OpToRel(<, Nat), Nat)
  BY NatLessThanWellFounded
<1>2. \E x \in T : \A y \in T : ~(<<y, x>> \in OpToRel(<, Nat))
  BY <1>1, WFMin
<1> QED BY <1>2 DEF OpToRel

LEMMA GreatestUpTo ==
  ASSUME NEW n \in Nat, NEW T, T \subseteq 1 .. n, T # {}
  PROVE  \E i \in T : \A j \in T : j <= i
<1> DEFINE U == {k \in Nat : n - k \in T}
<1>1. \A i \in T : n - i \in U
  OBVIOUS
<1>2. U # {} /\ U \in SUBSET Nat
  BY <1>1
<1>3. PICK k \in U : \A y \in U : ~(y < k)
  <2> HIDE DEF U
  <2> QED BY <1>2, LeastNat
<1>4. \A j \in T : ~(n - j < k)
  BY <1>1, <1>3
<1> QED BY <1>3, <1>4

\* A change of every row in its place.
LEMMA RowsMapped ==
  ASSUME rows \in Seq(GoodRow), NEW f, f = [i \in DOMAIN rows |-> f[i]],
         \A i \in DOMAIN rows : f[i] \in GoodRow
  PROVE  f \in Seq(GoodRow) /\ Len(f) = Len(rows) /\ DOMAIN f = DOMAIN rows
<1>1. DOMAIN rows = 1 .. Len(rows) /\ Len(rows) \in Nat
  BY LenProperties
<1>2. f \in [1 .. Len(rows) -> GoodRow]
  BY <1>1
<1> QED BY <1>1, <1>2, IsASeq, LenProperties

LEMMA RowAt == ASSUME rows \in Seq(GoodRow), NEW i \in DOMAIN rows PROVE rows[i] \in GoodRow
BY ElementOfSeq, LenProperties

LEMMA ReleasedIsGood ==
  ASSUME NEW row \in GoodRow, row.lock # "none"
  PROVE  /\ Released(row) \in GoodRow /\ Released(row).locale = row.locale
         /\ Released(row).status \in {"queued", "failed"} /\ Released(row).lock = "none"
<1>1. row.attempts \in 0 .. MaxAttempts /\ row.attempts # MaxAttempts
  BY DEF GoodRow, Row
<1>2. row.attempts + 1 \in 0 .. MaxAttempts /\ (row.attempts + 1 = MaxAttempts <=> ~(row.attempts + 1 < MaxAttempts))
  BY <1>1, SiteBoundsAssumption
<1>3. Released(row) =
        [row EXCEPT !.lock = "none", !.attempts = row.attempts + 1, !.waits = FALSE,
                    !.status = IF row.attempts + 1 < MaxAttempts THEN "queued" ELSE "failed"]
  BY DEF Released
<1> QED BY <1>2, <1>3 DEF GoodRow, Row, Statuses, ActiveStatuses, OpenStatuses

LEMMA FailedIsGood ==
  ASSUME NEW row \in GoodRow
  PROVE  /\ FailOne(row) \in GoodRow /\ FailOne(row).locale = row.locale
         /\ row.lock # "mine" => FailOne(row) = row
         /\ row.lock = "mine" => FailOne(row).status \in {"queued", "failed"}
         /\ FailOne(row).lock # "mine"
BY ReleasedIsGood DEF FailOne

LEMMA CompletedIsGood ==
  ASSUME NEW row \in GoodRow
  PROVE  /\ CompleteOne(row) \in GoodRow /\ CompleteOne(row).locale = row.locale
         /\ row.lock # "mine" => CompleteOne(row) = row
         /\ CompleteOne(row).lock # "mine"
BY DEF GoodRow, Row, CompleteOne, Statuses, ActiveStatuses, OpenStatuses

LEMMA CancelledIsGood ==
  ASSUME NEW row \in GoodRow
  PROVE  /\ CancelledRow(row) \in GoodRow /\ CancelledRow(row).locale = row.locale
         /\ row.status \notin {"queued", "failed"} => CancelledRow(row) = row
         /\ row.status \in {"queued", "failed"} => CancelledRow(row).status = "cancelled"
         /\ CancelledRow(row).lock = row.lock
BY DEF GoodRow, Row, CancelledRow, Statuses, ActiveStatuses, OpenStatuses

LEMMA SiteRowIsGood ==
  ASSUME NEW l \in Locales, NEW reason \in Reasons
  PROVE  /\ SiteRow(l) \in GoodRow
         /\ [SiteRow(l) EXCEPT !.reason = reason, !.waits = FALSE] \in GoodRow
<1>1. 0 \in 0 .. MaxAttempts /\ 0 # MaxAttempts
  BY SiteBoundsAssumption
<1>2. "site" \in Reasons /\ "queued" \in Statuses
  BY DEF Reasons, Statuses, ActiveStatuses, OpenStatuses
<1> QED BY <1>1, <1>2 DEF SiteRow, GoodRow, Row

LEMMA RowsReleased ==
  ASSUME rows \in Seq(GoodRow), Recover \/ Stall \/ CancelRemaining \/ BuildFails \/ BuildEnds
  PROVE  /\ rows' \in Seq(GoodRow) /\ Len(rows') = Len(rows) /\ DOMAIN rows' = DOMAIN rows
         /\ Recover => \A i \in DOMAIN rows :
              rows'[i] = IF rows[i].lock = "lost" THEN Released(rows[i]) ELSE rows[i]
         /\ Stall \/ BuildFails => \A i \in DOMAIN rows : rows'[i] = FailOne(rows[i])
         /\ CancelRemaining => \A i \in DOMAIN rows : rows'[i] = CancelledRow(rows[i])
         /\ BuildEnds => \A i \in DOMAIN rows :
              rows'[i] = IF StaleWrite(build) THEN FailOne(rows[i]) ELSE CompleteOne(rows[i])
<1>1. \A i \in DOMAIN rows : rows[i] \in GoodRow
  BY RowAt
<1>2. /\ rows' = [i \in DOMAIN rows |-> rows'[i]]
      /\ Recover => \A i \in DOMAIN rows :
              rows'[i] = IF rows[i].lock = "lost" THEN Released(rows[i]) ELSE rows[i]
      /\ Stall \/ BuildFails => \A i \in DOMAIN rows : rows'[i] = FailOne(rows[i])
      /\ CancelRemaining => \A i \in DOMAIN rows : rows'[i] = CancelledRow(rows[i])
      /\ BuildEnds => \A i \in DOMAIN rows :
              rows'[i] = IF StaleWrite(build) THEN FailOne(rows[i]) ELSE CompleteOne(rows[i])
  BY DEF Recover, Stall, CancelRemaining, BuildFails, BuildEnds, FailOne
<1>3. \A i \in DOMAIN rows : rows'[i] \in GoodRow
  BY <1>1, <1>2, ReleasedIsGood, FailedIsGood, CancelledIsGood, CompletedIsGood
<1> QED BY <1>2, <1>3, RowsMapped

LEMMA RowsClaimed ==
  ASSUME rows \in Seq(GoodRow), CycleBegins
  PROVE  /\ rows' \in Seq(GoodRow) /\ Len(rows') = Len(rows) /\ DOMAIN rows' = DOMAIN rows
         /\ \A i \in DOMAIN rows :
              /\ rows'[i].locale = rows[i].locale
              /\ ~Claimable(rows[i]) => rows'[i] = rows[i]
              /\ Claimable(rows[i]) => rows'[i].lock = "mine" /\ rows'[i].status = "rendering"
<1>1. \A i \in DOMAIN rows : rows[i] \in GoodRow
  BY RowAt
<1>2. \A i \in DOMAIN rows :
        [rows[i] EXCEPT !.status = "rendering", !.lock = "mine"] \in GoodRow \/ ~Claimable(rows[i])
  BY <1>1 DEF GoodRow, Row, Claimable, Statuses, ActiveStatuses, OpenStatuses
<1>3. rows' = [i \in DOMAIN rows |-> IF Claimable(rows[i]) THEN [rows[i] EXCEPT !.status = "rendering", !.lock = "mine"]
                                     ELSE rows[i]]
  BY DEF CycleBegins
<1>4. \A i \in DOMAIN rows :
        /\ rows'[i].locale = rows[i].locale
        /\ ~Claimable(rows[i]) => rows'[i] = rows[i]
        /\ Claimable(rows[i]) => rows'[i].lock = "mine" /\ rows'[i].status = "rendering"
  BY <1>1, <1>3 DEF GoodRow, Row
<1>5. \A i \in DOMAIN rows : rows'[i] \in GoodRow
  BY <1>1, <1>2, <1>3
<1> QED BY <1>3, <1>4, <1>5, RowsMapped

LEMMA RowsCrashed ==
  ASSUME rows \in Seq(GoodRow), Crash
  PROVE  /\ rows' \in Seq(GoodRow) /\ Len(rows') = Len(rows) /\ DOMAIN rows' = DOMAIN rows
         /\ \A i \in DOMAIN rows :
              /\ rows'[i].locale = rows[i].locale /\ rows'[i].lock # "mine"
              /\ rows[i].lock # "mine" => rows'[i] = rows[i]
              /\ rows[i].lock = "mine" => rows'[i].lock = "lost"
<1>1. \A i \in DOMAIN rows : rows[i] \in GoodRow
  BY RowAt
<1>2. rows' = [i \in DOMAIN rows |-> IF rows[i].lock = "mine" THEN [rows[i] EXCEPT !.lock = "lost"] ELSE rows[i]]
  BY DEF Crash
<1>3. \A i \in DOMAIN rows :
        /\ rows'[i] \in GoodRow
        /\ rows'[i].locale = rows[i].locale /\ rows'[i].lock # "mine"
        /\ rows[i].lock # "mine" => rows'[i] = rows[i]
        /\ rows[i].lock = "mine" => rows'[i].lock = "lost"
  BY <1>1, <1>2 DEF GoodRow, Row
<1> QED BY <1>2, <1>3, RowsMapped

\* A repair adds a row of its locale, unless one is open that will do.
LEMMA RowsRepaired ==
  ASSUME rows \in Seq(GoodRow), NEW l \in Locales, NEW reason \in Reasons, Repair(reason, l),
         Len(rows) < MaxRows
  PROVE  /\ rows' \in Seq(GoodRow) /\ Len(rows') <= MaxRows
         /\ \A i \in DOMAIN rows : i \in DOMAIN rows' /\ rows'[i] = rows[i]
         /\ \A i \in DOMAIN rows' : i \notin DOMAIN rows => rows'[i].lock = "none" /\ rows'[i].status = "queued"
         /\ ~OpenAlready(reason, l) =>
              \E i \in DOMAIN rows' : rows'[i].locale = l /\ rows'[i].status = "queued"
<1> DEFINE new == [SiteRow(l) EXCEPT !.reason = reason, !.waits = FALSE]
<1>1. new \in GoodRow /\ new.locale = l /\ new.status = "queued" /\ new.lock = "none"
  BY SiteRowIsGood DEF SiteRow
<1>2. rows' = IF OpenAlready(reason, l) THEN rows ELSE Append(rows, new)
  BY DEF Repair
<1> HIDE DEF new
<1>3. CASE rows' = rows /\ OpenAlready(reason, l)
  BY <1>3, LenProperties, SiteBoundsAssumption
<1>4. CASE rows' = Append(rows, new)
  <2>1. /\ rows' \in Seq(GoodRow) /\ Len(rows') = Len(rows) + 1
        /\ \A i \in 1 .. Len(rows) : rows'[i] = rows[i]
        /\ rows'[Len(rows) + 1] = new
    BY <1>1, <1>4, AppendProperties
  <2>2. DOMAIN rows = 1 .. Len(rows) /\ DOMAIN rows' = 1 .. Len(rows) + 1 /\ Len(rows) \in Nat
    BY <2>1, LenProperties
  <2>3. MaxRows \in Nat
    BY SiteBoundsAssumption
  <2> QED BY <1>1, <2>1, <2>2, <2>3
<1> QED BY <1>2, <1>3, <1>4

LEMMA LatestIsOwn ==
  ASSUME rows \in Seq(GoodRow), NEW l \in Locales, LatestSiteRow(l) # 0
  PROVE  LatestSiteRow(l) \in DOMAIN rows /\ rows[LatestSiteRow(l)].locale = l
<1> DEFINE own == {i \in RowsOf(l) : rows[i].reason = "site"}
<1>1. own \subseteq 1 .. Len(rows) /\ Len(rows) \in Nat
  BY LenProperties DEF RowsOf
<1>2. LatestSiteRow(l) = IF own = {} THEN 0 ELSE CHOOSE i \in own : \A j \in own : j <= i
  BY DEF LatestSiteRow
<1>3. own # {} /\ LatestSiteRow(l) = CHOOSE i \in own : \A j \in own : j <= i
  BY <1>2
<1> HIDE DEF own
<1>4. LatestSiteRow(l) \in own
  BY <1>1, <1>3, GreatestUpTo
<1> QED BY <1>4 DEF own, RowsOf

(* A set written with two members has one member or two. *)
LEMMA TwoAreFew ==
  ASSUME NEW x, NEW y
  PROVE  IsFiniteSet({x} \cup {y}) /\ Cardinality({x} \cup {y}) \in {1, 2}
<1>1. IsFiniteSet({x}) /\ Cardinality({x}) = 1
  BY FS_Singleton
<1>2. /\ IsFiniteSet({x} \cup {y})
      /\ Cardinality({x} \cup {y}) = IF y \in {x} THEN Cardinality({x}) ELSE Cardinality({x}) + 1
  BY <1>1, FS_AddElement
<1>3. CASE y \in {x}
  <2>1. Cardinality({x} \cup {y}) = 1
    BY <1>1, <1>2, <1>3
  <2> QED BY <1>2, <2>1
<1>4. CASE y \notin {x}
  <2>1. Cardinality({x} \cup {y}) = 1 + 1
    BY <1>1, <1>2, <1>4
  <2> DEFINE few == Cardinality({x} \cup {y})
  <2> HIDE DEF few
  <2>2. few = 1 + 1
    BY <2>1 DEF few
  <2>3. few \in {1, 2}
    BY <2>2
  <2> QED BY <1>2, <2>3 DEF few
<1> QED BY <1>3, <1>4

LEMMA SetToSeqLists ==
  ASSUME NEW S, IsFiniteSet(S)
  PROVE  /\ SetToSeq(S) \in Seq(S) /\ Len(SetToSeq(S)) = Cardinality(S)
         /\ \A x \in S : \E i \in 1 .. Cardinality(S) : SetToSeq(S)[i] = x
<1> DEFINE n == Cardinality(S)
<1>1. n \in Nat /\ ExistsBijection(1 .. n, S)
  BY FS_CardinalityType
<1>2. PICK g \in Bijection(1 .. n, S) : TRUE
  BY <1>1 DEF ExistsBijection
<1>3. g \in [1 .. n -> S] /\ IsInjective(g)
  BY <1>2 DEF Bijection, Injection, IsInjective
<1>4. SetToSeq(S) \in [1 .. n -> S] /\ IsInjective(SetToSeq(S))
  BY <1>3 DEF SetToSeq
<1>5. SetToSeq(S) \in Injection(1 .. n, S)
  BY <1>4 DEF Injection, IsInjective
<1>6. IsFiniteSet(1 .. n) /\ Cardinality(1 .. n) = n
  BY <1>1, FS_Interval
<1>7. SetToSeq(S) \in Surjection(1 .. n, S)
  BY <1>5, <1>6, FS_Injection
<1>8. \A x \in S : \E i \in 1 .. n : SetToSeq(S)[i] = x
  BY <1>7 DEF Surjection
<1>9. SetToSeq(S) \in Seq(S) /\ Len(SetToSeq(S)) = n
  BY <1>1, <1>4, LenProperties
<1> QED BY <1>8, <1>9

\* A plan keeps some rows in their order and adds one for each locale that is not final.
LEMMA RowsPlanned ==
  ASSUME rows \in Seq(GoodRow), NEW later \in SUBSET Locales, Plan(later)
  PROVE  /\ rows' \in Seq(GoodRow) /\ Len(rows') <= MaxRows
         /\ \A i \in DOMAIN rows' : rows'[i].lock = "mine" => \E j \in DOMAIN rows : rows[j] = rows'[i]
         /\ FinalLocales = {} => \A l \in Locales : \E i \in DOMAIN rows' : rows'[i] = SiteRow(l)
<1> DEFINE keep == {i \in DOMAIN rows : rows[i].status \notin {"queued", "failed"}}
           new == {SiteRow(l) : l \in Locales \ FinalLocales}
           two == {SiteRow("ru")} \cup {SiteRow("en")}
<1>1. PICK f \in [1 .. Cardinality(keep) -> keep] : rows' = [n \in DOMAIN f |-> rows[f[n]]] \o SetToSeq(new)
  BY DEF Plan, InOrder, Planned
<1>2. DOMAIN rows = 1 .. Len(rows) /\ Len(rows) \in Nat
  BY LenProperties
<1>3. Cardinality(keep) \in Nat /\ Cardinality(keep) <= Len(rows)
  <2>1. keep \in SUBSET (1 .. Len(rows)) /\ IsFiniteSet(1 .. Len(rows)) /\ Cardinality(1 .. Len(rows)) = Len(rows)
    <3>1. IsFiniteSet(1 .. Len(rows)) /\ Cardinality(1 .. Len(rows)) = IF 1 > Len(rows) THEN 0 ELSE Len(rows) - 1 + 1
      BY <1>2, FS_Interval
    <3> QED BY <1>2, <3>1
  <2>2. IsFiniteSet(keep) /\ Cardinality(keep) <= Cardinality(1 .. Len(rows))
    BY <2>1, FS_Subset
  <2> QED BY <2>1, <2>2, FS_CardinalityType
<1>4. new \in SUBSET GoodRow /\ \A x \in new : x.lock = "none"
  <2>1. \A l \in Locales : SiteRow(l) \in GoodRow /\ SiteRow(l).lock = "none"
    BY SiteRowIsGood DEF SiteRow, Reasons
  <2> QED BY <2>1
<1>5. IsFiniteSet(new) /\ Cardinality(new) \in Nat /\ Cardinality(new) <= 2
  <2>1. IsFiniteSet(two) /\ Cardinality(two) \in Nat /\ Cardinality(two) <= 2
    <3>1. two = {SiteRow("ru")} \cup {SiteRow("en")}
      OBVIOUS
    <3> HIDE DEF two
    <3>2. IsFiniteSet(two) /\ Cardinality(two) \in {1, 2}
      BY <3>1, TwoAreFew
    <3> QED BY <3>2
  <2>2. new \in SUBSET two
    BY DEF Locales
  <2> HIDE DEF new, two
  <2>3. IsFiniteSet(new) /\ Cardinality(new) <= Cardinality(two)
    BY <2>1, <2>2, FS_Subset
  <2> QED BY <2>1, <2>3, FS_CardinalityType
<1> DEFINE old == [n \in 1 .. Cardinality(keep) |-> rows[f[n]]]
<1>6. old \in Seq(GoodRow) /\ Len(old) = Cardinality(keep) /\ DOMAIN old = 1 .. Cardinality(keep)
      /\ \A n \in DOMAIN old : f[n] \in DOMAIN rows /\ old[n] = rows[f[n]]
  <2>1. \A n \in 1 .. Cardinality(keep) : f[n] \in DOMAIN rows /\ rows[f[n]] \in GoodRow
    BY RowAt
  <2>2. old \in [1 .. Cardinality(keep) -> GoodRow]
    BY <2>1
  <2> QED BY <1>3, <2>1, <2>2, IsASeq, LenProperties
<1>7. rows' = old \o SetToSeq(new)
  BY <1>1
<1>8. SetToSeq(new) \in Seq(new) /\ Len(SetToSeq(new)) = Cardinality(new)
      /\ \A x \in new : \E i \in 1 .. Cardinality(new) : SetToSeq(new)[i] = x
  BY <1>5, SetToSeqLists
<1> HIDE DEF new, old
<1>9. SetToSeq(new) \in Seq(GoodRow)
  BY <1>4, <1>8, SeqMonotonic
<1>10. /\ rows' \in Seq(GoodRow) /\ Len(rows') = Cardinality(keep) + Cardinality(new)
       /\ \A i \in 1 .. Len(rows') :
            rows'[i] = IF i <= Cardinality(keep) THEN old[i] ELSE SetToSeq(new)[i - Cardinality(keep)]
  <2>1. /\ old \o SetToSeq(new) \in Seq(GoodRow)
        /\ Len(old \o SetToSeq(new)) = Len(old) + Len(SetToSeq(new))
        /\ \A i \in 1 .. Len(old) + Len(SetToSeq(new)) :
             (old \o SetToSeq(new))[i] = IF i <= Len(old) THEN old[i] ELSE SetToSeq(new)[i - Len(old)]
    BY <1>6, <1>9, ConcatProperties
  <2> QED BY <1>6, <1>7, <1>8, <2>1
<1>11. DOMAIN rows' = 1 .. Len(rows') /\ Len(rows') \in Nat
  BY <1>10, LenProperties
<1>12. Len(rows') <= MaxRows
  <2>1. Len(rows) + 2 <= MaxRows /\ MaxRows \in Nat
    BY SiteBoundsAssumption DEF Plan
  <2>2. Len(rows') = Cardinality(keep) + Cardinality(new)
    BY <1>10
  <2> HIDE DEF keep
  <2> QED BY <1>2, <1>3, <1>5, <2>1, <2>2
<1>13. ASSUME NEW i \in DOMAIN rows', rows'[i].lock = "mine" PROVE \E j \in DOMAIN rows : rows[j] = rows'[i]
  <2>1. CASE i <= Cardinality(keep)
    BY <1>3, <1>6, <1>10, <1>11, <2>1
  <2>2. CASE ~(i <= Cardinality(keep))
    <3>1. i - Cardinality(keep) \in 1 .. Cardinality(new)
      BY <1>3, <1>5, <1>10, <1>11, <2>2
    <3>2. SetToSeq(new)[i - Cardinality(keep)] \in new
      BY <1>8, <3>1, ElementOfSeq
    <3> QED BY <1>4, <1>10, <1>11, <1>13, <2>2, <3>2
  <2> QED BY <2>1, <2>2
<1>14. ASSUME FinalLocales = {}, NEW l \in Locales PROVE \E i \in DOMAIN rows' : rows'[i] = SiteRow(l)
  <2>1. SiteRow(l) \in new
    BY <1>14 DEF new
  <2>2. PICK k \in 1 .. Cardinality(new) : SetToSeq(new)[k] = SiteRow(l)
    BY <1>8, <2>1
  <2>3. Cardinality(keep) + k \in 1 .. Len(rows') /\ ~(Cardinality(keep) + k <= Cardinality(keep))
        /\ (Cardinality(keep) + k) - Cardinality(keep) = k
    BY <1>3, <1>5, <1>10
  <2> QED BY <1>10, <1>11, <2>2, <2>3
<1> QED BY <1>10, <1>12, <1>13, <1>14

\* Retry and Skip change the state of one row that is not under way.
LEMMA RowSet ==
  ASSUME rows \in Seq(GoodRow), NEW l \in Locales, Retry(l) \/ Skip(l)
  PROVE  /\ rows' \in Seq(GoodRow) /\ Len(rows') = Len(rows) /\ DOMAIN rows' = DOMAIN rows
         /\ LatestSiteRow(l) \in DOMAIN rows /\ rows[LatestSiteRow(l)].locale = l
         /\ rows[LatestSiteRow(l)].status \in {"failed", "cancelled", "published"}
         /\ \A i \in DOMAIN rows :
              /\ rows'[i].locale = rows[i].locale /\ rows'[i].lock = rows[i].lock
              /\ i # LatestSiteRow(l) => rows'[i] = rows[i]
         /\ rows'[LatestSiteRow(l)].status \in {"queued", "cancelled"}
<1> DEFINE i == LatestSiteRow(l)
<1>1. i \in DOMAIN rows /\ rows[i].locale = l
  BY LatestIsOwn DEF Retry, Skip
<1>2. rows[i] \in GoodRow /\ rows[i].status \in {"failed", "cancelled", "published"}
  BY <1>1, RowAt DEF Retry, Skip
<1> DEFINE r == IF Retry(l) THEN [rows[i] EXCEPT !.status = "queued", !.attempts = 0, !.waits = FALSE]
                ELSE [rows[i] EXCEPT !.status = "cancelled"]
<1>3. r \in GoodRow /\ r.locale = l /\ r.lock = rows[i].lock /\ r.status \in {"queued", "cancelled"}
  <2>1. 0 \in 0 .. MaxAttempts /\ 0 # MaxAttempts
    BY SiteBoundsAssumption
  <2> QED BY <1>1, <1>2, <2>1 DEF GoodRow, Row, Statuses, ActiveStatuses, OpenStatuses
<1>4. rows' = [rows EXCEPT ![i] = r]
  BY <1>1, <1>2 DEF Retry, Skip, GoodRow, Row
<1> HIDE DEF r, i
<1>5. rows' \in Seq(GoodRow) /\ Len(rows') = Len(rows)
  BY <1>1, <1>3, <1>4, ExceptSeq, LenProperties
<1> QED BY <1>1, <1>2, <1>3, <1>4, <1>5 DEF i

LEMMA RowsCancelledWith ==
  ASSUME rows \in Seq(GoodRow), CancelDraft
  PROVE  rows' \in Seq(GoodRow) /\ Len(rows') <= Len(rows)
<1>1. \A i \in DOMAIN rows : CancelledRow(rows[i]) \in GoodRow
  BY RowAt, CancelledIsGood
<1>2. CASE rows' = <<>>
  <2>1. Len(rows) \in Nat
    BY LenProperties
  <2>2. <<>> \in Seq(GoodRow) /\ Len(<<>>) = 0
    BY EmptySeq
  <2> QED BY <1>2, <2>1, <2>2
<1>3. CASE rows' = [i \in DOMAIN rows |-> CancelledRow(rows[i])]
  BY <1>1, <1>3, RowsMapped, LenProperties
<1> QED BY <1>2, <1>3 DEF CancelDraft

LEMMA QueueRowsStep ==
  ASSUME QueueTyped, SiteNext
  PROVE  rows' \in Seq(GoodRow) /\ Len(rows') <= MaxRows
<1>1. rows \in Seq(GoodRow) /\ Len(rows) <= MaxRows /\ Len(rows) \in Nat /\ MaxRows \in Nat
  BY LenProperties, SiteBoundsAssumption DEF QueueTyped
<1>2. CASE Recover \/ Stall \/ CancelRemaining \/ BuildFails \/ BuildEnds
  BY <1>1, <1>2, RowsReleased
<1>3. CASE CycleBegins
  BY <1>1, <1>3, RowsClaimed
<1>4. CASE Crash
  BY <1>1, <1>4, RowsCrashed
<1>5. CASE \E l \in Locales : EditText(l) \/ ReplaceMedia(l) \/ RefreshPage(l)
  BY <1>1, <1>5, RowsRepaired DEF EditText, ReplaceMedia, RefreshPage, Reasons
<1>6. CASE \E l \in Locales : Retry(l) \/ Skip(l)
  BY <1>1, <1>6, RowSet
<1>7. CASE \E later \in SUBSET Locales : Plan(later)
  BY <1>1, <1>7, RowsPlanned
<1>8. CASE CancelDraft
  <2>1. rows' \in Seq(GoodRow) /\ Len(rows') <= Len(rows)
    BY <1>1, <1>8, RowsCancelledWith
  <2> QED BY <1>1, <2>1, LenProperties
<1>9. CASE \/ IndexAccepted \/ IndexRefused \/ BackoffPasses \/ IdleCycle
           \/ \E l \in Locales : DescribeMedia(l) \/ Due(l)
  BY <1>1, <1>9 DEF IndexAccepted, IndexRefused, BackoffPasses, IdleCycle, DescribeMedia, Due
<1> QED BY <1>2, <1>3, <1>4, <1>5, <1>6, <1>7, <1>8, <1>9 DEF SiteNext, Queueing, Announcing, Troubles,
           Commands

LEMMA QueueStep == QueueTyped /\ [SiteNext]_siteVars => QueueTyped'
<1> SUFFICES ASSUME QueueTyped, [SiteNext]_siteVars PROVE QueueTyped'
  OBVIOUS
<1>1. CASE UNCHANGED siteVars
  BY <1>1 DEF siteVars, QueueTyped
<1>2. CASE SiteNext
  <2>1. rows' \in Seq(GoodRow) /\ Len(rows') <= MaxRows
    BY <1>2, QueueRowsStep
  <2>2. scene' \in Scenes /\ declared' \in BOOLEAN /\ hidden' \in BOOLEAN
    BY <1>2 DEF QueueTyped, SiteNext, Queueing, Announcing, Troubles, Commands, Recover, CycleBegins,
       BuildEnds, IndexAccepted, BackoffPasses, IdleCycle, Stall, BuildFails, Crash, IndexRefused, EditText,
       ReplaceMedia, RefreshPage, DescribeMedia, Retry, Skip, Plan, CancelRemaining, CancelDraft, Due
  <2>3. spent' \in [commands: 0 .. MaxCommands, troubles: 0 .. MaxTroubles]
    <3>1. spent' = spent \/ (\E part : Command(part)) \/ \E part : Trouble(part)
      BY <1>2 DEF SiteNext, Queueing, Announcing, Troubles, Commands, Recover, CycleBegins, BuildEnds,
         IndexAccepted, BackoffPasses, IdleCycle, Stall, BuildFails, Crash, IndexRefused, EditText,
         ReplaceMedia, RefreshPage, DescribeMedia, Retry, Skip, Plan, CancelRemaining, CancelDraft, Due
    <3>2. spent \in [commands: 0 .. MaxCommands, troubles: 0 .. MaxTroubles]
      BY DEF QueueTyped
    <3> QED BY <3>1, <3>2, SiteBoundsAssumption DEF Command, Trouble
  <2>4. build' \in [on: BOOLEAN, doing: SUBSET Locales, stale: SUBSET Locales, replaced: SUBSET Locales]
    <3>1. CASE CycleBegins
      <4>1. \A i \in DOMAIN rows' : rows'[i].locale \in Locales
        <5>1. DOMAIN rows' = 1 .. Len(rows')
          BY <2>1, LenProperties
        <5>2. \A i \in DOMAIN rows' : rows'[i] \in GoodRow
          BY <2>1, <5>1, ElementOfSeq
        <5> QED BY <5>2 DEF GoodRow, Row
      <4>2. ActiveLocales(rows') \subseteq Locales
        BY <4>1 DEF ActiveLocales
      <4>3. build' = [on |-> TRUE, doing |-> {l \in ActiveLocales(rows') : page[l].due}, stale |-> {}, replaced |-> {}]
        BY <3>1 DEF CycleBegins
      <4> QED BY <4>2, <4>3
    <3>2. CASE \/ build' \in {build, NoBuild}
               \/ \E ls \in SUBSET Locales : build' \in {Touched(ls), Replaced(ls)}
      <4>1. \A ls \in SUBSET Locales :
              Touched(ls) \in [on: BOOLEAN, doing: SUBSET Locales, stale: SUBSET Locales, replaced: SUBSET Locales]
        BY DEF QueueTyped, Touched
      <4>2. \A ls \in SUBSET Locales :
              Replaced(ls) \in [on: BOOLEAN, doing: SUBSET Locales, stale: SUBSET Locales, replaced: SUBSET Locales]
        BY <4>1 DEF QueueTyped, Replaced
      <4>3. NoBuild \in [on: BOOLEAN, doing: SUBSET Locales, stale: SUBSET Locales, replaced: SUBSET Locales]
        BY DEF NoBuild
      <4> QED BY <3>2, <4>1, <4>2, <4>3 DEF QueueTyped
    <3>3. \/ CycleBegins \/ build' \in {build, NoBuild}
          \/ \E ls \in SUBSET Locales : build' \in {Touched(ls), Replaced(ls)}
      BY <1>2 DEF SiteNext, Queueing, Announcing, Troubles, Commands, Recover, BuildEnds, IndexAccepted,
         BackoffPasses, IdleCycle, Stall, BuildFails, Crash, IndexRefused, EditText, ReplaceMedia,
         RefreshPage, DescribeMedia, Retry, Skip, Plan, CancelRemaining, CancelDraft, Due
    <3> QED BY <3>1, <3>2, <3>3
  <2> QED BY <2>1, <2>2, <2>3, <2>4 DEF QueueTyped
<1> QED BY <1>1, <1>2

LEMMA QueueStarts == SiteInit => QueueTyped
<1> SUFFICES ASSUME SiteInit PROVE QueueTyped
  OBVIOUS
<1>1. SiteRow("ru") \in GoodRow /\ SiteRow("en") \in GoodRow
  BY SiteRowIsGood DEF Locales, Reasons
<1>2. rows \in Seq(GoodRow) /\ Len(rows) = 2
  BY <1>1 DEF SiteInit
<1>3. MaxRows \in Nat /\ 2 <= MaxRows
  <2>1. MaxRows \in Nat /\ MaxRows # 0 /\ MaxRows # 1
    BY SiteBoundsAssumption
  <2> QED BY <2>1
<1>4. rows \in Seq(GoodRow) /\ Len(rows) <= MaxRows
  BY <1>2, <1>3
<1>5. build \in [on: BOOLEAN, doing: SUBSET Locales, stale: SUBSET Locales, replaced: SUBSET Locales]
  BY DEF SiteInit, NoBuild
<1>6. spent \in [commands: 0 .. MaxCommands, troubles: 0 .. MaxTroubles]
  BY SiteBoundsAssumption DEF SiteInit
<1> QED BY <1>4, <1>5, <1>6 DEF SiteInit, QueueTyped

LEMMA QueueTypes == QueueTyped /\ FenceInv /\ OutboxInv => SiteTypeOK
<1> SUFFICES ASSUME QueueTyped, FenceInv, OutboxInv PROVE SiteTypeOK
  OBVIOUS
<1>1. \A i \in DOMAIN rows : rows[i] \in GoodRow
  BY RowAt DEF QueueTyped
<1>2. rows \in Seq(Row)
  BY SeqMonotonic DEF QueueTyped, GoodRow
<1> QED BY <1>1, <1>2 DEF QueueTyped, FenceInv, OutboxInv, SiteTypeOK, GoodRow, Pages, Outboxes, Outbox

-----------------------------------------------------------------------------
(* A page keeps its media *)

\* What the theorem leaves out: a plan made after one page was rendered, and a retry of
\* what was cancelled before its time.  Both strand a page.
PlansAhead == \A s \in Scenes : "late_plan" \notin s /\ ~({"cancel", "retry"} \subseteq s)

\* A job that will not run before the page's time, or that an operator gave up for good.
StillToRun(row) == \/ row.status = "queued" /\ row.waits
                   \/ row.status = "cancelled" /\ "retry" \notin scene
Waits(l) == \E i \in DOMAIN rows : rows[i].locale = l /\ StillToRun(rows[i])

\* A job whose end is known to be bad, or whose run will show the page's media.
Promises(row, doing) == \/ row.status \in {"queued", "failed", "cancelled"} \/ row.lock = "lost"
                        \/ (row.lock = "mine" /\ row.locale \in doing)
Held(l) == \E i \in DOMAIN rows : rows[i].locale = l /\ Promises(rows[i], build.doing)
Running(l) == \E i \in DOMAIN rows : rows[i].locale = l /\ rows[i].lock = "mine"

MediaInv ==
  /\ hidden \/ \A l \in Locales : page[l].enabled /\ (IF page[l].due THEN HasMedia(l) \/ Held(l) ELSE Waits(l))
  /\ \A l \in Locales : ~page[l].due => ~HasMedia(l)
  /\ build.on \/ build.doing = {}
  /\ \A l \in build.doing \ build.stale : page[l].due
  /\ \A l \in Locales : Running(l) /\ l \notin build.doing => ~HasMedia(l)

PageInv == QueueTyped /\ FenceInv /\ MediaInv

LEMMA MediaStarts == SiteInit => MediaInv
<1> SUFFICES ASSUME SiteInit PROVE MediaInv
  OBVIOUS
<1>1. rows[1] = SiteRow("ru") /\ rows[2] = SiteRow("en") /\ DOMAIN rows = 1 .. 2
  BY DEF SiteInit
<1>2. \A l \in Locales : Waits(l)
  BY <1>1 DEF Waits, StillToRun, SiteRow, Locales
<1>3. \A l \in Locales : ~Running(l)
  BY <1>1 DEF Running, SiteRow
<1> QED BY <1>2, <1>3 DEF SiteInit, MediaInv, HasMedia, NoBuild

\* A step that changes rows in place and leaves the pages alone, and the build but for
\* what it is told of.
LEMMA RowsKeepMedia ==
  ASSUME MediaInv, page' = page, hidden' = hidden, scene' = scene,
         build'.on = build.on, build'.doing = build.doing, build.stale \subseteq build'.stale,
         \A i \in DOMAIN rows : i \in DOMAIN rows' /\ rows'[i].locale = rows[i].locale,
         \A i \in DOMAIN rows : /\ (Promises(rows[i], build.doing) => Promises(rows'[i], build.doing))
                                /\ (StillToRun(rows[i]) => StillToRun(rows'[i])),
         \A i \in DOMAIN rows' : rows'[i].lock # "mine" \/
            \E j \in DOMAIN rows : rows[j].lock = "mine" /\ rows[j].locale = rows'[i].locale
  PROVE  MediaInv'
<1>1. \A l \in Locales : Running(l)' => Running(l)
  BY DEF Running
<1>2. \A l \in Locales : Held(l) => Held(l)'
  BY DEF Held, Promises
<1>3. \A l \in Locales : Waits(l) => Waits(l)'
  BY DEF Waits, StillToRun
<1>4. \A l \in Locales : HasMedia(l)' <=> HasMedia(l)
  BY DEF HasMedia
<1> QED BY <1>1, <1>2, <1>3, <1>4 DEF MediaInv

\* A build begins: what may be claimed is claimed, and what is claimed is rendered if it is due.
LEMMA CycleKeepsMedia ==
  ASSUME PageInv, CycleBegins
  PROVE  MediaInv'
<1>1. /\ rows \in Seq(GoodRow) /\ DOMAIN rows' = DOMAIN rows
      /\ \A i \in DOMAIN rows : /\ rows[i] \in GoodRow /\ rows'[i] \in GoodRow
                               /\ rows'[i].locale = rows[i].locale
                               /\ (~Claimable(rows[i]) => rows'[i] = rows[i])
                               /\ (Claimable(rows[i]) => rows'[i].lock = "mine" /\ rows'[i].status = "rendering")
  <2>1. rows \in Seq(GoodRow)
    BY DEF PageInv, QueueTyped
  <2>2. /\ rows' \in Seq(GoodRow) /\ Len(rows') = Len(rows) /\ DOMAIN rows' = DOMAIN rows
        /\ \A i \in DOMAIN rows :
              /\ rows'[i].locale = rows[i].locale
              /\ (~Claimable(rows[i]) => rows'[i] = rows[i])
              /\ (Claimable(rows[i]) => rows'[i].lock = "mine" /\ rows'[i].status = "rendering")
    BY <2>1, RowsClaimed
  <2>3. \A i \in DOMAIN rows : rows[i] \in GoodRow
    BY <2>1, RowAt
  <2>4. \A i \in DOMAIN rows : rows'[i] \in GoodRow
    BY <2>2, ElementOfSeq, LenProperties
  <2> QED BY <2>1, <2>2, <2>3, <2>4
<1>2. /\ page' = page /\ hidden' = hidden /\ scene' = scene /\ build'.stale = {} /\ build'.on
      /\ build'.doing = {l \in ActiveLocales(rows') : page[l].due}
  BY DEF CycleBegins
<1>3. \A i \in DOMAIN rows : rows'[i].status = "rendering" => rows'[i].locale \in ActiveLocales(rows')
  BY <1>1 DEF ActiveLocales, ActiveStatuses, OpenStatuses
<1>4. \A i \in DOMAIN rows : rows'[i].lock = "mine" => rows'[i].status = "rendering"
  <2>1. \A row \in GoodRow : row.lock = "mine" => row.status = "rendering"
    BY DEF GoodRow
  <2> QED BY <1>1, <2>1
<1>5. \A l \in Locales : page[l].due /\ Held(l) => Held(l)'
  <2> SUFFICES ASSUME NEW l \in Locales, page[l].due, Held(l) PROVE Held(l)'
    OBVIOUS
  <2>1. PICK i \in DOMAIN rows : rows[i].locale = l /\ Promises(rows[i], build.doing)
    BY DEF Held
  <2>2. Promises(rows'[i], build'.doing)
    <3>1. CASE rows'[i].lock = "mine"
      <4>1. rows'[i].locale \in build'.doing
        BY <1>1, <1>2, <1>3, <1>4, <2>1, <3>1
      <4> QED BY <3>1, <4>1 DEF Promises
    <3>2. CASE rows'[i].lock # "mine"
      <4>1. rows'[i] = rows[i]
        BY <1>1, <3>2
      <4> QED BY <2>1, <3>2, <4>1 DEF Promises
    <3> QED BY <3>1, <3>2
  <2> QED BY <1>1, <2>1, <2>2 DEF Held
<1>6. \A l \in Locales : ~page[l].due /\ Waits(l) => Waits(l)'
  <2> SUFFICES ASSUME NEW l \in Locales, ~page[l].due, Waits(l) PROVE Waits(l)'
    OBVIOUS
  <2>1. PICK i \in DOMAIN rows : rows[i].locale = l /\ StillToRun(rows[i])
    BY DEF Waits
  <2>2. ~Claimable(rows[i])
    BY <2>1 DEF StillToRun, Claimable
  <2> QED BY <1>1, <1>2, <2>1, <2>2 DEF Waits, StillToRun
<1>7. \A l \in Locales : Running(l)' /\ l \notin build'.doing => ~page[l].due
  BY <1>1, <1>2, <1>3, <1>4 DEF Running
<1>8. \A l \in Locales : HasMedia(l)' <=> HasMedia(l)
  BY <1>2 DEF HasMedia
<1>9. \A l \in Locales : page'[l] = page[l]
  BY <1>2
<1>10. \A l \in build'.doing : page'[l].due
  BY <1>2
<1> QED BY <1>2, <1>5, <1>6, <1>7, <1>8, <1>9, <1>10 DEF PageInv, MediaInv

\* A build that ends, whether it stored its pages or not: no row is this cycle's any more.
LEMMA EndKeepsMedia ==
  ASSUME PageInv, BuildEnds \/ BuildFails \/ Crash
  PROVE  MediaInv'
<1>1. rows \in Seq(GoodRow) /\ \A i \in DOMAIN rows : rows[i] \in GoodRow
  BY RowAt DEF PageInv, QueueTyped
<1> DEFINE thrown == BuildFails \/ Crash \/ StaleWrite(build)
<1>2. /\ DOMAIN rows' = DOMAIN rows
      /\ \A i \in DOMAIN rows : /\ rows'[i].locale = rows[i].locale /\ rows'[i].lock # "mine"
                               /\ (rows[i].lock # "mine" => rows'[i] = rows[i])
                               /\ (thrown /\ rows[i].lock = "mine" =>
                                     rows'[i].status \in {"queued", "failed"} \/ rows'[i].lock = "lost")
  <2>1. CASE BuildEnds
    <3>1. build.on /\ build' = NoBuild
      BY <2>1 DEF BuildEnds
    <3>2. CASE StaleWrite(build)
      BY <1>1, <2>1, <3>2, RowsReleased, FailedIsGood
    <3>3. CASE ~StaleWrite(build) /\ ~BuildFails /\ ~Crash
      BY <1>1, <2>1, <3>3, RowsReleased, CompletedIsGood
    <3>4. CASE BuildFails
      BY <1>1, <3>4, RowsReleased, FailedIsGood
    <3>5. CASE Crash
      BY <1>1, <3>5, RowsCrashed
    <3> QED BY <3>2, <3>3, <3>4, <3>5
  <2>2. CASE BuildFails
    BY <1>1, <2>2, RowsReleased, FailedIsGood
  <2>3. CASE Crash
    BY <1>1, <2>3, RowsCrashed
  <2> QED BY <2>1, <2>2, <2>3
<1>3. /\ hidden' = hidden /\ scene' = scene /\ build' = NoBuild
      /\ page' \in {page, Persisted} /\ (~thrown => page' = Persisted)
  BY DEF BuildEnds, BuildFails, Crash
<1>4. \A l \in Locales :
        /\ Persisted[l].enabled = page[l].enabled /\ Persisted[l].due = page[l].due
        /\ Persisted[l].media = IF l \in build.doing \ build.stale THEN Rendered(l) ELSE page[l].media
        /\ Rendered(l) # "raw"
  BY DEF PageInv, FenceInv, Pages, Page, Persisted, Rendered, Written
<1>5. \A l \in Locales :
        /\ page'[l].enabled = page[l].enabled /\ page'[l].due = page[l].due
        /\ HasMedia(l) => HasMedia(l)'
        /\ ~HasMedia(l) /\ HasMedia(l)' => l \in build.doing \ build.stale
        /\ ~thrown /\ l \in build.doing => HasMedia(l)'
  BY <1>3, <1>4 DEF HasMedia, StaleWrite, Written
<1>6. \A l \in Locales : Held(l) => Held(l)' \/ HasMedia(l)'
  <2> SUFFICES ASSUME NEW l \in Locales, Held(l) PROVE Held(l)' \/ HasMedia(l)'
    OBVIOUS
  <2>1. PICK i \in DOMAIN rows : rows[i].locale = l /\ Promises(rows[i], build.doing)
    BY DEF Held
  <2>2. CASE rows[i].lock # "mine"
    <3>1. Promises(rows'[i], build'.doing)
      BY <1>2, <2>1, <2>2 DEF Promises
    <3> QED BY <1>2, <2>1, <3>1 DEF Held
  <2>3. CASE rows[i].lock = "mine" /\ thrown
    <3>1. Promises(rows'[i], build'.doing)
      BY <1>2, <2>3 DEF Promises
    <3> QED BY <1>2, <2>1, <3>1 DEF Held
  <2>4. CASE rows[i].lock = "mine" /\ ~thrown
    <3>1. rows[i].locale \in build.doing
      BY <1>1, <2>1, <2>4 DEF Promises, GoodRow
    <3> QED BY <1>5, <2>1, <2>4, <3>1
  <2> QED BY <2>2, <2>3, <2>4
<1>7. \A l \in Locales : Waits(l) => Waits(l)'
  <2>1. \A i \in DOMAIN rows : StillToRun(rows[i]) => rows'[i] = rows[i]
    BY <1>1, <1>2 DEF StillToRun, GoodRow
  <2> QED BY <1>2, <1>3, <2>1 DEF Waits, StillToRun
<1>8. \A l \in Locales : ~Running(l)'
  BY <1>2 DEF Running
<1>9. build'.doing = {}
  BY <1>3 DEF NoBuild
<1> HIDE DEF thrown
<1> QED BY <1>3, <1>5, <1>6, <1>7, <1>8, <1>9 DEF PageInv, MediaInv

\* Locks that are released, and rows an operator takes up or gives up.
LEMMA ReleaseKeepsMedia ==
  ASSUME PageInv, PlansAhead, Recover \/ Stall \/ CancelRemaining
  PROVE  MediaInv'
<1>1. rows \in Seq(GoodRow) /\ \A i \in DOMAIN rows : rows[i] \in GoodRow
  BY RowAt DEF PageInv, QueueTyped
<1>2. page' = page /\ hidden' = hidden /\ scene' = scene /\ build' = build
  BY DEF Recover, Stall, CancelRemaining
<1>3. CancelRemaining => "retry" \notin scene
  BY DEF CancelRemaining, Command, PlansAhead, PageInv, QueueTyped
<1>4. /\ DOMAIN rows' = DOMAIN rows
      /\ \A i \in DOMAIN rows :
           \/ rows'[i] = rows[i]
           \/ rows[i].lock # "none" /\ rows'[i] = Released(rows[i])
           \/ CancelRemaining /\ rows'[i] = CancelledRow(rows[i])
  BY <1>1, RowsReleased DEF FailOne
<1>5. ASSUME NEW i \in DOMAIN rows
      PROVE  /\ rows'[i].locale = rows[i].locale
             /\ (Promises(rows[i], build.doing) => Promises(rows'[i], build.doing))
             /\ (StillToRun(rows[i]) => StillToRun(rows'[i]))
             /\ (rows'[i].lock = "mine" => rows[i].lock = "mine")
  <2>1. CASE rows'[i] = rows[i]
    BY <2>1
  <2>2. CASE rows[i].lock # "none" /\ rows'[i] = Released(rows[i])
    <3>1. /\ rows'[i].locale = rows[i].locale
          /\ rows'[i].status \in {"queued", "failed"} /\ rows'[i].lock = "none"
      BY <1>1, <2>2, ReleasedIsGood
    <3>2. rows[i].status = "rendering"
      BY <1>1, <2>2 DEF GoodRow
    <3> QED BY <3>1, <3>2 DEF Promises, StillToRun
  <2>3. CASE CancelRemaining /\ rows'[i] = CancelledRow(rows[i])
    <3>1. /\ rows'[i].locale = rows[i].locale /\ rows'[i].lock = rows[i].lock
          /\ (rows[i].status \notin {"queued", "failed"} => rows'[i] = rows[i])
          /\ (rows[i].status \in {"queued", "failed"} => rows'[i].status = "cancelled")
      BY <1>1, <2>3, CancelledIsGood
    <3> QED BY <1>3, <2>3, <3>1 DEF Promises, StillToRun
  <2> QED BY <1>4, <2>1, <2>2, <2>3
<1>6. MediaInv
  BY DEF PageInv
<1> QED BY <1>2, <1>4, <1>5, <1>6, RowsKeepMedia

LEMMA SetKeepsMedia ==
  ASSUME PageInv, NEW l \in Locales, Retry(l) \/ Skip(l)
  PROVE  MediaInv'
<1> DEFINE k == LatestSiteRow(l)
<1>1. rows \in Seq(GoodRow)
  BY DEF PageInv, QueueTyped
<1>2. /\ DOMAIN rows' = DOMAIN rows /\ k \in DOMAIN rows
      /\ rows[k].status \in {"failed", "cancelled", "published"}
      /\ \A i \in DOMAIN rows :
           /\ rows'[i].locale = rows[i].locale /\ rows'[i].lock = rows[i].lock
           /\ i # k => rows'[i] = rows[i]
      /\ rows'[k].status \in {"queued", "cancelled"}
  BY <1>1, RowSet
<1>3. page' = page /\ hidden' = hidden /\ scene' = scene /\ build' = build
  BY DEF Retry, Skip
<1>4. ~StillToRun(rows[k])
  <2>1. CASE Retry(l)
    BY <1>2, <2>1 DEF Retry, Command, StillToRun
  <2>2. CASE Skip(l)
    BY <2>2 DEF Skip, StillToRun
  <2> QED BY <2>1, <2>2
<1>5. Promises(rows'[k], build.doing)
  BY <1>2 DEF Promises
<1> HIDE DEF k
<1>6. \A i \in DOMAIN rows : /\ (Promises(rows[i], build.doing) => Promises(rows'[i], build.doing))
                            /\ (StillToRun(rows[i]) => StillToRun(rows'[i]))
  BY <1>2, <1>4, <1>5
<1>7. MediaInv
  BY DEF PageInv
<1> QED BY <1>2, <1>3, <1>6, <1>7, RowsKeepMedia

\* Repairs: what is replaced is rendered again by the row the repair relies on.
LEMMA RepairKeepsMedia ==
  ASSUME PageInv, NEW l \in Locales, EditText(l) \/ RefreshPage(l) \/ DescribeMedia(l)
  PROVE  MediaInv'
<1>1. rows \in Seq(GoodRow) /\ Len(rows) \in Nat
  BY LenProperties DEF PageInv, QueueTyped
<1>2. page' = page /\ hidden' = hidden /\ scene' = scene /\ build' \in {build, Touched({l})}
  BY DEF EditText, RefreshPage, DescribeMedia
<1>3. build'.on = build.on /\ build'.doing = build.doing /\ build.stale \subseteq build'.stale
  BY <1>2 DEF Touched, PageInv, QueueTyped
<1>4. /\ \A i \in DOMAIN rows : i \in DOMAIN rows' /\ rows'[i] = rows[i]
      /\ \A i \in DOMAIN rows' : i \notin DOMAIN rows => rows'[i].lock = "none"
  <2>1. CASE EditText(l)
    BY <1>1, <2>1, RowsRepaired DEF EditText, Reasons
  <2>2. CASE RefreshPage(l)
    BY <1>1, <2>2, RowsRepaired DEF RefreshPage, Reasons
  <2>3. CASE DescribeMedia(l)
    BY <2>3 DEF DescribeMedia
  <2> QED BY <2>1, <2>2, <2>3
<1>5. MediaInv
  BY DEF PageInv
<1>6. \A i \in DOMAIN rows' : rows'[i].lock # "mine" \/
         \E j \in DOMAIN rows : rows[j].lock = "mine" /\ rows[j].locale = rows'[i].locale
  BY <1>4
<1> QED BY <1>2, <1>3, <1>4, <1>5, <1>6, RowsKeepMedia

LEMMA ReplaceKeepsMedia ==
  ASSUME PageInv, NEW l \in Locales, ReplaceMedia(l)
  PROVE  MediaInv'
<1>1. rows \in Seq(GoodRow) /\ Len(rows) \in Nat /\ \A i \in DOMAIN rows : rows[i] \in GoodRow
  BY LenProperties, RowAt DEF PageInv, QueueTyped
<1>2. hidden' = hidden /\ scene' = scene
  BY DEF ReplaceMedia
<1>3. \A k \in Locales : /\ page'[k].enabled = page[k].enabled /\ page'[k].due = page[k].due
                        /\ page'[k].media = IF k = l THEN "raw" ELSE page[k].media
  BY DEF ReplaceMedia, PageInv, FenceInv, Pages, Page
<1>4. build'.on = build.on /\ build'.doing = build.doing /\ build.stale \subseteq build'.stale
  BY DEF ReplaceMedia, Replaced, Touched, PageInv, QueueTyped
<1>5. /\ \A i \in DOMAIN rows : i \in DOMAIN rows' /\ rows'[i] = rows[i]
      /\ \A i \in DOMAIN rows' : i \notin DOMAIN rows => rows'[i].lock = "none"
      /\ ~OpenAlready("media", l) =>
           \E i \in DOMAIN rows' : rows'[i].locale = l /\ rows'[i].status = "queued"
  BY <1>1, RowsRepaired DEF ReplaceMedia, Reasons
<1>6. \A k \in Locales : (Held(k) => Held(k)') /\ (Waits(k) => Waits(k)') /\ (Running(k)' => Running(k))
  <2>1. \A k \in Locales : Held(k) => Held(k)'
    BY <1>4, <1>5 DEF Held, Promises
  <2>2. \A k \in Locales : Waits(k) => Waits(k)'
    BY <1>2, <1>5 DEF Waits, StillToRun
  <2>3. \A k \in Locales : Running(k)' => Running(k)
    BY <1>5 DEF Running
  <2> QED BY <2>1, <2>2, <2>3
<1>7. hidden \/ (page[l].due => Held(l)')
  <2>1. CASE ~OpenAlready("media", l)
    BY <1>5, <2>1 DEF Held, Promises
  <2>2. CASE OpenAlready("media", l)
    <3>1. PICK i \in DOMAIN rows : rows[i].locale = l /\ rows[i].status \in OpenStatuses
      BY <2>2 DEF OpenAlready, RowsOf
    <3>2. CASE Promises(rows[i], build.doing)
      BY <1>6, <3>1, <3>2 DEF Held
    <3>3. CASE ~Promises(rows[i], build.doing)
      <4>1. rows[i].lock = "mine" /\ l \notin build.doing
        BY <1>1, <3>1, <3>3 DEF Promises, OpenStatuses, GoodRow, Row
      <4>2. Running(l)
        BY <3>1, <4>1 DEF Running
      <4>3. ~HasMedia(l)
        BY <4>1, <4>2 DEF PageInv, MediaInv
      <4> QED BY <1>6, <4>3 DEF PageInv, MediaInv
    <3> QED BY <3>2, <3>3
  <2> QED BY <2>1, <2>2
<1>8. ~HasMedia(l)' /\ \A k \in Locales : k # l => (HasMedia(k)' <=> HasMedia(k))
  BY <1>3 DEF HasMedia
<1>9. hidden' \/ \A k \in Locales : page'[k].enabled /\ (IF page'[k].due THEN HasMedia(k)' \/ Held(k)' ELSE Waits(k)')
  BY <1>2, <1>3, <1>6, <1>7, <1>8 DEF PageInv, MediaInv
<1>10. \A k \in Locales : ~page'[k].due => ~HasMedia(k)'
  BY <1>3, <1>8 DEF PageInv, MediaInv
<1>11. \A k \in Locales : Running(k)' /\ k \notin build'.doing => ~HasMedia(k)'
  BY <1>4, <1>6, <1>8 DEF PageInv, MediaInv
<1>12. /\ build'.on \/ build'.doing = {}
       /\ \A k \in build'.doing \ build'.stale : page'[k].due
  <2>1. build.doing \subseteq Locales
    BY DEF PageInv, QueueTyped
  <2> QED BY <1>3, <1>4, <2>1 DEF PageInv, MediaInv
<1> QED BY <1>9, <1>10, <1>11, <1>12 DEF MediaInv

\* A plan made before anything was rendered gives each language a job at its time.
LEMMA PlanKeepsMedia ==
  ASSUME PageInv, PlansAhead, NEW later \in SUBSET Locales, Plan(later)
  PROVE  MediaInv'
<1>1. rows \in Seq(GoodRow) /\ hidden' = hidden /\ ~hidden /\ scene' = scene
  BY DEF PageInv, QueueTyped, Plan
<1>2. FinalLocales = {}
  BY DEF Plan, Command, PlansAhead, PageInv, QueueTyped
<1>3. \A l \in Locales : \E i \in DOMAIN rows' : rows'[i] = SiteRow(l)
  BY <1>1, <1>2, RowsPlanned
<1>4. \A l \in Locales : Waits(l)' /\ Held(l)'
  <2> SUFFICES ASSUME NEW l \in Locales PROVE Waits(l)' /\ Held(l)'
    OBVIOUS
  <2>1. PICK i \in DOMAIN rows' : rows'[i] = SiteRow(l)
    BY <1>3
  <2>2. SiteRow(l).locale = l /\ SiteRow(l).status = "queued" /\ SiteRow(l).waits
    BY DEF SiteRow
  <2> QED BY <2>1, <2>2 DEF Waits, Held, StillToRun, Promises
<1>5. page' = [l \in Locales |-> [page[l] EXCEPT !.media = "raw", !.due = @ /\ l \notin later]]
      /\ build' = Replaced(Locales)
  BY DEF Plan
<1>6. \A l \in Locales : page[l] \in Page
  BY DEF PageInv, FenceInv, Pages
<1>7. \A l \in Locales : page'[l].enabled = page[l].enabled /\ ~HasMedia(l)'
  BY <1>5, <1>6 DEF HasMedia, Page
<1>8. build'.on = build.on /\ build'.doing = build.doing /\ (build.on => build'.doing \ build'.stale = {})
  BY <1>5 DEF Replaced, Touched, PageInv, QueueTyped
<1>9. build'.doing \ build'.stale = {}
  BY <1>8 DEF PageInv, MediaInv
<1>10. hidden \/ \A l \in Locales : page[l].enabled
  BY DEF PageInv, MediaInv
<1>11. build.on \/ build.doing = {}
  BY DEF PageInv, MediaInv
<1> QED BY <1>1, <1>4, <1>7, <1>8, <1>9, <1>10, <1>11 DEF MediaInv

LEMMA CancelKeepsMedia ==
  ASSUME PageInv, CancelDraft
  PROVE  MediaInv'
<1>1. rows \in Seq(GoodRow) /\ \A i \in DOMAIN rows : rows[i] \in GoodRow
  BY RowAt DEF PageInv, QueueTyped
<1>2. hidden'
  BY DEF CancelDraft
<1>3. CASE page' = page /\ build' = build /\ rows' = [i \in DOMAIN rows |-> CancelledRow(rows[i])]
  <2>1. \A i \in DOMAIN rows : rows'[i].locale = rows[i].locale /\ rows'[i].lock = rows[i].lock
    BY <1>1, <1>3, CancelledIsGood
  <2>2. DOMAIN rows' = DOMAIN rows
    BY <1>3
  <2>3. \A l \in Locales : (Running(l)' => Running(l)) /\ (HasMedia(l)' <=> HasMedia(l))
    BY <1>3, <2>1, <2>2 DEF Running, HasMedia
  <2> QED BY <1>2, <1>3, <2>3 DEF PageInv, MediaInv
<1>4. CASE /\ rows' = <<>>
           /\ page' = [l \in Locales |-> [page[l] EXCEPT !.enabled = FALSE, !.media = "raw", !.due = FALSE]]
           /\ build' = Touched(Locales)
  <2>1. \A l \in Locales : ~Running(l)'
    <3>1. \A S : <<>> \in Seq(S) /\ Len(<<>>) = 0
      BY EmptySeq
    <3>2. rows' \in Seq({}) /\ Len(rows') = 0
      BY <1>4, <3>1
    <3>3. DOMAIN rows' = 1 .. 0
      BY <3>2, LenProperties
    <3> QED BY <3>3 DEF Running
  <2>2. \A l \in Locales : page[l] \in Page
    BY DEF PageInv, FenceInv, Pages
  <2>3. \A l \in Locales : ~HasMedia(l)'
    BY <1>4, <2>2 DEF HasMedia, Page
  <2>4. build'.on = build.on /\ build'.doing = build.doing /\ (build.on => build'.doing \ build'.stale = {})
    BY <1>4 DEF Touched, PageInv, QueueTyped
  <2>5. build.on \/ build.doing = {}
    BY DEF PageInv, MediaInv
  <2> QED BY <1>2, <2>1, <2>3, <2>4, <2>5 DEF MediaInv
<1> QED BY <1>3, <1>4 DEF CancelDraft

\* A page's time comes: the job that waited for it may run.
LEMMA DueKeepsMedia ==
  ASSUME PageInv, NEW l \in Locales, Due(l)
  PROVE  MediaInv'
<1>1. /\ rows' = rows /\ build' = build /\ hidden' = hidden /\ scene' = scene
      /\ ~page[l].due
  BY DEF Due
<1>2. \A k \in Locales : /\ page'[k].enabled = page[k].enabled /\ page'[k].media = page[k].media
                        /\ page'[k].due = (k = l \/ page[k].due)
  BY DEF Due, PageInv, FenceInv, Pages, Page
<1>3. \A k \in Locales : HasMedia(k)' <=> HasMedia(k)
  BY <1>2 DEF HasMedia
<1>7. \A k \in Locales : /\ (Held(k)' <=> Held(k))
                        /\ (Waits(k)' <=> Waits(k))
                        /\ (Running(k)' <=> Running(k))
  BY <1>1 DEF Held, Waits, StillToRun, Promises, Running
<1>4. \A k \in Locales : Waits(k) => Held(k)
  BY DEF Waits, Held, StillToRun, Promises
<1>5. build'.doing = build.doing /\ build'.stale = build.stale /\ build'.on = build.on
  BY <1>1
<1>6. build.doing \subseteq Locales
  BY DEF PageInv, QueueTyped
<1>8. \A k \in Locales : page'[k].due => k = l \/ page[k].due
  BY <1>2
<1>9. \A k \in build.doing \ build.stale : page'[k].due
  BY <1>2, <1>6 DEF PageInv, MediaInv
<1>10. \A k \in Locales : Running(k)' /\ k \notin build'.doing => ~HasMedia(k)'
  BY <1>3, <1>5, <1>7 DEF PageInv, MediaInv
<1>11. \A k \in Locales : ~page'[k].due => ~HasMedia(k)'
  BY <1>2, <1>3 DEF PageInv, MediaInv
<1>12. hidden' \/ \A k \in Locales : page'[k].enabled /\ (IF page'[k].due THEN HasMedia(k)' \/ Held(k)' ELSE Waits(k)')
  BY <1>1, <1>2, <1>3, <1>4, <1>7 DEF PageInv, MediaInv
<1>13. build'.on \/ build'.doing = {}
  BY <1>5 DEF PageInv, MediaInv
<1> QED BY <1>5, <1>9, <1>10, <1>11, <1>12, <1>13 DEF MediaInv

LEMMA MediaStep == PlansAhead /\ PageInv /\ [SiteNext]_siteVars => MediaInv'
<1> SUFFICES ASSUME PlansAhead, PageInv, [SiteNext]_siteVars PROVE MediaInv'
  OBVIOUS
<1>1. CASE CycleBegins
  BY <1>1, CycleKeepsMedia
<1>2. CASE BuildEnds \/ BuildFails \/ Crash
  BY <1>2, EndKeepsMedia
<1>3. CASE Recover \/ Stall \/ CancelRemaining
  BY <1>3, ReleaseKeepsMedia
<1>4. CASE \E l \in Locales : Retry(l) \/ Skip(l)
  BY <1>4, SetKeepsMedia
<1>5. CASE \E l \in Locales : EditText(l) \/ RefreshPage(l) \/ DescribeMedia(l)
  BY <1>5, RepairKeepsMedia
<1>6. CASE \E l \in Locales : ReplaceMedia(l)
  BY <1>6, ReplaceKeepsMedia
<1>7. CASE \E later \in SUBSET Locales : Plan(later)
  BY <1>7, PlanKeepsMedia
<1>8. CASE CancelDraft
  BY <1>8, CancelKeepsMedia
<1>9. CASE \E l \in Locales : Due(l)
  BY <1>9, DueKeepsMedia
<1>10. CASE IndexAccepted \/ IndexRefused \/ BackoffPasses \/ IdleCycle \/ UNCHANGED siteVars
  <2>1. UNCHANGED <<scene, page, rows, hidden, build>>
    BY <1>10 DEF IndexAccepted, IndexRefused, BackoffPasses, IdleCycle, siteVars
  <2> QED BY <2>1 DEF PageInv, MediaInv, HasMedia, Held, Waits, StillToRun, Promises, Running
<1> QED BY <1>1, <1>2, <1>3, <1>4, <1>5, <1>6, <1>7, <1>8, <1>9, <1>10
        DEF SiteNext, Queueing, Announcing, Troubles, Commands

-----------------------------------------------------------------------------
(* The theorems *)

\* However long a build takes and whatever was edited, replaced, planned anew or
\* cancelled under it, a page never shows media that were replaced.
THEOREM PagesAreNotStale == SiteSpec => []NoStalePage
<1>1. FenceInv => NoStalePage
  BY DEF FenceInv
<1> QED BY <1>1, FenceStarts, FenceStep, PTL DEF SiteSpec

\* No public change is dropped from the outbox before a request that carried it was
\* accepted, through refusals, restarts and changes during a request.
THEOREM ChangesAreAnnounced == SiteSpec => []ChangeIsAnnounced
<1>1. OutboxInv => ChangeIsAnnounced
  BY DEF OutboxInv
<1> QED BY <1>1, OutboxStarts, OutboxStep, PTL DEF SiteSpec

\* Every row is a row of the table: one that is being rendered is locked, and one whose
\* attempts are used up has ended.
THEOREM SiteTypes == SiteSpec => []SiteTypeOK
<1> QED BY FenceStarts, FenceStep, OutboxStarts, OutboxStep, QueueStarts, QueueStep, QueueTypes, PTL
           DEF SiteSpec

\* Where each edition is planned before a page is rendered, and no job cancelled before
\* its time is retried, a page visitors can open shows its media, or a build of it is
\* still to come or has ended badly, whatever is edited, replaced, stalled or crashed.
THEOREM PagesKeepTheirMedia ==
  ASSUME PlansAhead
  PROVE  SiteSpec => []PageKeepsItsMedia
<1>1. PageInv => PageKeepsItsMedia
  <2> SUFFICES ASSUME PageInv, NEW l \in Locales, Public(l), ~HasMedia(l) PROVE BuildAhead \/ KnownBroken(l)
    BY DEF PageKeepsItsMedia
  <2>1. \A i \in DOMAIN rows : rows[i] \in GoodRow
    BY RowAt DEF PageInv, QueueTyped
  <2>2. Held(l) /\ page[l].due
    BY DEF PageInv, MediaInv, Public
  <2>3. PICK i \in DOMAIN rows : rows[i].locale = l /\ Promises(rows[i], build.doing)
    BY <2>2 DEF Held
  <2>4. rows[i].status \in {"queued", "rendering", "failed", "cancelled"}
    BY <2>1, <2>3 DEF Promises, GoodRow
  <2> QED BY <2>2, <2>3, <2>4 DEF BuildAhead, KnownBroken, RowsOf, OpenStatuses
<1>2. SiteInit => PageInv
  BY QueueStarts, FenceStarts, MediaStarts DEF PageInv
<1>3. PageInv /\ [SiteNext]_siteVars => PageInv'
  BY QueueStep, FenceStep, MediaStep DEF PageInv
<1> QED BY <1>1, <1>2, <1>3, PTL DEF SiteSpec
=============================================================================
