------------------------------ MODULE PostDraft ------------------------------
(***************************************************************************)
(* A post while it is written: the texts of its thread in two languages,   *)
(* the translation queue, the Story cards rendered from the texts, and the *)
(* delivery plan a scheduled post already has.  The author edits while the *)
(* translation and the card loop are waiting for a model or a renderer, so *)
(* their answers are about texts that may be gone.                         *)
(*                                                                         *)
(* A text is its edition, a number used once.  machine = e is English made *)
(* from the Russian edition e; approved = e is English its author wrote.   *)
(* Each loop runs one cycle at a time in one process, so a row's lock is   *)
(* its "translating" or "rendering" status: a re-queue takes both away.    *)
(***************************************************************************)
EXTENDS Naturals, FiniteSets, Sequences

CONSTANTS
  MaxEditions, \* BOUND: edits of the author
  MaxPosts,    \* BOUND: posts of the thread
  MaxTries,    \* TRANSLATION_MAX_ATTEMPTS, STORY_CARD_MAX_ATTEMPTS
  MaxCrashes,  \* BOUND: process restarts
  Edits,       \* what the author does in this instance
  Accidents    \* what may go wrong beyond crashes and failed attempts

AllEdits == {"ru", "en", "media", "target_en", "target_story", "target_site", "mode", "make_thread",
             "append", "edit_part", "edit_part_en", "remove_part", "cancel"}
\* "unfit": a text no platform takes.  "late": the plan comes due while a card
\* is still being rendered.  "one_language": Story delivery is chosen for a
\* post that has no English.  "undone": an edit that replaces a card is refused.
\* "plain": a Russian text with no Cyrillic in it.
AllAccidents == {"unfit", "late", "one_language", "undone", "plain"}
ASSUME DraftBoundsAssumption ==
  /\ MaxEditions \in Nat \ {0} /\ MaxPosts \in Nat \ {0} /\ MaxTries \in Nat \ {0}
  /\ MaxCrashes \in Nat
ASSUME DraftChoicesAssumption == Edits \subseteq AllEdits /\ Accidents \subseteq AllAccidents

Locales == {"ru", "en"}
Editions == 0 .. MaxEditions
Post == [ru: Editions, machine: Editions, approved: Editions]
CardStatus == {"absent", "queued", "rendering", "ready", "failed"}
Card == [status: CardStatus, hash: Editions, path: Editions, tries: 0 .. MaxTries]
Translation == [status: {"absent", "queued", "translating", "failed"}, tries: 0 .. MaxTries]

VARIABLES
  status,      \* drafts.status
  posts,       \* post_locales and draft_thread_parts, in order
  media,       \* the post has media of its own
  wants,       \* targets beyond the Russian ones: English, Stories, the site
  mode,        \* drafts.storyPublishMode
  translation, \* draft_translations
  cards,       \* draft_story_cards
  files,       \* rendered cards on disk
  plan,        \* what the queued jobs carry
  translator,  \* the Russian texts the translation loop was given
  renderer,    \* the card the card loop is drawing
  unfit,       \* texts a platform's limits refuse
  plain,       \* Russian texts that ask for no translation (translationWanted)
  asked,       \* GHOST: the last change of the thread asked for its English
  behind,      \* GHOST: the plan lacks a change whose replan was refused (its author is told,
               \* or nobody saw it), or English that was still to come when it was made
  editions, restarts

asking == <<plain, asked>>
writing == <<posts, media, wants, unfit, asking, editions>>
rendering == <<cards, files, mode>>
loops == <<translator, renderer, restarts>>
draftVars == <<status, writing, rendering, translation, plan, loops, behind>>

Asleep == [busy |-> FALSE]
NoCard == [status |-> "absent", hash |-> 0, path |-> 0, tries |-> 0]
NoPlan == [ru |-> <<>>, en |-> <<>>, story |-> {}]
Coming == {"queued", "translating"}
NoTranslation == [status |-> "absent", tries |-> 0]
Wanted == [status |-> "queued", tries |-> 0]

-----------------------------------------------------------------------------
(* What the rows mean *)

\* draftLocaleContent, and localizedThread for the posts after the first
TextOf(post, locale) ==
  IF locale = "ru" THEN post.ru ELSE IF post.approved # 0 THEN post.approved ELSE post.machine
ThreadIn(ps, locale) == [i \in DOMAIN ps |-> TextOf(ps[i], locale)]
\* readyStoryCardMedia: both languages or nothing
ReadyCards(cs, fs) ==
  \A l \in Locales : cs[l].status = "ready" /\ <<l, cs[l].path>> \in fs
\* publicationPreflight: every language that is published has every post of it,
\* and nothing is over a limit
Publishable(ps, ws, no) ==
  /\ \A i \in DOMAIN ps : ps[i].ru \notin no
  /\ "en" \in ws => \A i \in DOMAIN ps : TextOf(ps[i], "en") # 0 /\ TextOf(ps[i], "en") \notin no
\* MUTANT: a card that failed is waited for like any other.
WaitsForFailedCards(ws, md, m, cs, fs) ==
  m # "none" /\ "story" \in ws /\ ~md /\ ~ReadyCards(cs, fs)
\* waitForStoryCards, and the same question in replanScheduledPostAfterMutation
WaitsForCards(ws, md, m, cs, fs) ==
  /\ m # "none" /\ "story" \in ws /\ ~md
  /\ \A l \in Locales : cs[l].status # "failed"
  /\ ~ReadyCards(cs, fs)
\* createPublicationPlan with effectivePublicationTargets: a generated card goes
\* to Stories only when the author said so
PlanOf(ps, ws, m, cs, fs) ==
  [ru |-> ThreadIn(ps, "ru"),
   en |-> IF "en" \in ws THEN ThreadIn(ps, "en") ELSE <<>>,
   story |-> IF "story" \in ws /\ ReadyCards(cs, fs) /\ m = "all"
               THEN {<<l, cs[l].path>> : l \in Locales} ELSE {}]

\* storyCardUse: Stories carry a card, and the site illustrates its page with one.
CardUse(ws) == ws \cap {"story", "site"} # {}
\* queueDraftStoryCards: one card for each language that has a text, again only
\* if it is not the card already there, and the old file is removed.
NeedsDrawing(cs, fs, ps, l) ==
  LET text == TextOf(ps[1], l) IN
    text # 0 /\ ~(cs[l].hash = text /\ cs[l].status = "ready" /\ <<l, cs[l].path>> \in fs)
CardFor(cs, fs, ps, l) ==
  IF NeedsDrawing(cs, fs, ps, l)
    THEN [status |-> "queued", hash |-> TextOf(ps[1], l), path |-> 0, tries |-> 0] ELSE cs[l]
RequeuedCards(cs, fs, ps, ws, md) ==
  [l \in Locales |-> IF md \/ ~CardUse(ws) THEN NoCard ELSE CardFor(cs, fs, ps, l)]
FilesOf(cs) == {<<l, cs[l].path>> : l \in {x \in Locales : cs[x].path # 0}}
Dropped(old, new) == FilesOf(old) \ FilesOf(new)
\* The author chose for a card that is no longer the one.
ModeAfter(m, cs, fs, ps, ws, md, st) ==
  IF md \/ ~CardUse(ws) THEN "none"
  ELSE IF st # "scheduled" /\ \E l \in Locales : NeedsDrawing(cs, fs, ps, l) THEN "none" ELSE m

DraftInit ==
  /\ status = "needs_review"
  /\ posts = <<[ru |-> 1, machine |-> 0, approved |-> 0]>>
  /\ media = FALSE /\ wants \in SUBSET {"en", "story", "site"} /\ mode = "none"
  /\ plain \in {{}, {1}} /\ (plain # {} => "plain" \in Accidents) /\ asked = TRUE
  /\ translation = IF 1 \in plain THEN NoTranslation ELSE Wanted
  /\ cards = [l \in Locales |-> IF l = "ru" /\ CardUse(wants)
                                 THEN [NoCard EXCEPT !.status = "queued", !.hash = 1] ELSE NoCard]
  /\ files = {} /\ plan = NoPlan
  /\ translator = Asleep /\ renderer = Asleep
  /\ unfit = {} /\ behind = "no" /\ editions = 1 /\ restarts = 0

-----------------------------------------------------------------------------
(* Planning *)

\* schedulePost through publishDraftToQueue: preflight, the choice about a card
\* that is ready, and the whole plan again.
Schedulable(ps, ws, m, cs, fs) ==
  /\ Publishable(ps, ws, unfit')
  /\ ~(ReadyCards(cs, fs) /\ "story" \in ws /\ m = "none")
Replan(ps, ws, m, cs, fs) ==
  /\ plan' = PlanOf(ps, ws, m, cs, fs)
  /\ behind' = IF "en" \in ws /\ translation'.status \in Coming THEN "english" ELSE "no"
\* replanScheduledPostAfterMutation, after the change itself is saved
ReplanAfterMutation(ps, m) ==
  IF status # "scheduled" \/ WaitsForCards(wants, media, m, cards, files)
    THEN UNCHANGED <<plan, behind>>
  ELSE IF Schedulable(ps, wants, m, cards, files) THEN Replan(ps, wants, m, cards, files)
  ELSE behind' = "refused" /\ UNCHANGED plan

Schedule ==
  /\ status \in {"needs_review", "scheduled"}
  /\ UNCHANGED <<unfit, asking, translation>> /\ Schedulable(posts, wants, mode, cards, files)
  /\ Replan(posts, wants, mode, cards, files)
  /\ status' = "scheduled"
  /\ UNCHANGED <<posts, media, wants, editions, rendering, loops>>

\* The jobs come due and carry the plan to the platforms; nothing is left of it here.
CardsBusy == \E l \in Locales : cards[l].status \in {"queued", "rendering"}
Deliver ==
  /\ status = "scheduled" /\ ("late" \in Accidents \/ ~CardsBusy)
  /\ status' = "published" /\ plan' = NoPlan /\ behind' = "no"
  /\ UNCHANGED <<writing, rendering, translation, loops>>

\* cancelDraft
CancelPost ==
  /\ "cancel" \in Edits /\ status \in {"needs_review", "scheduled"} /\ status' = "cancelled"
  /\ plan' = NoPlan /\ cards' = [l \in Locales |-> NoCard] /\ files' = files \ FilesOf(cards)
  /\ behind' = "no" /\ UNCHANGED <<writing, mode, translation, loops>>

-----------------------------------------------------------------------------
(* The author *)

\* requirePostEditAllowed; the two minutes before delivery belong to Deliver.
\* Every edit takes an edition, whether it writes a text or not.
Editing(edit) ==
  /\ edit \in Edits /\ status \in {"needs_review", "scheduled"}
  /\ editions < MaxEditions /\ editions' = editions + 1
\* The limits a new text may break.
Fitness ==
  \/ unfit' = unfit
  \/ "unfit" \in Accidents /\ unfit' = unfit \cup {editions'}

\* And whether a new Russian text of the first post is one to translate; the
\* texts before the one it replaces are forgotten.
Wording ==
  LET kept == plain \cap {posts[1].ru} IN
  \/ plain' = kept
  \/ "plain" \in Accidents /\ plain' = kept \cup {editions'}

\* MUTANT: an edit of a scheduled post leaves its jobs as they are.
SaveKeepingPlan(ps, md) ==
  LET cs == RequeuedCards(cards, files, ps, wants, md)
      fs == files \ Dropped(cards, cs)
  IN
  /\ posts' = ps /\ media' = md /\ cards' = cs /\ files' = fs
  /\ mode' = ModeAfter(mode, cards, files, ps, wants, md, status)
  /\ UNCHANGED <<status, wants, asked, translation, plan, behind, loops>>
\* saveContentMutation, and mutateScheduledDraft for a scheduled post: the edit,
\* the cards and the plan in one transaction that a preflight refusal undoes.
\* A file removed on the way stays removed.
SaveContent(ps, md) ==
  LET cs == RequeuedCards(cards, files, ps, wants, md)
      fs == files \ Dropped(cards, cs)
      m == ModeAfter(mode, cards, files, ps, wants, md, status)
  IN
  /\ "undone" \in Accidents \/ fs = files \/ Publishable(ps, wants, unfit')
  /\ files' = fs /\ UNCHANGED <<status, wants, asked, translation, loops>>
  /\ IF status = "scheduled" /\ ~Publishable(ps, wants, unfit')
       THEN UNCHANGED <<posts, media, cards, mode, plan, behind>>
       ELSE /\ posts' = ps /\ media' = md /\ cards' = cs /\ mode' = m
            /\ IF status = "scheduled" /\ ~WaitsForCards(wants, md, m, cs, fs)
                 THEN Replan(ps, wants, m, cs, fs) ELSE UNCHANGED <<plan, behind>>

\* prepareDraftContentEdit: the Russian text, or the English one as its author's
\* own.  Neither asks for a translation.
EditText(locale) ==
  LET ps == [posts EXCEPT ![1] = IF locale = "ru" THEN [@ EXCEPT !.ru = editions']
                                                  ELSE [@ EXCEPT !.approved = editions']]
  IN
  /\ Editing(locale) /\ Fitness /\ (IF locale = "ru" THEN Wording ELSE plain' = plain)
  /\ SaveContent(ps, media)

\* attachMediaAssets and removeMedia
EditMedia ==
  /\ Editing("media") /\ unfit' = unfit /\ plain' = plain
  /\ SaveContent(posts, ~media)

\* toggleTarget with saveTargetsAndReschedule: no card is queued or dropped.
ToggleTarget(w) ==
  LET ws == IF w \in wants THEN wants \ {w} ELSE wants \cup {w} IN
  /\ Editing("target_" \o w)
  /\ status = "scheduled" => Publishable(posts, ws, unfit)
  /\ wants' = ws
  /\ UNCHANGED <<status, posts, media, unfit, asking, rendering, translation, loops>>
  /\ IF status = "scheduled" /\ ~WaitsForCards(ws, media, mode, cards, files)
       THEN Replan(posts, ws, mode, cards, files) ELSE UNCHANGED <<plan, behind>>

\* setStoryPublishMode, offered once there are cards and all are rendered
\* (showStoryCardChoice)
SetStoryPublishMode(m) ==
  /\ Editing("mode") /\ "story" \in wants
  /\ \A l \in Locales : cards[l].status \in {"absent", "ready"}
  /\ \E l \in Locales : cards[l].status = "ready"
  /\ "one_language" \in Accidents \/ TextOf(posts[1], "en") # 0
  /\ UNCHANGED <<unfit, asking, translation>> /\ mode' = m /\ ReplanAfterMutation(posts, m)
  /\ UNCHANGED <<status, posts, media, wants, cards, files, loops>>

\* threadChanged: saved first, then queued for translation if the first post is
\* one to translate, and planned again
ThreadChanged(ps) ==
  /\ posts' = ps /\ asked' = (ps[1].ru \notin plain')
  /\ translation' = IF asked' THEN Wanted ELSE translation
  /\ ReplanAfterMutation(ps, mode) /\ UNCHANGED <<status, media, wants, rendering, loops>>

Part(e) == [ru |-> e, machine |-> 0, approved |-> 0]
\* makeThread: what is over the limit becomes the post after the first.
MakeThread ==
  /\ Editing("make_thread") /\ Len(posts) < MaxPosts
  /\ unfit' = unfit /\ Wording /\ (posts[1].ru \in plain => editions' \in plain')
  /\ ThreadChanged(<<[posts[1] EXCEPT !.ru = editions', !.approved = 0], Part(editions')>>
                   \o Tail(posts))
AppendThreadPart ==
  /\ Editing("append") /\ Len(posts) < MaxPosts /\ Fitness /\ plain' = plain
  /\ ThreadChanged(Append(posts, Part(editions')))
EditThreadPart(i) ==
  /\ Editing("edit_part") /\ i \in 2 .. Len(posts) /\ Fitness /\ plain' = plain
  /\ ThreadChanged([posts EXCEPT ![i] = Part(editions')])
RemoveThreadPart(i) ==
  /\ Editing("remove_part") /\ i \in 2 .. Len(posts) /\ unfit' = unfit /\ plain' = plain
  /\ ThreadChanged(SubSeq(posts, 1, i - 1) \o SubSeq(posts, i + 1, Len(posts)))
\* editThreadPartEnglish: the author's own, not translated again
EditThreadPartEnglish(i) ==
  LET ps == [posts EXCEPT ![i].approved = editions'] IN
  /\ Editing("edit_part_en") /\ i \in 2 .. Len(posts) /\ Fitness
  /\ posts' = ps /\ UNCHANGED <<status, media, wants, asking, rendering, translation, loops>>
  /\ ReplanAfterMutation(ps, mode)

-----------------------------------------------------------------------------
(* The translation loop *)

\* MUTANT: one attempt more than the row has room for.
AgainOnceMore(spent) == spent <= MaxTries
\* What a loop does with a failed row.
Again(spent) == spent < MaxTries

\* claimDue and the read of the draft; a claim whose worker died is taken back.
ClaimTranslation ==
  /\ translator = Asleep /\ translation.status \in Coming
  /\ translation' = [translation EXCEPT !.status = "translating"]
  /\ translator' = [busy |-> TRUE, texts |-> ThreadIn(posts, "ru")]
  /\ UNCHANGED <<status, writing, rendering, plan, renderer, restarts, behind>>

\* MUTANT: the row is settled whoever has it now.
SettledByAnyone == NoTranslation
\* settle, by the lock of the claim
Settled == IF translation.status = "translating" THEN NoTranslation ELSE translation

\* runTranslationCycle: English for every position it read, whatever stands
\* there now, and the cards drawn from it.
TranslationAnswers ==
  LET texts == translator.texts
      ps == [i \in DOMAIN posts |->
               IF i \in DOMAIN texts THEN [posts[i] EXCEPT !.machine = texts[i]] ELSE posts[i]]
      cs == RequeuedCards(cards, files, ps, wants, media)
  IN
  /\ translator # Asleep /\ translator' = Asleep
  /\ posts' = ps /\ cards' = cs /\ files' = files \ Dropped(cards, cs)
  /\ mode' = ModeAfter(mode, cards, files, ps, wants, media, status)
  /\ translation' = Settled
  /\ UNCHANGED <<status, media, wants, unfit, asking, editions, plan, renderer, restarts, behind>>

\* fail, by the lock of the claim
TranslationFails ==
  LET spent == translation.tries + 1 IN
  /\ translator # Asleep /\ translator' = Asleep
  /\ translation' = IF translation.status # "translating" THEN translation
                    ELSE [status |-> IF Again(spent) THEN "queued" ELSE "failed", tries |-> spent]
  /\ UNCHANGED <<status, writing, rendering, plan, renderer, restarts, behind>>

-----------------------------------------------------------------------------
(* The card loop *)

\* claimStoryCard
ClaimCard(l) ==
  /\ renderer = Asleep /\ cards[l].status = "queued"
  /\ cards' = [cards EXCEPT ![l].status = "rendering"]
  /\ renderer' = [busy |-> TRUE, locale |-> l, hash |-> cards[l].hash, tries |-> cards[l].tries]
  /\ UNCHANGED <<status, writing, files, mode, translation, plan, translator, restarts, behind>>

\* MUTANT: the lock is not part of the fence.
AnyRow(l) == cards[l].status # "absent"
\* The row is still the one that was claimed.
StillClaimed(l) == cards[l].status = "rendering"

\* replanScheduledPostAfterStoryCards
ReplansAfterCards(cs, fs) == status = "scheduled" /\ mode # "none" /\ ReadyCards(cs, fs)
\* replanScheduledPostAfterStoryCardFailure
ReplansAfterFailure(cs) ==
  /\ status = "scheduled" /\ mode # "none" /\ "story" \in wants
  /\ \E l \in Locales : cs[l].status = "failed"
ReplanBy(guard, cs, fs) ==
  IF ~guard THEN UNCHANGED <<plan, behind>>
  ELSE IF Schedulable(posts, wants, mode, cs, fs) THEN Replan(posts, wants, mode, cs, fs)
  ELSE behind' = "unseen" /\ UNCHANGED plan

\* runStoryCardCycle: the file is there first, the row says so if it is still
\* this claim's, and a scheduled post is planned again either way.
CardRendered ==
  LET l == renderer.locale
      cs == IF StillClaimed(l) THEN [cards EXCEPT ![l].status = "ready", ![l].path = renderer.hash]
            ELSE cards
      fs == files \cup {<<l, renderer.hash>>}
  IN
  /\ renderer # Asleep /\ renderer' = Asleep
  /\ cards' = cs /\ files' = fs /\ UNCHANGED <<unfit, asking, translation>>
  /\ ReplanBy(ReplansAfterCards(cs, fs), cs, fs)
  /\ UNCHANGED <<status, posts, media, wants, editions, mode, translator, restarts>>

CardFails ==
  LET l == renderer.locale
      spent == renderer.tries + 1
      cs == IF StillClaimed(l)
              THEN [cards EXCEPT ![l].status = IF Again(spent) THEN "queued" ELSE "failed",
                                 ![l].tries = spent]
              ELSE cards
  IN
  /\ renderer # Asleep /\ renderer' = Asleep
  /\ cards' = cs /\ UNCHANGED <<unfit, asking, translation>>
  /\ ReplanBy(~Again(spent) /\ ReplansAfterFailure(cs), cs, files)
  /\ UNCHANGED <<status, posts, media, wants, editions, files, mode, translator, restarts>>

\* recoverStoryCardJobs: a render that died costs no attempt.
RecoverCard(l) ==
  /\ cards[l].status = "rendering" /\ ~(renderer.busy /\ renderer.locale = l)
  /\ cards' = [cards EXCEPT ![l].status = "queued"]
  /\ UNCHANGED <<status, writing, files, mode, translation, plan, loops, behind>>

Restart ==
  /\ restarts < MaxCrashes /\ restarts' = restarts + 1
  /\ translator' = Asleep /\ renderer' = Asleep
  /\ UNCHANGED <<status, writing, rendering, translation, plan, behind>>

-----------------------------------------------------------------------------

Author ==
  \/ \E l \in Locales : EditText(l)
  \/ \E w \in {"en", "story", "site"} : ToggleTarget(w)
  \/ \E m \in {"all", "site_only"} : SetStoryPublishMode(m)
  \/ \E i \in 2 .. MaxPosts : EditThreadPart(i) \/ RemoveThreadPart(i) \/ EditThreadPartEnglish(i)
  \/ EditMedia \/ MakeThread \/ AppendThreadPart \/ Schedule \/ CancelPost
Translating == ClaimTranslation \/ TranslationAnswers \/ TranslationFails
Drawing ==
  \/ \E l \in Locales : ClaimCard(l) \/ RecoverCard(l)
  \/ CardRendered \/ CardFails
DraftNext == Author \/ Translating \/ Drawing \/ Deliver \/ Restart
DraftSpec == DraftInit /\ [][DraftNext]_draftVars

\* The two loops of runtime/workers.ts; calls end, because every one has a timeout.
DraftFairness == WF_draftVars(Translating) /\ WF_draftVars(Drawing)
DraftFairSpec == DraftSpec /\ DraftFairness

-----------------------------------------------------------------------------
(* Properties *)

DraftTypeOK ==
  /\ status \in {"needs_review", "scheduled", "published", "cancelled"}
  /\ posts \in Seq(Post) /\ Len(posts) \in 1 .. MaxPosts
  /\ media \in BOOLEAN /\ wants \subseteq {"en", "story", "site"} /\ mode \in {"none", "all", "site_only"}
  /\ translation \in Translation /\ cards \in [Locales -> Card]
  /\ files \subseteq Locales \X Editions /\ plan.ru \in Seq(Editions) /\ plan.en \in Seq(Editions)
  /\ plan.story \subseteq Locales \X Editions
  /\ unfit \subseteq Editions /\ plain \subseteq Editions /\ asked \in BOOLEAN
  /\ behind \in {"no", "refused", "unseen", "english"}
  /\ editions \in 1 .. MaxEditions /\ restarts \in 0 .. MaxCrashes

\* "Every thread change leaves the English stale": no machine English stands in a
\* thread under another Russian post than its own, unless it is still being
\* replaced or the translator gave up (posts.ts, translation-worker.ts).
ThreadIsTranslated ==
  translation.status = "absent" =>
    \A i \in 2 .. Len(posts) : posts[i].machine \in {0, posts[i].ru}

\* The machine English of a thread's post was made from the Russian that post
\* has now, or a translation is still to come, or the last one gave up, whenever
\* the last change of the thread asked for its English: an answer about posts that
\* have since moved or changed settles nothing (threadChanged against
\* runTranslationCycle).
EnglishOfThisPost == asked => ThreadIsTranslated

\* A card that is ready shows the text the post has, whatever finished late
\* (queueDraftStoryCards against the fence of runStoryCardCycle).  A thread that
\* asked for no English drew no card again either.
CardShowsText ==
  asked /\ translation.status = "absent" =>
    \A l \in Locales : cards[l].status = "ready" => cards[l].path = TextOf(posts[1], l)

\* What is delivered is what the author last saved and was not told otherwise
\* about: no edit is lost between saving, waiting for cards and planning.
DeliveredIsCurrent ==
  [][Deliver /\ behind = "no" => plan = PlanOf(posts, wants, mode, cards, files)]_draftVars

\* A post held back for its cards has a card that will release it.
WaitingHasACard ==
  status = "scheduled" /\ WaitsForCards(wants, media, mode, cards, files) => CardsBusy

\* A Story that is planned has the picture it names.
StoryHasItsFile ==
  status = "scheduled" /\ ~CardsBusy /\ behind \in {"no", "english"} => plan.story \subseteq files

\* Neither a post that waits for nobody nor a Story without its picture, however
\* cards fail, are replaced or arrive late (scheduled-draft-mutation.ts,
\* story-cards/store.ts, publication-writer.ts).
StoriesAreServed == WaitingHasACard /\ StoryHasItsFile
=============================================================================
