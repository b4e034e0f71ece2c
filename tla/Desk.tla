-------------------------------- MODULE Desk --------------------------------
(***************************************************************************)
(* The operator's conversation with the bot (bot/, application/            *)
(* conversation-flow.ts, studio/video-fsm.ts, db/repositories/             *)
(* conversation-sessions.ts).                                              *)
(*                                                                         *)
(* A conversation is a row with a step and a revision.  Buttons of older   *)
(* screens stay in the chat and in the queue of updates, so any screen     *)
(* ever shown can still be tapped.  The updates of a chat are handled one    *)
(* at a time; only the album worker runs beside them, and an answer that   *)
(* carries media is imported before it is taken.                           *)
(*                                                                         *)
(* The metadata of a platform is one step here, and a post's time is one   *)
(* language's.  Publishing a post needs no conversation and is an          *)
(* operation of PublishQueue.                                              *)
(***************************************************************************)
EXTENDS Naturals, FiniteSets

CONSTANTS
  MaxSent,       \* messages with material the operator sends
  MaxMoves,      \* things the operator does, and dialogs that expire
  AlbumTries,    \* ALBUM_MAX_ATTEMPTS
  DeskFaults     \* subset of AllDeskFaults

\* "overlap": the operator goes on while the album worker imports.
\* "late_part": a part of an album arrives while the album is being finalised.
\* "torn": the server dies between making a draft and dropping the album's row.
AllDeskFaults == {"overlap", "late_part", "torn"}

ASSUME DeskAssumption ==
  /\ MaxSent \in Nat /\ MaxMoves \in Nat /\ AlbumTries \in Nat /\ DeskFaults \subseteq AllDeskFaults

VARIABLES
  desk,        \* which half of the bot is used: "post" or "video"
  sessions,    \* [ConversationKinds -> Session]: conversation_sessions
  screens,       \* screens in the chat, as they were sent
  messages,    \* messages the bot has sent
  card,        \* [1 .. DraftLimit -> message that is the draft's card]
  drafts,      \* drafts made so far; the first was there before
  sent,        \* material sent so far; each is a number of its own
  handling,    \* the answer whose media is being imported
  albums,      \* [1 .. MaxSent -> AlbumRow]: pending_albums
  finalizing,  \* the album the worker is importing, 0 for none
  posed,       \* questions asked so far
  uses,        \* [1 .. MaxSent -> results a sent thing went into]
  answers,     \* [1 .. MaxMoves * 2 -> results a question got]
  aims,        \* [1 .. DraftLimit -> platforms of the draft]
  confirmed,   \* what the last tap was about, on its screen and in what it did
  moves

deskVars == <<desk, sessions, screens, messages, card, drafts, sent, handling, albums, finalizing,
              posed, uses, answers, aims, confirmed, moves>>

ConversationKinds == {"intake", "post", "video"}
VideoTargets == {"youtube", "reels"}
Clock == 1 .. 2
EditSteps == {"edit_text", "thread_part"}
WizardSteps == {"script", "youtube", "reels"}
ScheduleSteps == {"schedule_choice", "schedule_common", "schedule_target", "schedule_confirm"}
\* The steps of the intake, of a post and of a video.
ConversationSteps ==
  {"none", "awaiting", "choose", "article_review", "video_locale", "schedule_manual", "completed", "asset", "label"}
  \cup EditSteps \cup WizardSteps \cup ScheduleSteps
DraftLimit == MaxSent + 1
Questions == 1 .. (MaxMoves * 2)

\* What a conversation or a screen is about: the material sent, the times chosen.
Matter == ({"sent"} \X (1 .. MaxSent)) \cup (({"post"} \cup VideoTargets) \X Clock)
The(matter) == (CHOOSE p \in matter : TRUE)[2]

Session == [step: ConversationSteps, draft: 0 .. DraftLimit, about: SUBSET Matter,
            sel: SUBSET VideoTargets, edit: BOOLEAN, rev: Nat, q: Nat]
NoSession == [step |-> "none", draft |-> 0, about |-> {}, sel |-> {}, edit |-> FALSE, rev |-> 0, q |-> 0]
Asking(step, draft) == [NoSession EXCEPT !.step = step, !.draft = draft]

ScreenKinds == ConversationSteps \cup {"card", "kind", "review", "prompt", "more", "where"}
Screen == [is: ScreenKinds, at: Nat, draft: 0 .. DraftLimit, rev: Nat, about: SUBSET Matter,
           sel: SUBSET VideoTargets]
CardScreen(d, at) == [is |-> "card", at |-> at, draft |-> d, rev |-> 0, about |-> {}, sel |-> {}]

\* What a question is about, as the screen shows it or the session holds it.
Subject(q) == [about |-> q.about, sel |-> q.sel]
Nothing == [about |-> {}, sel |-> {}]

AlbumRow == [st: {"none", "settled", "claimed"}, step: ConversationSteps, draft: 0 .. DraftLimit,
             rev: Nat, q: Nat, tries: 0 .. AlbumTries + 1]
NoAlbum == [st |-> "none", step |-> "none", draft |-> 0, rev |-> 0, q |-> 0, tries |-> 0]
NoAnswer == [m |-> 0, step |-> "none", draft |-> 0, rev |-> 0, q |-> 0]

DeskTypeOK ==
  /\ desk \in {"post", "video"} /\ DOMAIN sessions = ConversationKinds
  /\ \A k \in ConversationKinds : sessions[k] \in Session
  /\ \A s \in screens : s \in Screen /\ s.at \in 1 .. messages
  /\ drafts \in 1 .. DraftLimit /\ sent \in 0 .. MaxSent /\ moves \in 0 .. MaxMoves
  /\ \A d \in 1 .. DraftLimit : card[d] \in 0 .. messages
  /\ \A m \in 1 .. MaxSent : albums[m] \in AlbumRow /\ uses[m] \in 0 .. 2
  /\ finalizing \in 0 .. MaxSent /\ posed \in Nat
  /\ \A n \in Questions : answers[n] \in 0 .. 2
  /\ aims \in [1 .. DraftLimit -> SUBSET VideoTargets]

\* A publication with its card; the video's wizard may have asked for the script.
DeskInit ==
  /\ desk \in {"post", "video"}
  /\ \E begun \in {FALSE, desk = "video"} :
       LET script == [NoSession EXCEPT !.step = "script", !.draft = 1, !.sel = VideoTargets, !.rev = 1, !.q = 1]
           question == [is |-> "script", at |-> 2, draft |-> 1, rev |-> 1, about |-> {}, sel |-> VideoTargets]
       IN /\ sessions = [k \in ConversationKinds |-> IF begun /\ k = "video" THEN script ELSE NoSession]
          /\ screens = {CardScreen(1, 1)} \cup (IF begun THEN {question} ELSE {})
          /\ messages = (IF begun THEN 2 ELSE 1) /\ posed = (IF begun THEN 1 ELSE 0)
  /\ card = [d \in 1 .. DraftLimit |-> IF d = 1 THEN 1 ELSE 0]
  /\ drafts = 1 /\ sent = 0 /\ handling = NoAnswer
  /\ albums = [m \in 1 .. MaxSent |-> NoAlbum] /\ finalizing = 0
  /\ uses = [m \in 1 .. MaxSent |-> 0] /\ answers = [n \in Questions |-> 0]
  /\ aims = [d \in 1 .. DraftLimit |-> IF d = 1 THEN VideoTargets ELSE {}]
  /\ confirmed = [shown |-> Nothing, done |-> Nothing] /\ moves = 0

(***************************************************************************)
(* Sessions                                                                *)
(***************************************************************************)

Alive(k) == sessions[k].step # "none"

\* retire: the revision moves on, whether or not the row was active.
Retired(s) == IF s.rev = 0 THEN s ELSE [NoSession EXCEPT !.rev = s.rev + 1]
Cleared(ss, k) == [ss EXCEPT ![k] = Retired(@)]

\* hasSemanticChange: the same question asked again keeps its revision.
SameQuestion(old, new) ==
  /\ old.step = new.step /\ old.draft = new.draft
  /\ old.about = new.about /\ old.sel = new.sel /\ old.edit = new.edit

\* saveConversationState: every other conversation is retired.
Saved(ss, k, s) ==
  [j \in ConversationKinds |->
     IF j # k THEN Retired(ss[j])
     ELSE IF SameQuestion(ss[k], s) THEN ss[k]
     ELSE [s EXCEPT !.rev = ss[k].rev + 1, !.q = posed + 1]]

\* requireSessionRevision and the sessionRevision rule of the router.
CurrentRevision(s, k) == Alive(k) /\ s.rev = sessions[k].rev

\* MUTANT: an album is taken whatever became of its dialog.
NeverStale(row) == FALSE

\* finalizePendingAlbums: the dialog the album answered is no longer open.
StaleAlbum(row) == row.rev # 0 /\ (~Alive("post") \/ sessions["post"].rev # row.rev)

\* isSupersededCard: a button that needs the card works on the card alone.
FreshCard(s) == s.draft # 0 => card[s.draft] \in {0, s.at}

(***************************************************************************)
(* Screens                                                                 *)
(***************************************************************************)

\* A screen over the tapped message, or below the last one (at = 0).
Place(at) == IF at = 0 THEN messages + 1 ELSE at
ShowsOf(is, at, d, rev, subject, binds) ==
  /\ screens' = screens \cup {[is |-> is, at |-> Place(at), draft |-> d, rev |-> rev,
                            about |-> subject.about, sel |-> subject.sel]}
  /\ messages' = IF at = 0 THEN messages + 1 ELSE messages
  /\ card' = IF binds THEN [card EXCEPT ![d] = Place(at)] ELSE card
Shows(is, at, d, rev, about, binds) == ShowsOf(is, at, d, rev, [about |-> about, sel |-> {}], binds)
ShowsCard(at, d) == Shows("card", at, d, 0, {}, TRUE)
ShowsNothing == UNCHANGED <<screens, messages, card>>

\* Nothing else is under way: updates wait for each other.
Ready == /\ handling = NoAnswer
         /\ finalizing = 0 \/ "overlap" \in DeskFaults
Moves == /\ Ready /\ moves < MaxMoves /\ moves' = moves + 1
Arrives == /\ Moves /\ sent < MaxSent /\ sent' = sent + 1

Result(m, n) ==
  /\ uses' = IF m = 0 THEN uses ELSE [uses EXCEPT ![m] = IF @ = 2 THEN 2 ELSE @ + 1]
  /\ answers' = IF n = 0 THEN answers ELSE [answers EXCEPT ![n] = IF @ = 2 THEN 2 ELSE @ + 1]
NoResult == UNCHANGED <<uses, answers>>

Opens(k, s) == sessions' = Saved(sessions, k, s) /\ posed' = posed + 1
Ends(k) == sessions' = Cleared(sessions, k) /\ UNCHANGED posed
NewRev(k) == sessions'[k].rev

(***************************************************************************)
(* The intake                                                              *)
(***************************************************************************)

OpenIntake ==
  /\ Moves /\ Opens("intake", Asking("awaiting", 0)) /\ ShowsNothing /\ NoResult
  /\ UNCHANGED <<desk, drafts, sent, handling, albums, finalizing, aims, confirmed>>

CancelIntake ==
  /\ Moves /\ Alive("intake") /\ Ends("intake") /\ ShowsNothing /\ NoResult
  /\ UNCHANGED <<desk, drafts, sent, handling, albums, finalizing, aims, confirmed>>

Captured(step, m) == [Asking(step, 0) EXCEPT !.about = {<<"sent", m>>}]

\* createPostFromMessage: the captured material becomes a draft with a card.
MakesPost(ss, m, at) ==
  /\ drafts < DraftLimit /\ drafts' = drafts + 1
  /\ sessions' = Cleared(Cleared(ss, "intake"), "post") /\ UNCHANGED posed
  /\ Result(m, sessions["intake"].q) /\ ShowsCard(at, drafts + 1)

Reviews(ss, m, at) ==
  /\ sessions' = Saved(ss, "intake", Captured("article_review", m)) /\ posed' = posed + 1
  /\ Shows("review", at, 0, 0, {<<"sent", m>>}, FALSE) /\ NoResult /\ UNCHANGED drafts

\* handleIntakeMessage: what was sent is captured, and then read as a post or an
\* article, or the operator is asked.
SendMaterial ==
  /\ desk = "post" /\ Arrives /\ sessions["intake"].step = "awaiting"
  /\ LET m == sent + 1
         captured == Saved(sessions, "intake", Captured("choose", m))
     IN \/ MakesPost(captured, m, 0)
        \/ Reviews(captured, m, 0)
        \/ /\ Opens("intake", Captured("choose", m))
           /\ Shows("kind", 0, 0, 0, {<<"sent", m>>}, FALSE) /\ NoResult /\ UNCHANGED drafts
  /\ UNCHANGED <<desk, handling, albums, finalizing, aims, confirmed>>

\* intake_kind: the buttons name a kind and not the material.
TapKind(s) ==
  /\ s.is \in {"kind", "review"} /\ Moves /\ Alive("intake") /\ sessions["intake"].about # {}
  /\ LET m == The(sessions["intake"].about)
     IN MakesPost(sessions, m, s.at) \/ (s.is = "kind" /\ Reviews(sessions, m, s.at))
  /\ UNCHANGED <<desk, sent, handling, albums, finalizing, aims, confirmed>>

PublishReviewedArticle(s) ==
  /\ s.is = "review" /\ Moves /\ sessions["intake"].step = "article_review"
  /\ Result(The(sessions["intake"].about), sessions["intake"].q)
  /\ Ends("intake") /\ ShowsNothing
  /\ UNCHANGED <<desk, drafts, sent, handling, albums, finalizing, aims, confirmed>>

(***************************************************************************)
(* Posts                                                                   *)
(***************************************************************************)

\* edit_ru, edit_en and thread_edit on the card; thread_add, which any message
\* may carry.
TapEdit(s, step) ==
  /\ desk = "post" /\ Moves
  /\ \/ step = "edit_text" /\ s.is = "card" /\ FreshCard(s)
     \/ step = "thread_part" /\ s.is \in {"card", "more"}
  /\ Opens("post", Asking(step, s.draft))
  /\ Shows("prompt", s.at, s.draft, NewRev("post"), {}, FALSE) /\ NoResult
  /\ UNCHANGED <<desk, drafts, sent, handling, albums, finalizing, aims, confirmed>>

\* thread_done, and the buttons of the schedule, which commit the time they name.
TapLeaves(s) ==
  /\ desk = "post" /\ Moves /\ (s.is = "more" \/ (s.is = "card" /\ FreshCard(s) /\ Alive("post")))
  /\ Ends("post") /\ ShowsCard(s.at, s.draft) /\ NoResult
  /\ UNCHANGED <<desk, drafts, sent, handling, albums, finalizing, aims, confirmed>>

TapManualTime(s) ==
  /\ desk = "post" /\ Moves /\ s.is = "card" /\ FreshCard(s)
  /\ sessions' = Saved(Cleared(sessions, "post"), "post", Asking("schedule_manual", s.draft))
  /\ posed' = posed + 1
  /\ Shows("prompt", s.at, s.draft, NewRev("post"), {}, FALSE) /\ NoResult
  /\ UNCHANGED <<desk, drafts, sent, handling, albums, finalizing, aims, confirmed>>

\* acceptManualPostSchedule.
TypeTime(v) ==
  /\ desk = "post" /\ Moves /\ sessions["post"].step = "schedule_manual"
  /\ LET d == sessions["post"].draft
     IN /\ Opens("post", [Asking("schedule_confirm", d) EXCEPT !.about = {<<"post", v>>}])
        /\ Shows("schedule_confirm", 0, d, NewRev("post"), {<<"post", v>>}, TRUE)
  /\ NoResult /\ UNCHANGED <<desk, drafts, sent, handling, albums, finalizing, aims, confirmed>>

\* handlePostMessage: an answer to an open question; its media is imported first.
SendAnswer ==
  /\ desk = "post" /\ Arrives
  /\ LET s == sessions["post"]
     IN /\ s.step \in EditSteps
        /\ handling' = [m |-> sent + 1, step |-> s.step, draft |-> s.draft, rev |-> s.rev, q |-> s.q]
  /\ ShowsNothing /\ NoResult
  /\ UNCHANGED <<desk, sessions, posed, drafts, albums, finalizing, aims, confirmed>>

\* applyAdminState: the question must still be open; answering it ends it.
AnswerLands ==
  /\ handling # NoAnswer /\ (finalizing = 0 \/ "overlap" \in DeskFaults)
  /\ handling' = NoAnswer
  /\ IF CurrentRevision(handling, "post")
     THEN /\ Result(handling.m, handling.q)
          /\ sessions' = Cleared(Saved(sessions, "post", [sessions["post"] EXCEPT !.step = "completed"]), "post")
          /\ IF handling.step = "edit_text" THEN ShowsCard(0, handling.draft)
             ELSE Shows("more", 0, handling.draft, 0, {}, FALSE)
     ELSE NoResult /\ ShowsNothing /\ UNCHANGED sessions
  /\ UNCHANGED <<desk, posed, drafts, sent, albums, finalizing, aims, confirmed, moves>>

(***************************************************************************)
(* Albums                                                                  *)
(***************************************************************************)

\* The messages of an album become a row that remembers the question open then;
\* an intake that waits for material steps aside.
SendAlbum ==
  /\ desk = "post" /\ Arrives
  /\ LET s == sessions["post"]
     IN albums' = [albums EXCEPT ![sent + 1] =
          [st |-> "settled", step |-> s.step, draft |-> s.draft, rev |-> IF Alive("post") THEN s.rev ELSE 0,
           q |-> s.q, tries |-> 0]]
  /\ sessions' = IF sessions["intake"].step = "awaiting" THEN Cleared(sessions, "intake") ELSE sessions
  /\ ShowsNothing /\ NoResult
  /\ UNCHANGED <<desk, posed, drafts, handling, finalizing, aims, confirmed>>

\* A claim counts as an attempt; the last one, and an album whose dialog is gone,
\* end the row.
ClaimAlbum(m) ==
  /\ finalizing = 0 /\ albums[m].st = "settled"
  /\ IF albums[m].tries = AlbumTries \/ StaleAlbum(albums[m])
     THEN albums' = [albums EXCEPT ![m] = NoAlbum] /\ UNCHANGED finalizing
     ELSE /\ albums' = [albums EXCEPT ![m].st = "claimed", ![m].tries = @ + 1]
          /\ finalizing' = m
  /\ UNCHANGED <<desk, sessions, screens, messages, card, drafts, sent, handling, posed, uses, answers,
                 aims, confirmed, moves>>

\* What an album that landed leaves of its row: a part that came meanwhile set it
\* back to settled, and then it is not deleted.
Remains(row) ==
  {NoAlbum} \cup (IF "late_part" \in DeskFaults THEN {[row EXCEPT !.st = "settled"]} ELSE {})
            \cup (IF "torn" \in DeskFaults THEN {row} ELSE {})

\* The album is the answer to its question, or a draft of its own.
AlbumLands ==
  /\ finalizing # 0 /\ finalizing' = 0
  /\ LET m == finalizing
         row == albums[m]
         open == row.step # "none" /\ Alive("post") /\ sessions["post"].rev = row.rev
     IN /\ sessions' = IF open THEN Cleared(sessions, "post") ELSE sessions
        /\ IF row.step \in EditSteps
           THEN /\ Result(m, row.q) /\ UNCHANGED drafts
                /\ IF row.step = "edit_text" THEN ShowsCard(0, row.draft)
                   ELSE Shows("more", 0, row.draft, 0, {}, FALSE)
           ELSE /\ drafts < DraftLimit /\ drafts' = drafts + 1
                /\ Result(m, 0) /\ ShowsCard(0, drafts + 1)
        /\ \E left \in Remains(row) : albums' = [albums EXCEPT ![m] = left]
  /\ UNCHANGED <<desk, sent, handling, posed, aims, confirmed, moves>>

ImportFails ==
  /\ finalizing # 0 /\ finalizing' = 0
  /\ albums' = [albums EXCEPT ![finalizing] = IF @.tries = AlbumTries THEN NoAlbum ELSE [@ EXCEPT !.st = "settled"]]
  /\ UNCHANGED <<desk, sessions, screens, messages, card, drafts, sent, handling, posed, uses, answers,
                 aims, confirmed, moves>>

\* Ten minutes after its process died a claim is taken up again.
RecoverClaim(m) ==
  /\ albums[m].st = "claimed" /\ finalizing # m
  /\ albums' = [albums EXCEPT ![m].st = "settled"]
  /\ UNCHANGED <<desk, sessions, screens, messages, card, drafts, sent, handling, finalizing, posed,
                 uses, answers, aims, confirmed, moves>>

\* The server goes down: an import under way is lost, the claim of an album is not.
DeskRestart ==
  /\ handling # NoAnswer \/ finalizing # 0
  /\ handling' = NoAnswer /\ finalizing' = 0
  /\ UNCHANGED <<desk, sessions, screens, messages, card, drafts, sent, albums, posed, uses, answers, aims,
                 confirmed, moves>>

(***************************************************************************)
(* Videos                                                                  *)
(***************************************************************************)

Video == sessions["video"]
VideoAt(step, d, sel) == [Asking(step, d) EXCEPT !.sel = sel]

\* VIDEO_FLOW: the step after, and the step before.
NextStep(s) ==
  CASE s.step = "script" -> IF "youtube" \in s.sel THEN "youtube" ELSE "reels"
    [] s.step = "youtube" /\ "reels" \in s.sel -> "reels"
    [] OTHER -> "schedule_choice"

\* The next question: its session is saved and its screen shown.  A screen about
\* the schedule is the draft's card.
Continues(ss, s, at) ==
  /\ sessions' = Saved(ss, "video", s) /\ posed' = posed + 1
  /\ ShowsOf(s.step, at, s.draft, NewRev("video"), s, s.step \in ScheduleSteps)

StartDraft(ss, sel, m, n, at) ==
  /\ drafts < DraftLimit /\ drafts' = drafts + 1 /\ aims' = [aims EXCEPT ![drafts + 1] = sel]
  /\ Result(m, n) /\ Continues(ss, VideoAt("script", drafts + 1, sel), at)

\* attachVideoAsset: a long clip is asked about first.
AttachVideo(ss, sel, m, n, at) ==
  \/ StartDraft(ss, sel, m, n, at)
  \/ /\ Continues(ss, [VideoAt("asset", 0, sel) EXCEPT !.about = {<<"sent", m>>}], at)
     /\ NoResult /\ UNCHANGED <<drafts, aims>>

EditAnswered(m) == /\ Result(m, Video.q) /\ Ends("video") /\ ShowsCard(0, Video.draft)
                   /\ UNCHANGED <<drafts, aims>>

\* A video for the intake, which asks where it goes; or the file the wizard or an
\* edit waits for.
SendVideo ==
  /\ desk = "video" /\ Arrives
  /\ LET m == sent + 1
         where == [Captured("video_locale", m) EXCEPT !.sel = VideoTargets]
     IN \/ /\ sessions["intake"].step = "awaiting"
           /\ sessions' = Saved(Saved(sessions, "intake", Captured("choose", m)), "intake", where)
           /\ posed' = posed + 1 /\ ShowsOf("where", 0, 0, 0, where, FALSE)
           /\ NoResult /\ UNCHANGED <<drafts, aims>>
        \/ Video.step = "asset" /\ ~Video.edit /\ AttachVideo(sessions, Video.sel, m, Video.q, 0)
        \/ Video.step = "asset" /\ Video.edit /\ EditAnswered(m)
  /\ UNCHANGED <<desk, handling, albums, finalizing, confirmed>>

\* toggleIntakeVideoTarget: one platform stays.
TapTarget(s, t) ==
  /\ s.is = "where" /\ Moves /\ sessions["intake"].step = "video_locale"
  /\ LET now == sessions["intake"].sel
         then == IF t \in now THEN now \ {t} ELSE now \cup {t}
     IN /\ then # {} /\ Opens("intake", [sessions["intake"] EXCEPT !.sel = then])
        /\ ShowsOf("where", s.at, 0, 0, [sessions["intake"] EXCEPT !.sel = then], FALSE)
  /\ NoResult /\ UNCHANGED <<desk, drafts, sent, handling, albums, finalizing, aims, confirmed>>

\* applyIntakeVideoLocale.
TapLocale(s) ==
  /\ s.is = "where" /\ Moves /\ sessions["intake"].step = "video_locale"
  /\ LET it == sessions["intake"]
     IN AttachVideo(Saved(Cleared(sessions, "intake"), "video", VideoAt("asset", 0, it.sel)),
                    it.sel, The(it.about), it.q, s.at)
  /\ UNCHANGED <<desk, sent, handling, albums, finalizing, confirmed>>

\* length_ok: the file that becomes the draft is the one the session names.
TapLengthOk(s) ==
  /\ s.is = "asset" /\ Moves /\ CurrentRevision(s, "video")
  /\ Video.step = "asset" /\ Video.about # {}
  /\ confirmed' = [shown |-> Subject(s), done |-> Subject(Video)]
  /\ StartDraft(sessions, Video.sel, The(Video.about), Video.q, s.at)
  /\ UNCHANGED <<desk, sent, handling, albums, finalizing>>

\* A text answers the wizard's question or an edit.
TypeText ==
  /\ desk = "video" /\ Moves /\ Video.step \in WizardSteps \cup {"label"}
  /\ IF Video.edit THEN EditAnswered(0)
     ELSE /\ Result(0, Video.q) /\ UNCHANGED <<drafts, aims>>
          /\ Continues(sessions, VideoAt(NextStep(Video), Video.draft, Video.sel), 0)
  /\ UNCHANGED <<desk, sent, handling, albums, finalizing, confirmed>>

\* script_skip, and game_skip within the step "youtube".
TapSkip(s) ==
  /\ s.is = "script" /\ Moves /\ CurrentRevision(s, "video") /\ Video.step = "script" /\ ~Video.edit
  /\ Result(0, Video.q)
  /\ Continues(sessions, VideoAt(NextStep(Video), Video.draft, Video.sel), 0)
  /\ UNCHANGED <<desk, drafts, sent, handling, albums, finalizing, aims, confirmed>>

TapMetaBack(s) ==
  /\ s.is = "reels" /\ Moves /\ CurrentRevision(s, "video")
  /\ Video.step = "reels" /\ "youtube" \in Video.sel
  /\ NoResult /\ Continues(sessions, VideoAt("youtube", Video.draft, Video.sel), s.at)
  /\ UNCHANGED <<desk, drafts, sent, handling, albums, finalizing, aims, confirmed>>

\* edit_field and edit_media.
TapEditVideo(s, step) ==
  /\ desk = "video" /\ s.is = "card" /\ Moves /\ FreshCard(s)
  /\ Opens("video", [VideoAt(step, s.draft, aims[s.draft]) EXCEPT !.edit = TRUE])
  /\ Shows("prompt", s.at, s.draft, NewRev("video"), {}, FALSE) /\ NoResult
  /\ UNCHANGED <<desk, drafts, sent, handling, albums, finalizing, aims, confirmed>>

\* schedule, from the card or as the way back of the confirmation; time, which
\* schedules one platform; publish, which asks whether to send it now.
TapSchedule(s) ==
  /\ desk = "video" /\ Moves /\ FreshCard(s) /\ NoResult
  /\ \/ /\ s.is = "card" \/ (s.is = "schedule_confirm" /\ s.about # {} /\ CurrentRevision(s, "video"))
        /\ Continues(sessions, VideoAt("schedule_choice", s.draft, aims[s.draft]), s.at)
     \/ /\ s.is = "card"
        /\ \E t \in aims[s.draft] : Continues(sessions, VideoAt("schedule_target", s.draft, {t}), s.at)
     \/ s.is = "card" /\ Continues(sessions, Asking("schedule_confirm", s.draft), s.at)
  /\ UNCHANGED <<desk, drafts, sent, handling, albums, finalizing, aims, confirmed>>

\* requireVideoSession, for a button of the screen that asks the step.
OnStep(s) == /\ s.is = Video.step /\ Video.draft = s.draft
             /\ CurrentRevision(s, "video") /\ FreshCard(s)

TapMode(s) ==
  /\ s.is = "schedule_choice" /\ Moves /\ OnStep(s) /\ NoResult
  /\ \E step \in {"schedule_common"} \cup (IF s.sel = VideoTargets THEN {"schedule_target"} ELSE {}) :
       Continues(sessions, VideoAt(step, s.draft, aims[s.draft]), s.at)
  /\ UNCHANGED <<desk, drafts, sent, handling, albums, finalizing, aims, confirmed>>

Waiting(s) == {t \in s.sel : \A v \in Clock : <<t, v>> \notin s.about}
Timed(s, v) ==
  IF s.step = "schedule_common" THEN [s EXCEPT !.about = s.sel \X {v}]
  ELSE [s EXCEPT !.about = @ \cup {<<IF "youtube" \in Waiting(s) THEN "youtube" ELSE "reels", v>>}]

\* applyVideoScheduleDate: one more platform has its time, or all have; the
\* confirmation comes below the previews.
TimeGiven(v, at) ==
  LET s == Timed(Video, v)
  IN IF Waiting(s) # {} THEN Continues(sessions, s, at)
     ELSE Continues(sessions, [s EXCEPT !.step = "schedule_confirm"], 0)

TapTime(s, v) ==
  /\ s.is \in {"schedule_common", "schedule_target"} /\ Moves /\ OnStep(s)
  /\ confirmed' = [shown |-> Subject(s), done |-> Subject(Video)]
  /\ Result(0, Video.q) /\ TimeGiven(v, s.at)
  /\ UNCHANGED <<desk, drafts, sent, handling, albums, finalizing, aims>>

TypeVideoTime(v) ==
  /\ desk = "video" /\ Moves /\ Video.step \in {"schedule_common", "schedule_target"}
  /\ Result(0, Video.q) /\ TimeGiven(v, 0)
  /\ UNCHANGED <<desk, drafts, sent, handling, albums, finalizing, aims, confirmed>>

\* cancel_confirm, which any reminder may carry.
TapCancelVideo(s) ==
  /\ desk = "video" /\ s.is = "card" /\ Moves /\ Alive("video")
  /\ Ends("video") /\ ShowsNothing /\ NoResult
  /\ UNCHANGED <<desk, drafts, sent, handling, albums, finalizing, aims, confirmed>>

(***************************************************************************)
(* Both                                                                    *)
(***************************************************************************)

\* sched_confirm and publish_confirm: what is committed is what the conversation
\* holds; to publish now names no time.
TapConfirm(s) ==
  /\ s.is = "schedule_confirm" /\ Moves /\ CurrentRevision(s, desk) /\ FreshCard(s)
  /\ sessions[desk].step = "schedule_confirm" /\ sessions[desk].draft = s.draft
  /\ s.about = {} \/ sessions[desk].about # {}
  /\ confirmed' = [shown |-> Subject(s), done |-> IF s.about = {} THEN Nothing ELSE Subject(sessions[desk])]
  /\ Result(0, sessions[desk].q) /\ Ends(desk)
  /\ ShowsCard(IF desk = "video" THEN 0 ELSE s.at, s.draft)
  /\ UNCHANGED <<desk, drafts, sent, handling, albums, finalizing, aims>>

\* A button that needs the card, on a message that no longer is: the card is
\* sent again.
TapStale(s) ==
  /\ s.is \in {"card"} \cup ScheduleSteps /\ Moves /\ ~FreshCard(s)
  /\ s.rev = 0 \/ CurrentRevision(s, desk)
  /\ ShowsCard(0, s.draft) /\ NoResult
  /\ UNCHANGED <<desk, sessions, posed, drafts, sent, handling, albums, finalizing, aims, confirmed>>

\* cancel_dialog: a video whose draft exists is left on its card.
TapCancelDialog(s) ==
  /\ s.rev # 0 /\ Moves /\ CurrentRevision(s, desk) /\ Ends(desk) /\ NoResult
  /\ IF desk = "video" /\ Video.draft # 0 THEN ShowsCard(s.at, Video.draft) ELSE ShowsNothing
  /\ UNCHANGED <<desk, drafts, sent, handling, albums, finalizing, aims, confirmed>>

\* Half an hour without a step.
Expires(k) ==
  /\ Alive(k) /\ moves < MaxMoves /\ moves' = moves + 1
  /\ Ends(k) /\ ShowsNothing /\ NoResult
  /\ UNCHANGED <<desk, drafts, sent, handling, albums, finalizing, aims, confirmed>>

Taps(s) ==
  \/ TapKind(s) \/ PublishReviewedArticle(s) \/ TapLeaves(s) \/ TapManualTime(s)
  \/ \E step \in EditSteps : TapEdit(s, step)
  \/ \E t \in VideoTargets : TapTarget(s, t)
  \/ TapLocale(s) \/ TapLengthOk(s) \/ TapSkip(s) \/ TapMetaBack(s)
  \/ \E step \in WizardSteps \cup {"label", "asset"} : TapEditVideo(s, step)
  \/ TapSchedule(s) \/ TapMode(s) \/ TapCancelVideo(s)
  \/ \E v \in Clock : TapTime(s, v)
  \/ TapConfirm(s) \/ TapStale(s) \/ TapCancelDialog(s)

DeskNext ==
  \/ OpenIntake \/ CancelIntake \/ SendMaterial \/ SendAnswer \/ AnswerLands \/ SendVideo \/ TypeText
  \/ \E v \in Clock : TypeTime(v) \/ TypeVideoTime(v)
  \/ \E s \in screens : Taps(s)
  \/ SendAlbum \/ AlbumLands \/ ImportFails \/ DeskRestart
  \/ \E m \in 1 .. MaxSent : ClaimAlbum(m) \/ RecoverClaim(m)
  \/ \E k \in ConversationKinds : Expires(k)

DeskSpec == DeskInit /\ [][DeskNext]_deskVars

(***************************************************************************)
(* Properties                                                              *)
(***************************************************************************)

\* One result for what the operator sent, and one answer to what he was asked:
\* an album and a text that both answer a question, a dialog replaced while an
\* album settles, a claim recovered, a button tapped twice (albums.ts,
\* post-input-actions.ts, conversation-sessions.ts).
TakenOnce == \A m \in 1 .. MaxSent : uses[m] < 2
AskedOnce == \A n \in Questions : answers[n] < 2
AnsweredOnce == TakenOnce /\ AskedOnce

\* A button does what its own screen said: the clip the question was about, "so
\* a second upload sent meanwhile cannot be adopted by a stale button"
\* (video-actions.ts:157), the platform whose time was asked, the times listed
\* for confirmation.
ConfirmedIsShown == confirmed.shown = confirmed.done

\* Both: a conversation takes what the operator meant, once.
DialogsHold == AnsweredOnce /\ ConfirmedIsShown
=============================================================================
