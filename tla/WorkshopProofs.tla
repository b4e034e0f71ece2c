---------------------------- MODULE WorkshopProofs ----------------------------
(***************************************************************************)
(* Theorems of Desk, for any number of moves, messages and drafts, and of  *)
(* the parts of the workshop side by side.                                 *)
(*                                                                         *)
(* Desk's answers are to questions that may be over; what makes each count *)
(* once is that a question in a session, in an import or in an album was   *)
(* never answered, and what was sent is in one place until it is used.     *)
(* DeskInv holds whatever the server does meanwhile (DeskFaults); each of  *)
(* its two halves says which faults it cannot stand (OneAtATime, RowsGo).  *)
(***************************************************************************)
EXTENDS MCWorkshop, OperationsProofs, DeliveryProofs

-----------------------------------------------------------------------------
-----------------------------------------------------------------------------
(* The conversation *)

\* A conversation's question carries its revision into the import of an answer and into
\* an album's row, and a button carries it from its screen: the invariant relates every
\* such copy to the conversation as it is now.

Closed(s) == s.step = "none" /\ s.about = {} /\ s.q = 0 /\ ~s.edit

\* One conversation is open at most; the question it asked was posed.
SessionKnown(s) == IF s.step = "none" THEN Closed(s) ELSE s.rev >= 1 /\ s.q >= 1 /\ s.q <= posed
OneOpen(ss) == \A j, k \in ConversationKinds : ss[j].step # "none" /\ ss[k].step # "none" => j = k
SessionsKnown == (\A k \in ConversationKinds : SessionKnown(sessions[k])) /\ OneOpen(sessions)

\* What a conversation is about: the thing sent, a draft, the desk it belongs to.
OneSent(matter) == \E m \in 1 .. MaxSent : matter = {<<"sent", m>>}
IntakeFits(s) == /\ s.about # {} \/ s.step \notin {"none", "awaiting"} => OneSent(s.about)
                 /\ desk = "post" => s.step # "video_locale"
PostFits(s) == s.step # "none" => s.draft >= 1
VideoFits(s) == /\ s.step = "asset" /\ s.about # {} => OneSent(s.about)
                /\ s.edit \/ s.step \notin {"none", "asset"} => s.draft >= 1
                /\ desk = "post" => s.step = "none"
Fits(k, s) == /\ s.step = "schedule_confirm" /\ s.about = {} => s.sel = {}
              /\ k = "intake" => IntakeFits(s)
              /\ k = "post" => PostFits(s)
              /\ k = "video" => VideoFits(s)
SessionsFit == \A k \in ConversationKinds : Fits(k, sessions[k])

\* What is still asked has no answer yet.
StillAsked(n) ==
  \/ n > posed \/ \E k \in ConversationKinds : sessions[k].step # "none" /\ sessions[k].q = n
  \/ finalizing # 0 /\ albums[finalizing].q = n
OpenQuestions == \A n \in Questions : answers[n] <= 1 /\ (StillAsked(n) => answers[n] = 0)

\* What each of the two may lean on: while an album is imported nothing else is done;
\* an album that landed leaves no row.
OneAtATime == "overlap" \notin DeskFaults
RowsGo == DeskFaults \cap {"late_part", "torn"} = {}

\* What was sent is in one place until it goes into a result.
Held(m, ss) == \E k \in ConversationKinds : <<"sent", m>> \in ss[k].about
Unsent(m) == uses[m] = 0 /\ albums[m].st = "none" /\ handling.m # m /\ ~Held(m, sessions)
NotSentYet == \A m \in 1 .. MaxSent : m > sent => Unsent(m)
Home(m) ==
  /\ uses[m] <= 1
  /\ Held(m, sessions) => uses[m] = 0 /\ albums[m].st = "none" /\ handling.m # m
  /\ albums[m].st # "none" => uses[m] = 0 /\ handling.m # m
  /\ handling.m = m => uses[m] = 0
SentHomes == \A m \in 1 .. MaxSent : Home(m)

\* An answer under way is to the question its revision names, if that is still open.
AnswerFits(a) ==
  /\ a.rev <= sessions["post"].rev /\ a.q <= posed
  /\ CurrentRevision(a, "post") => a.q = sessions["post"].q
  /\ \A k \in ConversationKinds : sessions[k].step # "none" /\ sessions[k].q = a.q =>
       k = "post" /\ sessions[k].rev = a.rev
  /\ a.rev = 0 => a.q = 0 /\ a.step = "none"
  /\ a.rev # 0 => a.step # "none" /\ a.draft >= 1
AnswersFit == /\ AnswerFits(handling) /\ \A m \in 1 .. MaxSent : AnswerFits(albums[m])
              /\ finalizing # 0 => albums[finalizing].st = "claimed"
              /\ \A m \in 1 .. MaxSent : albums[m].tries <= AlbumTries

\* A screen that asks to confirm something shows what the session of its revision holds.
ScreenFits(s) ==
  /\ s.is \in {"card", "more"} \cup ScheduleSteps => s.draft >= 1
  /\ s.is \in {"asset"} \cup ScheduleSteps =>
       s.rev <= sessions[desk].rev /\ (CurrentRevision(s, desk) => Subject(s) = Subject(sessions[desk]))
ScreensTyped == /\ screens \subseteq Screen /\ messages \in Nat /\ \A s \in screens : s.at \in 1 .. messages
                /\ card \in [1 .. DraftLimit -> 0 .. messages]
ScreensKnown == ScreensTyped /\ \A s \in screens : ScreenFits(s)

AnswerRow == [m: 0 .. MaxSent, step: ConversationSteps, draft: 0 .. DraftLimit, rev: Nat, q: Nat]
DeskTyped ==
  /\ desk \in {"post", "video"} /\ sessions \in [ConversationKinds -> Session]
  /\ drafts \in 1 .. DraftLimit /\ sent \in 0 .. MaxSent /\ moves \in 0 .. MaxMoves
  /\ handling \in AnswerRow /\ albums \in [1 .. MaxSent -> AlbumRow] /\ finalizing \in 0 .. MaxSent /\ posed \in Nat
  /\ uses \in [1 .. MaxSent -> 0 .. 2] /\ answers \in [Questions -> 0 .. 2]
  /\ aims \in [1 .. DraftLimit -> SUBSET VideoTargets]

DeskInv == /\ DeskTyped /\ SessionsKnown /\ SessionsFit /\ NotSentYet /\ AnswersFit
           /\ ScreensKnown /\ ConfirmedIsShown
           /\ (OneAtATime => OpenQuestions) /\ (RowsGo => SentHomes)

-----------------------------------------------------------------------------
\* What a step does to the conversations: each stays as it was, ends, or asks a question
\* of its own; one is open at most, and what it is about was sent, at the latest just now.
Told(m) == Held(m, sessions) \/ (m = sent + 1 /\ sent' = m)
Turned(s, t) == t.rev > s.rev /\ (Closed(t) \/ (t.step # "none" /\ t.q = posed + 1))
Talks(T) ==
  /\ T \in [ConversationKinds -> Session] /\ OneOpen(T)
  /\ \A k \in ConversationKinds : T[k] = sessions[k] \/ Turned(sessions[k], T[k])
  /\ \A k \in ConversationKinds : Fits(k, T[k])
  /\ \A m \in 1 .. MaxSent : Held(m, T) => Told(m)
Talk == /\ Talks(sessions') /\ posed' \in {posed, posed + 1}
        /\ \A k \in ConversationKinds : sessions'[k].q <= posed'

LEMMA TheSent == ASSUME NEW m \in 1 .. MaxSent PROVE The({<<"sent", m>>}) = m
<1>1. (CHOOSE p \in {<<"sent", m>>} : TRUE) = <<"sent", m>>
  OBVIOUS
<1> QED BY <1>1 DEF The

LEMMA Fields == ASSUME NEW s \in Session PROVE
  /\ s.step \in ConversationSteps /\ s.draft \in 0 .. DraftLimit /\ s.about \in SUBSET Matter
  /\ s.sel \in SUBSET VideoTargets /\ s.edit \in BOOLEAN /\ s.rev \in Nat /\ s.q \in Nat
BY DEF Session

LEMMA StepNames ==
  /\ "none" \in ConversationSteps /\ "awaiting" \in ConversationSteps /\ "choose" \in ConversationSteps
  /\ "article_review" \in ConversationSteps /\ "video_locale" \in ConversationSteps
  /\ "schedule_manual" \in ConversationSteps /\ "completed" \in ConversationSteps
  /\ "asset" \in ConversationSteps /\ "label" \in ConversationSteps /\ "script" \in ConversationSteps
  /\ EditSteps \subseteq ConversationSteps /\ WizardSteps \subseteq ConversationSteps
  /\ ScheduleSteps \subseteq ConversationSteps /\ ConversationSteps \subseteq ScreenKinds
  /\ "card" \in ScreenKinds /\ "kind" \in ScreenKinds /\ "review" \in ScreenKinds
  /\ "prompt" \in ScreenKinds /\ "more" \in ScreenKinds /\ "where" \in ScreenKinds
<1>1. EditSteps \subseteq ConversationSteps /\ WizardSteps \subseteq ConversationSteps
      /\ ScheduleSteps \subseteq ConversationSteps /\ ConversationSteps \subseteq ScreenKinds
  BY DEF ConversationSteps, ScreenKinds
<1>2. "script" \in WizardSteps
  BY DEF WizardSteps
<1> QED BY <1>1, <1>2 DEF ConversationSteps, ScreenKinds

LEMMA NoSessionIs ==
  /\ NoSession \in Session /\ NoSession.step = "none" /\ NoSession.draft = 0 /\ NoSession.about = {}
  /\ NoSession.sel = {} /\ NoSession.edit = FALSE /\ NoSession.rev = 0 /\ NoSession.q = 0
<1>1. 0 \in 0 .. DraftLimit
  BY DeskAssumption DEF DraftLimit
<1>3. NoSession \in Session
  BY <1>1, StepNames DEF NoSession, Session
<1> QED BY <1>3 DEF NoSession

LEMMA RetiredIs == ASSUME NEW s \in Session PROVE
  /\ Retired(s) \in Session
  /\ s.rev = 0 => Retired(s) = s
  /\ s.rev # 0 => Closed(Retired(s)) /\ Retired(s).rev = s.rev + 1
<1> DEFINE r == [NoSession EXCEPT !.rev = s.rev + 1]
<1>1. s.rev \in Nat
  BY Fields
<1>2. PICK z \in Session : /\ z = NoSession /\ z.step = "none" /\ z.about = {}
                           /\ z.q = 0 /\ z.edit = FALSE
  BY NoSessionIs
<1>3. r = [z EXCEPT !.rev = s.rev + 1] /\ s.rev + 1 \in Nat
  BY <1>1, <1>2
<1>4. r \in Session /\ r.rev = s.rev + 1 /\ Closed(r)
  BY <1>2, <1>3 DEF Session, Closed
<1>5. Retired(s) = IF s.rev = 0 THEN s ELSE r
  BY DEF Retired
<1> HIDE DEF r
<1> QED BY <1>4, <1>5

LEMMA FitsSame ==
  ASSUME NEW k, NEW a, NEW b, SameQuestion(a, b), Fits(k, b) PROVE Fits(k, a)
BY DEF SameQuestion, Fits, IntakeFits, PostFits, VideoFits

LEMMA FitsOver == ASSUME NEW k, NEW s, Closed(s) PROVE Fits(k, s)
<1>1. CASE s.sel = {}
  BY <1>1 DEF Closed, Fits, IntakeFits, PostFits, VideoFits
<1>2. CASE s.sel # {}
  BY <1>2 DEF Closed, Fits, IntakeFits, PostFits, VideoFits
<1> QED BY <1>1, <1>2

LEMMA TalksStart == ASSUME DeskInv PROVE Talks(sessions)
BY DEF DeskInv, DeskTyped, SessionsKnown, SessionsFit, Talks, Told

LEMMA UnansweredIsOver ==
  ASSUME DeskInv, NEW S, Talks(S), NEW k \in ConversationKinds, S[k].rev = 0 \/ S[k].step = "none"
  PROVE  Closed(S[k])
<1>1. sessions[k] \in Session /\ S[k] \in Session /\ SessionKnown(sessions[k])
  BY DEF DeskInv, DeskTyped, Talks, SessionsKnown
<1>2. CASE S[k] = sessions[k]
  BY <1>1, <1>2, Fields DEF SessionKnown
<1>3. CASE Turned(sessions[k], S[k])
  BY <1>1, <1>3, Fields DEF Turned
<1> QED BY <1>2, <1>3 DEF Talks

LEMMA RetiredTurns ==
  ASSUME DeskInv, NEW S, Talks(S), NEW k \in ConversationKinds
  PROVE  LET t == Retired(S[k])
         IN /\ t \in Session /\ Closed(t)
            /\ t = sessions[k] \/ Turned(sessions[k], t)
            /\ S[k].rev # 0 => t.rev > S[k].rev
<1>1. sessions[k] \in Session /\ S[k] \in Session
  BY DEF DeskInv, DeskTyped, Talks
<1>2. S[k] = sessions[k] \/ Turned(sessions[k], S[k])
  BY DEF Talks
<1>3. CASE S[k].rev = 0
  <2>1. Closed(S[k]) /\ Retired(S[k]) = S[k]
    BY <1>1, <1>3, UnansweredIsOver, RetiredIs
  <2> QED BY <1>1, <1>2, <1>3, <2>1
<1>4. CASE S[k].rev # 0
  <2>1. Closed(Retired(S[k])) /\ Retired(S[k]).rev = S[k].rev + 1 /\ Retired(S[k]) \in Session
    BY <1>1, <1>4, RetiredIs
  <2>2. S[k].rev \in Nat /\ sessions[k].rev \in Nat /\ S[k].rev >= sessions[k].rev
    BY <1>1, <1>2, Fields DEF Turned
  <2>3. Turned(sessions[k], Retired(S[k]))
    BY <2>1, <2>2 DEF Turned
  <2> QED BY <2>1, <2>2, <2>3
<1> QED BY <1>3, <1>4

\* Ending a conversation leaves the others, and nothing of it.
LEMMA TalksCleared ==
  ASSUME DeskInv, NEW S, Talks(S), NEW k \in ConversationKinds
  PROVE  LET T == Cleared(S, k)
         IN /\ Talks(T) /\ Closed(T[k])
            /\ \A j \in ConversationKinds \ {k} : T[j] = S[j]
<1> DEFINE T == Cleared(S, k)
<1>1. S \in [ConversationKinds -> Session] /\ OneOpen(S)
  BY DEF Talks
<1>2. /\ T[k] \in Session /\ Closed(T[k])
      /\ T[k] = sessions[k] \/ Turned(sessions[k], T[k])
  BY <1>1, RetiredTurns DEF Cleared
<1>3. \A j \in ConversationKinds \ {k} : T[j] = S[j]
  BY <1>1 DEF Cleared
<1>4. T \in [ConversationKinds -> Session]
  BY <1>1, <1>2 DEF Cleared
<1> HIDE DEF T
<1>5. OneOpen(T)
  BY <1>1, <1>2, <1>3 DEF OneOpen, Closed
<1>6. \A j \in ConversationKinds : T[j] = sessions[j] \/ Turned(sessions[j], T[j])
  BY <1>2, <1>3 DEF Talks
<1>7. \A j \in ConversationKinds : Fits(j, T[j])
  BY <1>2, <1>3, FitsOver DEF Talks
<1>8. \A m \in 1 .. MaxSent : Held(m, T) => Told(m)
  <2>1. \A m \in 1 .. MaxSent : Held(m, T) => Held(m, S)
    BY <1>2, <1>3 DEF Held, Closed
  <2> QED BY <2>1 DEF Talks
<1>9. Talks(T)
  BY <1>4, <1>5, <1>6, <1>7, <1>8 DEF Talks
<1> QED BY <1>2, <1>3, <1>9 DEF T

\* Asking a question ends every other conversation.
LEMMA TalksSaved ==
  ASSUME DeskInv, NEW S, Talks(S), NEW k \in ConversationKinds, NEW s \in Session, s.step # "none",
         Fits(k, s), \A m \in 1 .. MaxSent : <<"sent", m>> \in s.about => Told(m)
  PROVE  LET T == Saved(S, k, s)
         IN /\ Talks(T) /\ SameQuestion(T[k], s)
            /\ \A j \in ConversationKinds \ {k} : Closed(T[j])
<1> DEFINE T == Saved(S, k, s)
           new == [s EXCEPT !.rev = S[k].rev + 1, !.q = posed + 1]
<1>1. S \in [ConversationKinds -> Session] /\ sessions[k] \in Session /\ posed \in Nat
  BY DEF Talks, DeskInv, DeskTyped
<1>2. \A j \in ConversationKinds \ {k} :
        T[j] \in Session /\ Closed(T[j]) /\ (T[j] = sessions[j] \/ Turned(sessions[j], T[j]))
  BY <1>1, RetiredTurns DEF Saved
<1>3. T[k] = IF SameQuestion(S[k], s) THEN S[k] ELSE new
  BY DEF Saved
<1>4. /\ T[k] \in Session /\ SameQuestion(T[k], s)
      /\ T[k] = sessions[k] \/ Turned(sessions[k], T[k])
  <2>1. CASE SameQuestion(S[k], s)
    BY <1>1, <1>3, <2>1 DEF Talks
  <2>2. CASE ~SameQuestion(S[k], s)
    <3>1. T[k] = new
      BY <1>3, <2>2
    <3>2. S[k].rev \in Nat /\ sessions[k].rev \in Nat /\ S[k].rev >= sessions[k].rev
      BY <1>1, Fields DEF Talks, Turned
    <3>3. /\ new \in Session /\ new.step = s.step /\ new.draft = s.draft /\ new.about = s.about
          /\ new.sel = s.sel /\ new.edit = s.edit /\ new.rev = S[k].rev + 1 /\ new.q = posed + 1
      <4>1. posed + 1 \in Nat /\ S[k].rev + 1 \in Nat
        BY <1>1, <3>2
      <4>2. [s EXCEPT !.rev = S[k].rev + 1] \in Session
        BY <4>1 DEF Session
      <4>3. PICK h \in Session : h = [s EXCEPT !.rev = S[k].rev + 1]
        BY <4>2
      <4>4. new = [h EXCEPT !.q = posed + 1]
        BY <4>3
      <4>5. new \in Session
        BY <4>1, <4>4 DEF Session
      <4>6. h.step = s.step /\ h.draft = s.draft /\ h.about = s.about /\ h.sel = s.sel /\ h.edit = s.edit
            /\ h.rev = S[k].rev + 1
        BY <4>3 DEF Session
      <4>7. new.step = h.step /\ new.draft = h.draft /\ new.about = h.about /\ new.sel = h.sel /\ new.edit = h.edit
            /\ new.rev = h.rev /\ new.q = posed + 1
        BY <4>4 DEF Session
      <4> HIDE DEF new
      <4> QED BY <4>5, <4>6, <4>7
    <3> HIDE DEF new
    <3>4. SameQuestion(new, s) /\ Turned(sessions[k], new)
      BY <3>2, <3>3 DEF SameQuestion, Turned
    <3> QED BY <3>1, <3>3, <3>4
  <2> QED BY <2>1, <2>2
<1>5. DOMAIN T = ConversationKinds /\ T = [j \in ConversationKinds |-> T[j]]
  BY DEF Saved
<1> HIDE DEF T
<1>6. T \in [ConversationKinds -> Session]
  BY <1>2, <1>4, <1>5
<1>7. OneOpen(T)
  BY <1>2 DEF OneOpen, Closed
<1>8. \A j \in ConversationKinds : T[j] = sessions[j] \/ Turned(sessions[j], T[j])
  BY <1>2, <1>4
<1>9. \A j \in ConversationKinds : Fits(j, T[j])
  BY <1>2, <1>4, FitsOver, FitsSame
<1>10. \A m \in 1 .. MaxSent : Held(m, T) => Told(m)
  BY <1>2, <1>4 DEF Held, Closed, SameQuestion
<1>11. Talks(T)
  BY <1>6, <1>7, <1>8, <1>9, <1>10 DEF Talks
<1> QED BY <1>2, <1>4, <1>11 DEF T

LEMMA TalkOpens ==
  ASSUME DeskInv, Talks(sessions'), posed' = posed + 1 PROVE Talk
<1>1. \A k \in ConversationKinds : sessions'[k].q <= posed + 1
  <2> TAKE k \in ConversationKinds
  <2>1. posed \in Nat /\ SessionKnown(sessions[k]) /\ sessions[k].q \in Nat
    BY Fields DEF DeskInv, DeskTyped, SessionsKnown
  <2>2. sessions[k].q <= posed
    BY <2>1 DEF SessionKnown, Closed
  <2>3. sessions'[k] = sessions[k] \/ sessions'[k].q = 0 \/ sessions'[k].q = posed + 1
    BY DEF Talks, Turned, Closed
  <2> QED BY <2>1, <2>2, <2>3
<1> QED BY <1>1 DEF Talk

LEMMA TalkEnds ==
  ASSUME DeskInv, Talks(sessions'), posed' = posed,
         \A k \in ConversationKinds : sessions'[k] = sessions[k] \/ Closed(sessions'[k])
  PROVE  Talk
<1>1. \A k \in ConversationKinds : sessions'[k].q <= posed
  <2> TAKE k \in ConversationKinds
  <2>1. posed \in Nat /\ SessionKnown(sessions[k]) /\ sessions[k].q \in Nat
    BY Fields DEF DeskInv, DeskTyped, SessionsKnown
  <2> QED BY <2>1 DEF SessionKnown, Closed
<1> QED BY <1>1 DEF Talk

LEMMA TalkKeeps ==
  ASSUME DeskInv, Talk, desk' = desk PROVE SessionsKnown' /\ SessionsFit'
<1>1. /\ sessions' \in [ConversationKinds -> Session] /\ OneOpen(sessions')
      /\ posed \in Nat /\ posed' \in Nat
  BY DEF Talk, Talks, DeskInv, DeskTyped
<1>2. ASSUME NEW k \in ConversationKinds PROVE SessionKnown(sessions[k])'
  <2>1. SessionKnown(sessions[k]) /\ sessions[k] \in Session
    BY DEF DeskInv, DeskTyped, SessionsKnown
  <2>2. sessions'[k] = sessions[k] \/ Turned(sessions[k], sessions'[k])
    BY DEF Talk, Talks
  <2>3. sessions'[k].q <= posed' /\ sessions'[k] \in Session
    BY <1>1 DEF Talk
  <2>4. CASE sessions'[k] = sessions[k]
    BY <2>1, <2>3, <2>4 DEF SessionKnown, Closed
  <2>5. CASE Turned(sessions[k], sessions'[k])
    BY <1>1, <2>1, <2>3, <2>5, Fields DEF SessionKnown, Closed, Turned
  <2> QED BY <2>2, <2>4, <2>5
<1>3. SessionsKnown'
  BY <1>1, <1>2 DEF SessionsKnown, OneOpen
<1>4. SessionsFit'
  BY DEF Talk, Talks, SessionsFit, Fits, IntakeFits, PostFits, VideoFits
<1> QED BY <1>3, <1>4

\* What was under way stays an answer to its question, or to none that is open.
LEMMA AnswerStays ==
  ASSUME DeskInv, Talk, NEW a, a.rev \in Nat, a.q \in Nat, AnswerFits(a)
  PROVE  AnswerFits(a)'
<1>1. "post" \in ConversationKinds
  BY DEF ConversationKinds
<1>2. \A k \in ConversationKinds : sessions[k] \in Session /\ sessions'[k] \in Session
  BY DEF DeskInv, DeskTyped, Talk, Talks
<1>3. \A k \in ConversationKinds : sessions[k].rev \in Nat /\ sessions'[k].rev \in Nat
  BY <1>2, Fields
<1>4. posed \in Nat /\ posed' \in Nat /\ posed <= posed' /\ a.q <= posed
  BY DEF DeskInv, DeskTyped, Talk, AnswerFits
<1>5. \A k \in ConversationKinds : sessions'[k] = sessions[k] \/ Turned(sessions[k], sessions'[k])
  BY DEF Talk, Talks
<1>6. a.rev <= sessions'["post"].rev
  BY <1>1, <1>3, <1>5 DEF AnswerFits, Turned
<1>7. CurrentRevision(a, "post")' => a.q = sessions'["post"].q
  <2> SUFFICES ASSUME CurrentRevision(a, "post")' PROVE a.q = sessions'["post"].q
    OBVIOUS
  <2>1. sessions'["post"] = sessions["post"]
    BY <1>1, <1>3, <1>5 DEF AnswerFits, Turned, CurrentRevision
  <2> QED BY <2>1 DEF AnswerFits, CurrentRevision, Alive
<1>8. \A k \in ConversationKinds : sessions'[k].step # "none" /\ sessions'[k].q = a.q =>
        k = "post" /\ sessions'[k].rev = a.rev
  <2> SUFFICES ASSUME NEW k \in ConversationKinds, sessions'[k].step # "none", sessions'[k].q = a.q
               PROVE  k = "post" /\ sessions'[k].rev = a.rev
    OBVIOUS
  <2>1. sessions'[k] = sessions[k]
    BY <1>4, <1>5 DEF Turned, Closed
  <2> QED BY <2>1 DEF AnswerFits
<1>9. a.q <= posed'
  BY <1>4
<1> QED BY <1>6, <1>7, <1>8, <1>9 DEF AnswerFits

LEMMA ScreenStays ==
  ASSUME DeskInv, Talk, desk' = desk, NEW s \in Screen, ScreenFits(s)
  PROVE  ScreenFits(s)'
<1>1. desk \in ConversationKinds
  BY DEF DeskInv, DeskTyped, ConversationKinds
<1>2. sessions[desk] \in Session /\ sessions'[desk] \in Session
  BY <1>1 DEF DeskInv, DeskTyped, Talk, Talks
<1>3. sessions[desk].rev \in Nat /\ sessions'[desk].rev \in Nat /\ s.rev \in Nat
  BY <1>2, Fields DEF Screen
<1>4. sessions'[desk] = sessions[desk] \/ sessions'[desk].rev > sessions[desk].rev
  BY <1>1 DEF Talk, Talks, Turned
<1>5. s.is \in {"asset"} \cup ScheduleSteps =>
        s.rev <= sessions'[desk].rev
        /\ (CurrentRevision(s, desk)' => Subject(s) = Subject(sessions'[desk]))
  BY <1>3, <1>4 DEF ScreenFits, CurrentRevision, Alive
<1> QED BY <1>5 DEF ScreenFits

-----------------------------------------------------------------------------
\* What a step shows.

LEMMA ScreenShown ==
  ASSUME DeskInv, Talk, desk' = desk,
         NEW is \in ScreenKinds, NEW at \in 0 .. messages, NEW d \in 0 .. DraftLimit, NEW rev \in Nat,
         NEW subject, subject.about \in SUBSET Matter, subject.sel \in SUBSET VideoTargets,
         NEW binds \in BOOLEAN, ShowsOf(is, at, d, rev, subject, binds),
         is \in {"card", "more"} \cup ScheduleSteps => d >= 1,
         is \in {"asset"} \cup ScheduleSteps =>
           rev = sessions'[desk].rev /\ Subject(sessions'[desk]) = [about |-> subject.about, sel |-> subject.sel]
  PROVE  ScreensKnown'
<1>1. /\ screens \subseteq Screen /\ messages \in Nat /\ \A s \in screens : s.at \in 1 .. messages
      /\ card \in [1 .. DraftLimit -> 0 .. messages] /\ \A s \in screens : ScreenFits(s)
  BY DEF DeskInv, ScreensKnown, ScreensTyped
<1>2. /\ messages' \in Nat /\ messages <= messages' /\ Place(at) \in 1 .. messages'
  BY <1>1 DEF ShowsOf, Place
<1>3. PICK one : one = [is |-> is, at |-> Place(at), draft |-> d, rev |-> rev,
                        about |-> subject.about, sel |-> subject.sel]
  OBVIOUS
<1>4. screens' = screens \cup {one} /\ one \in Screen
  BY <1>1, <1>2, <1>3 DEF ShowsOf, Screen
<1>5. one.is = is /\ one.at = Place(at) /\ one.draft = d /\ one.rev = rev
      /\ Subject(one) = [about |-> subject.about, sel |-> subject.sel]
  BY <1>3 DEF Subject
<1>6. \A s \in screens' : s \in Screen /\ s.at \in 1 .. messages'
  <2> TAKE s \in screens'
  <2>1. CASE s = one
    BY <2>1, <1>2, <1>4, <1>5
  <2>2. CASE s \in screens
    <3>1. s \in Screen /\ s.at \in 1 .. messages
      BY <2>2, <1>1
    <3> QED BY <3>1, <1>1, <1>2
  <2> QED BY <1>4, <2>1, <2>2
<1>7. card' \in [1 .. DraftLimit -> 0 .. messages']
  <2>1. card \in [1 .. DraftLimit -> 0 .. messages']
    BY <1>1, <1>2
  <2>2. Place(at) \in 0 .. messages'
    BY <1>2
  <2> QED BY <2>1, <2>2 DEF ShowsOf
<1>8. desk \in ConversationKinds
  BY DEF DeskInv, DeskTyped, ConversationKinds
<1>9. sessions'[desk].rev \in Nat
  BY <1>8, Fields DEF Talk, Talks
<1>10. ScreenFits(one)'
  <2>1. one.is \in {"card", "more"} \cup ScheduleSteps => one.draft >= 1
    BY <1>5
  <2>2. one.is \in {"asset"} \cup ScheduleSteps =>
          one.rev <= sessions'[desk'].rev
          /\ (CurrentRevision(one, desk)' => Subject(one) = Subject(sessions'[desk']))
    BY <1>5, <1>9
  <2> QED BY <2>1, <2>2 DEF ScreenFits
<1>11. \A s \in screens' : ScreenFits(s)'
  <2>1. \A s \in screens : ScreenFits(s)'
    BY <1>1, ScreenStays
  <2>2. \A s \in {one} : ScreenFits(s)'
    BY <1>10
  <2> QED BY <1>4, <2>1, <2>2
<1> QED BY <1>2, <1>6, <1>7, <1>11 DEF ScreensKnown, ScreensTyped

\* A screen that is neither about the schedule nor about a long clip.
LEMMA ShownOther ==
  ASSUME DeskInv, Talk, desk' = desk,
         NEW is \in ScreenKinds, NEW at \in 0 .. messages, NEW d \in 0 .. DraftLimit, NEW rev \in Nat,
         NEW matter \in SUBSET Matter, NEW binds \in BOOLEAN, Shows(is, at, d, rev, matter, binds),
         is \notin {"asset"} \cup ScheduleSteps, is \in {"card", "more"} => d >= 1
  PROVE  ScreensKnown'
<1> DEFINE subject == [about |-> matter, sel |-> {}]
<1>1. subject.about = matter /\ subject.sel = {} /\ ShowsOf(is, at, d, rev, subject, binds)
  BY DEF Shows
<1> HIDE DEF subject
<1>2. subject.about \in SUBSET Matter /\ subject.sel \in SUBSET VideoTargets
  BY <1>1
<1> QED BY <1>1, <1>2, ScreenShown

LEMMA ShownCard ==
  ASSUME DeskInv, Talk, desk' = desk, NEW at \in 0 .. messages, NEW d \in 1 .. DraftLimit, ShowsCard(at, d)
  PROVE  ScreensKnown'
<1>1. "card" \notin {"asset"} \cup ScheduleSteps /\ d \in 0 .. DraftLimit /\ d >= 1
      /\ {} \in SUBSET Matter /\ 0 \in Nat /\ TRUE \in BOOLEAN
  BY DEF ScheduleSteps
<1>2. Shows("card", at, d, 0, {}, TRUE)
  BY DEF ShowsCard
<1> QED BY <1>1, <1>2, StepNames, ShownOther

LEMMA NothingShown ==
  ASSUME DeskInv, Talk, desk' = desk, ShowsNothing
  PROVE  ScreensKnown'
<1>1. \A s \in screens : s \in Screen /\ ScreenFits(s)
  BY DEF DeskInv, ScreensKnown, ScreensTyped
<1>2. \A s \in screens : ScreenFits(s)'
  BY <1>1, ScreenStays
<1> QED BY <1>2 DEF ShowsNothing, DeskInv, ScreensKnown, ScreensTyped

-----------------------------------------------------------------------------
\* What a step that asks, answers or ends something may do: a result takes what was in
\* one place and leaves it in none, and answers a question that is asked no more.

NowAnswered(n) == OneAtATime =>
  /\ finalizing' = 0 /\ n <= posed /\ StillAsked(n)
  /\ \A k \in ConversationKinds : sessions'[k].step # "none" => sessions'[k].q # n
Gone(m) == uses[m] = 0 /\ ~Held(m, sessions') /\ albums'[m].st = "none" /\ handling'.m # m
JustSent(m) == m <= sent' /\ (RowsGo => Gone(m))
AlbumStays(x) == \/ albums'[x] = albums[x] \/ albums'[x] = NoAlbum
                 \/ albums[x].st # "none" /\ albums'[x] = [albums[x] EXCEPT !.st = "settled"]
Counts == /\ drafts' \in 1 .. DraftLimit /\ sent' \in {sent, sent + 1} /\ sent' \in 0 .. MaxSent
          /\ moves' \in 0 .. MaxMoves /\ aims' \in [1 .. DraftLimit -> SUBSET VideoTargets]
Fair(m, n) ==
  /\ desk' = desk /\ Counts
  /\ handling' \in {handling, NoAnswer} /\ finalizing' \in {finalizing, 0}
  /\ albums' \in [1 .. MaxSent -> AlbumRow] /\ \A x \in 1 .. MaxSent : AlbumStays(x)
  /\ finalizing' # 0 => albums'[finalizing'] = albums[finalizing']
  /\ Talk /\ ScreensKnown' /\ ConfirmedIsShown'
  /\ Result(m, n)
  /\ m \in 0 .. MaxSent /\ (m # 0 => JustSent(m))
  /\ n \in Nat /\ (n # 0 => NowAnswered(n))

LEMMA AlbumFields == ASSUME NEW a \in AlbumRow PROVE
  /\ a.st \in {"none", "settled", "claimed"} /\ a.step \in ConversationSteps /\ a.draft \in 0 .. DraftLimit
  /\ a.rev \in Nat /\ a.q \in Nat /\ a.tries \in 0 .. AlbumTries + 1
BY DEF AlbumRow

LEMMA AnswerFields == ASSUME NEW a \in AnswerRow PROVE
  /\ a.m \in 0 .. MaxSent /\ a.step \in ConversationSteps /\ a.draft \in 0 .. DraftLimit /\ a.rev \in Nat /\ a.q \in Nat
BY DEF AnswerRow

\* The row that a step settles again is the row it was.
LEMMA SettledAgain == ASSUME NEW a \in AlbumRow, NEW b, b = [a EXCEPT !.st = "settled"] PROVE
  b.step = a.step /\ b.draft = a.draft /\ b.rev = a.rev /\ b.q = a.q /\ b.st = "settled" /\ b \in AlbumRow
  /\ b.tries = a.tries
BY DEF AlbumRow

LEMMA NoAnswerFits ==
  ASSUME DeskInv, NEW a, a.rev = 0, a.q = 0, a.step = "none" PROVE AnswerFits(a)
<1>1. \A k \in ConversationKinds : SessionKnown(sessions[k]) /\ sessions[k].rev \in Nat /\ sessions[k].q \in Nat
  BY Fields DEF DeskInv, DeskTyped, SessionsKnown
<1>2. "post" \in ConversationKinds /\ posed \in Nat
  BY DEF ConversationKinds, DeskInv, DeskTyped
<1> QED BY <1>1, <1>2 DEF AnswerFits, CurrentRevision, Alive, SessionKnown

LEMMA ResultTyped ==
  ASSUME DeskInv, NEW m, NEW n, Result(m, n)
  PROVE  uses' \in [1 .. MaxSent -> 0 .. 2] /\ answers' \in [Questions -> 0 .. 2]
<1>1. uses \in [1 .. MaxSent -> 0 .. 2] /\ answers \in [Questions -> 0 .. 2]
  BY DEF DeskInv, DeskTyped
<1>2. uses' \in [1 .. MaxSent -> 0 .. 2]
  <2>1. (IF uses[m] = 2 THEN 2 ELSE uses[m] + 1) \in 0 .. 2 \/ m \notin 1 .. MaxSent
    BY <1>1
  <2>2. [uses EXCEPT ![m] = IF uses[m] = 2 THEN 2 ELSE uses[m] + 1] \in [1 .. MaxSent -> 0 .. 2]
    BY <1>1, <2>1
  <2> QED BY <1>1, <2>2 DEF Result
<1>3. answers' \in [Questions -> 0 .. 2]
  <2>1. (IF answers[n] = 2 THEN 2 ELSE answers[n] + 1) \in 0 .. 2 \/ n \notin Questions
    BY <1>1
  <2>2. [answers EXCEPT ![n] = IF answers[n] = 2 THEN 2 ELSE answers[n] + 1] \in [Questions -> 0 .. 2]
    BY <1>1, <2>1
  <2> QED BY <1>1, <2>2 DEF Result
<1> QED BY <1>2, <1>3

LEMMA ResultIs ==
  ASSUME DeskInv, NEW m \in 0 .. MaxSent, NEW n \in Nat, Result(m, n)
  PROVE  /\ \A x \in 1 .. MaxSent : uses'[x] = IF x = m THEN (IF uses[x] = 2 THEN 2 ELSE uses[x] + 1) ELSE uses[x]
         /\ \A x \in Questions :
              answers'[x] = IF x = n THEN (IF answers[x] = 2 THEN 2 ELSE answers[x] + 1) ELSE answers[x]
<1>1. uses \in [1 .. MaxSent -> 0 .. 2] /\ answers \in [Questions -> 0 .. 2]
  BY DEF DeskInv, DeskTyped
<1>2. Questions \subseteq Nat \ {0}
  BY DeskAssumption DEF Questions
<1> QED BY <1>1, <1>2 DEF Result

\* What was asked before the step.
LEMMA StillAskedBefore ==
  ASSUME DeskInv, Talk, NEW n \in Questions, finalizing' \in {finalizing, 0},
         finalizing' # 0 => albums'[finalizing'] = albums[finalizing'], StillAsked(n)'
  PROVE  StillAsked(n)
<1>1. n \in Nat /\ posed \in Nat /\ posed' \in {posed, posed + 1}
  BY DeskAssumption DEF Questions, Talk, DeskInv, DeskTyped
<1>2. CASE n > posed'
  BY <1>1, <1>2 DEF StillAsked
<1>3. CASE \E k \in ConversationKinds : sessions'[k].step # "none" /\ sessions'[k].q = n
  <2>1. PICK k \in ConversationKinds : sessions'[k].step # "none" /\ sessions'[k].q = n
    BY <1>3
  <2>2. sessions'[k] = sessions[k] \/ n = posed + 1
    BY <2>1 DEF Talk, Talks, Turned, Closed
  <2> QED BY <1>1, <2>1, <2>2 DEF StillAsked
<1>4. CASE finalizing' # 0 /\ albums'[finalizing'].q = n
  BY <1>4 DEF StillAsked
<1> QED BY <1>2, <1>3, <1>4 DEF StillAsked

LEMMA FairAnswers == ASSUME DeskInv, OneAtATime, NEW m, NEW n, Fair(m, n) PROVE OpenQuestions'
<1>1. /\ Talk /\ finalizing' \in {finalizing, 0} /\ (finalizing' # 0 => albums'[finalizing'] = albums[finalizing'])
      /\ Result(m, n) /\ m \in 0 .. MaxSent /\ n \in Nat /\ (n # 0 => NowAnswered(n)) /\ posed' \in {posed, posed + 1}
  BY DEF Fair, Talk
<1>2. answers \in [Questions -> 0 .. 2] /\ posed \in Nat
  BY DEF DeskInv, DeskTyped
<1>3. ASSUME NEW x \in Questions PROVE answers'[x] <= 1 /\ (StillAsked(x)' => answers'[x] = 0)
  <2>1. answers'[x] = IF x = n THEN (IF answers[x] = 2 THEN 2 ELSE answers[x] + 1) ELSE answers[x]
    BY <1>1, ResultIs
  <2>2. answers[x] <= 1 /\ (StillAsked(x) => answers[x] = 0) /\ answers[x] \in 0 .. 2
    BY <1>2 DEF DeskInv, OpenQuestions
  <2>3. StillAsked(x)' => StillAsked(x)
    BY <1>1, StillAskedBefore
  <2>4. CASE x # n
    BY <2>1, <2>2, <2>3, <2>4
  <2>5. CASE x = n
    <3>1. x \in Nat /\ x # 0
      BY DeskAssumption DEF Questions
    <3>2. NowAnswered(x)
      BY <1>1, <2>5, <3>1
    <3>3. ~StillAsked(x)'
      BY <1>1, <1>2, <3>1, <3>2 DEF NowAnswered, StillAsked
    <3>4. answers[x] = 0
      BY <2>2, <3>2 DEF NowAnswered
    <3> QED BY <2>1, <2>5, <3>3, <3>4
  <2> QED BY <2>4, <2>5
<1> QED BY <1>3 DEF OpenQuestions

LEMMA FairUnsent == ASSUME DeskInv, NEW m, NEW n, Fair(m, n) PROVE NotSentYet'
<1>1. /\ Talk /\ Result(m, n) /\ m \in 0 .. MaxSent /\ n \in Nat /\ (m # 0 => m <= sent')
      /\ sent' \in {sent, sent + 1} /\ handling' \in {handling, NoAnswer}
      /\ \A x \in 1 .. MaxSent : AlbumStays(x)
  BY DEF Fair, Counts, JustSent
<1>2. sent \in Nat /\ MaxSent \in Nat
  BY DeskAssumption DEF DeskInv, DeskTyped
<1>3. ASSUME NEW x \in 1 .. MaxSent, x > sent' PROVE Unsent(x)'
  <2>1. x > sent /\ x # m /\ ~(x = sent + 1 /\ sent' = x)
    BY <1>1, <1>2, <1>3
  <2>2. Unsent(x)
    BY <2>1 DEF DeskInv, NotSentYet
  <2>3. uses'[x] = uses[x]
    BY <1>1, <2>1, ResultIs
  <2>4. albums'[x].st = "none"
    <3>1. AlbumStays(x) /\ albums[x].st = "none" /\ NoAlbum.st = "none"
      BY <1>1, <2>2 DEF Unsent, NoAlbum
    <3> QED BY <3>1 DEF AlbumStays
  <2>5. handling'.m # x
    BY <1>1, <2>2 DEF NoAnswer, Unsent
  <2>6. ~Held(x, sessions')
    BY <1>1, <2>1, <2>2 DEF Talk, Talks, Told, Unsent
  <2>7. Held(x, sessions)' <=> Held(x, sessions')
    BY DEF Held
  <2> QED BY <2>2, <2>3, <2>4, <2>5, <2>6, <2>7 DEF Unsent
<1> QED BY <1>3 DEF NotSentYet

LEMMA FairHomes == ASSUME DeskInv, RowsGo, NEW m, NEW n, Fair(m, n) PROVE SentHomes'
<1>1. /\ Talk /\ Result(m, n) /\ m \in 0 .. MaxSent /\ n \in Nat /\ (m # 0 => Gone(m))
      /\ sent' \in {sent, sent + 1} /\ handling' \in {handling, NoAnswer}
      /\ \A x \in 1 .. MaxSent : AlbumStays(x)
  BY DEF Fair, Counts, JustSent
<1>2. uses \in [1 .. MaxSent -> 0 .. 2] /\ sent \in 0 .. MaxSent /\ albums \in [1 .. MaxSent -> AlbumRow]
  BY DEF DeskInv, DeskTyped
<1>3. ASSUME NEW x \in 1 .. MaxSent PROVE Home(x)'
  <2>1. Home(x) /\ uses[x] \in 0 .. 2 /\ albums[x] \in AlbumRow
    BY <1>2 DEF DeskInv, SentHomes
  <2>2. uses'[x] = IF x = m THEN (IF uses[x] = 2 THEN 2 ELSE uses[x] + 1) ELSE uses[x]
    BY <1>1, ResultIs
  <2>3. handling'.m = x => handling.m = x
    BY <1>1 DEF NoAnswer
  <2>4. albums'[x].st # "none" => albums[x].st # "none"
    <3>1. NoAlbum.st = "none"
      BY DEF NoAlbum
    <3> QED BY <1>1, <2>1, <3>1 DEF AlbumStays
  <2>5. Held(x, sessions') => Held(x, sessions) \/ x = sent + 1
    BY <1>1 DEF Talk, Talks, Told
  <2>6. CASE x = m
    <3>1. x # 0 /\ Gone(x)
      BY <1>1, <2>6
    <3>2. uses'[x] = 1 /\ ~Held(x, sessions)' /\ albums'[x].st = "none" /\ handling'.m # x
      BY <1>1, <1>2, <2>2, <2>6, <3>1 DEF Gone, Held
    <3> QED BY <3>2 DEF Home
  <2>7. CASE x # m
    <3>1. uses'[x] = uses[x]
      BY <2>2, <2>7
    <3>2. Held(x, sessions)' <=> Held(x, sessions')
      BY DEF Held
    <3>3. x = sent + 1 => Unsent(x)
      BY <1>2 DEF DeskInv, NotSentYet
    <3>4. Held(x, sessions)' => uses[x] = 0 /\ albums[x].st = "none" /\ handling.m # x
      BY <2>1, <2>5, <3>2, <3>3 DEF Home, Unsent
    <3> HIDE DEF Held
    <3> QED BY <2>1, <2>3, <2>4, <3>1, <3>4 DEF Home
  <2> QED BY <2>6, <2>7
<1> QED BY <1>3 DEF SentHomes

LEMMA FairFits == ASSUME DeskInv, NEW m, NEW n, Fair(m, n) PROVE AnswersFit'
<1>1. /\ Talk /\ handling' \in {handling, NoAnswer} /\ \A x \in 1 .. MaxSent : AlbumStays(x)
      /\ finalizing' \in {finalizing, 0} /\ (finalizing' # 0 => albums'[finalizing'] = albums[finalizing'])
  BY DEF Fair
<1>2. handling \in AnswerRow /\ albums \in [1 .. MaxSent -> AlbumRow]
  BY DEF DeskInv, DeskTyped
<1>3. ASSUME NEW a, a.rev \in Nat, a.q \in Nat, AnswerFits(a) PROVE AnswerFits(a)'
  BY <1>1, <1>3, AnswerStays
<1>4. AnswerFits(handling)'
  <2>1. PICK h : h = handling'
    OBVIOUS
  <2>2. h.rev \in Nat /\ h.q \in Nat /\ AnswerFits(h)
    <3>1. CASE h = handling
      BY <3>1, <1>2, AnswerFields DEF DeskInv, AnswersFit
    <3>2. CASE h = NoAnswer
      <4>1. h.rev = 0 /\ h.q = 0 /\ h.step = "none"
        BY <3>2 DEF NoAnswer
      <4> QED BY <4>1, NoAnswerFits
    <3> QED BY <1>1, <2>1, <3>1, <3>2
  <2>3. AnswerFits(h)'
    BY <1>3, <2>2
  <2> QED BY <2>1, <2>3 DEF AnswerFits, CurrentRevision
<1>5. ASSUME NEW x \in 1 .. MaxSent PROVE AnswerFits(albums[x])'
  <2>1. PICK h : h = albums'[x]
    OBVIOUS
  <2>2. PICK a \in AlbumRow : a = albums[x]
    BY <1>2
  <2>3. h.rev \in Nat /\ h.q \in Nat /\ AnswerFits(h)
    <3>1. AnswerFits(a) /\ a.rev \in Nat /\ a.q \in Nat
      BY <2>2, AlbumFields DEF DeskInv, AnswersFit
    <3>2. CASE h = a
      BY <3>1, <3>2
    <3>3. CASE h = NoAlbum
      <4>1. h.rev = 0 /\ h.q = 0 /\ h.step = "none"
        BY <3>3 DEF NoAlbum
      <4> QED BY <4>1, NoAnswerFits
    <3>4. CASE h = [a EXCEPT !.st = "settled"]
      <4>1. h.rev = a.rev /\ h.q = a.q /\ h.step = a.step /\ h.draft = a.draft
        BY <3>4, SettledAgain
      <4> QED BY <3>1, <4>1 DEF AnswerFits, CurrentRevision
    <3> QED BY <1>1, <2>1, <2>2, <3>2, <3>3, <3>4 DEF AlbumStays
  <2>4. AnswerFits(h)'
    BY <1>3, <2>3
  <2> QED BY <2>1, <2>4 DEF AnswerFits, CurrentRevision
<1>6. finalizing' # 0 => albums'[finalizing'].st = "claimed"
  BY <1>1 DEF DeskInv, AnswersFit
<1>7. ASSUME NEW x \in 1 .. MaxSent PROVE albums'[x].tries <= AlbumTries
  <2>1. PICK a \in AlbumRow : a = albums[x]
    BY <1>2
  <2>2. a.tries <= AlbumTries /\ AlbumStays(x)
    BY <1>1, <2>1 DEF DeskInv, AnswersFit
  <2> QED BY <2>1, <2>2, SettledAgain, DeskAssumption DEF AlbumStays, NoAlbum
<1> QED BY <1>4, <1>5, <1>6, <1>7 DEF AnswersFit

LEMMA FairKeeps == ASSUME DeskInv, NEW m, NEW n, Fair(m, n) PROVE DeskInv'
<1>1. DeskTyped'
  <2>1. uses' \in [1 .. MaxSent -> 0 .. 2] /\ answers' \in [Questions -> 0 .. 2]
    BY ResultTyped DEF Fair
  <2>2. handling' \in AnswerRow
    <3>1. NoAnswer \in AnswerRow
      <4>1. 0 \in 0 .. MaxSent /\ 0 \in 0 .. DraftLimit
        BY DeskAssumption DEF DraftLimit
      <4> QED BY <4>1, StepNames DEF NoAnswer, AnswerRow
    <3> QED BY <3>1 DEF Fair, DeskInv, DeskTyped
  <2>3. sessions' \in [ConversationKinds -> Session] /\ posed' \in Nat /\ finalizing' \in 0 .. MaxSent
    BY DeskAssumption DEF Fair, Talk, Talks, DeskInv, DeskTyped
  <2> QED BY <2>1, <2>2, <2>3 DEF Fair, Counts, DeskInv, DeskTyped
<1>2. SessionsKnown' /\ SessionsFit'
  BY TalkKeeps DEF Fair
<1>3. (OneAtATime => OpenQuestions') /\ (RowsGo => SentHomes') /\ NotSentYet' /\ AnswersFit'
  BY FairAnswers, FairHomes, FairUnsent, FairFits
<1> QED BY <1>1, <1>2, <1>3 DEF DeskInv, Fair, OneAtATime, RowsGo

-----------------------------------------------------------------------------
\* What every action finds.

LEMMA SessionIs == ASSUME DeskInv, NEW k \in ConversationKinds PROVE
  /\ sessions[k] \in Session /\ Fits(k, sessions[k]) /\ SessionKnown(sessions[k])
  /\ sessions[k].step \in ConversationSteps /\ sessions[k].draft \in 0 .. DraftLimit
  /\ sessions[k].about \in SUBSET Matter /\ sessions[k].sel \in SUBSET VideoTargets
  /\ sessions[k].rev \in Nat /\ sessions[k].q \in Nat
BY Fields DEF DeskInv, DeskTyped, SessionsKnown, SessionsFit

LEMMA ScreenIs == ASSUME DeskInv, NEW s \in screens PROVE
  /\ messages \in Nat /\ s.at \in 0 .. messages /\ s.draft \in 0 .. DraftLimit /\ s.rev \in Nat /\ ScreenFits(s)
  /\ s.is \in {"card", "more"} \cup ScheduleSteps => s.draft \in 1 .. DraftLimit
<1>1. /\ messages \in Nat /\ s.at \in 1 .. messages /\ s \in Screen /\ ScreenFits(s)
  BY DEF DeskInv, ScreensKnown, ScreensTyped
<1>2. s.draft \in 0 .. DraftLimit /\ s.rev \in Nat
  BY <1>1 DEF Screen
<1>3. DraftLimit \in Nat
  BY DeskAssumption DEF DraftLimit
<1> QED BY <1>1, <1>2, <1>3 DEF ScreenFits

LEMMA KindNames == "intake" \in ConversationKinds /\ "post" \in ConversationKinds /\ "video" \in ConversationKinds
BY DEF ConversationKinds

\* While one conversation is open the others are over.
LEMMA OthersOver ==
  ASSUME DeskInv, NEW k \in ConversationKinds, sessions[k].step # "none"
  PROVE  \A j \in ConversationKinds \ {k} : Closed(sessions[j])
BY SessionIs DEF DeskInv, SessionsKnown, OneOpen, SessionKnown

LEMMA NoneHeld ==
  ASSUME NEW T, \A k \in ConversationKinds : Closed(T[k]), NEW m PROVE ~Held(m, T)
BY DEF Held, Closed

LEMMA AskedOf ==
  ASSUME DeskInv, Talk, OneAtATime => finalizing' = 0, NEW k \in ConversationKinds, sessions[k].step # "none",
         sessions'[k] # sessions[k]
  PROVE  sessions[k].q \in Nat /\ NowAnswered(sessions[k].q)
<1>1. sessions[k].q \in Nat /\ posed \in Nat /\ sessions[k].q <= posed
  BY SessionIs DEF DeskInv, DeskTyped, SessionKnown
<1>2. ASSUME NEW j \in ConversationKinds, sessions'[j].step # "none" PROVE sessions'[j].q # sessions[k].q
  <2>1. CASE sessions'[j] = sessions[j]
    <3>1. j = k
      BY <1>2, <2>1 DEF DeskInv, SessionsKnown, OneOpen
    <3> QED BY <2>1, <3>1
  <2>2. CASE Turned(sessions[j], sessions'[j])
    BY <1>1, <1>2, <2>2 DEF Turned, Closed
  <2> QED BY <2>1, <2>2 DEF Talk, Talks
<1> QED BY <1>1, <1>2 DEF NowAnswered, StillAsked

LEMMA FreshSent ==
  ASSUME DeskInv, sent < MaxSent, sent' = sent + 1, handling' = handling, albums' = albums,
         ~Held(sent + 1, sessions')
  PROVE  sent + 1 \in 1 .. MaxSent /\ JustSent(sent + 1)
<1>1. sent \in 0 .. MaxSent /\ MaxSent \in Nat /\ sent + 1 \in 1 .. MaxSent
  BY DeskAssumption DEF DeskInv, DeskTyped
<1>2. Unsent(sent + 1)
  BY <1>1 DEF DeskInv, NotSentYet
<1> QED BY <1>1, <1>2 DEF JustSent, Gone, Unsent

LEMMA FreshHeld ==
  ASSUME DeskInv, NEW m \in 1 .. MaxSent, Held(m, sessions), sent' \in {sent, sent + 1},
         handling' = handling, albums' = albums, ~Held(m, sessions')
  PROVE  JustSent(m)
<1>1. sent \in 0 .. MaxSent /\ (RowsGo => Home(m)) /\ (m > sent => Unsent(m))
  BY DeskAssumption DEF DeskInv, DeskTyped, SentHomes, NotSentYet
<1>2. m <= sent
  BY <1>1 DEF Unsent
<1> QED BY <1>1, <1>2 DEF JustSent, Gone, Home

LEMMA MovesIs == ASSUME DeskInv, Moves PROVE
  handling = NoAnswer /\ (OneAtATime => finalizing = 0) /\ moves' \in 0 .. MaxMoves
BY DeskAssumption DEF DeskInv, DeskTyped, Moves, Ready, OneAtATime

\* The operator's moves: updates wait for each other, so no answer is under way.
Still == desk' = desk /\ handling' = handling /\ albums' = albums /\ finalizing' = finalizing

LEMMA MoveKeeps ==
  ASSUME DeskInv, Moves, Still, Talk, ScreensKnown', ConfirmedIsShown',
         drafts' \in 1 .. DraftLimit, sent' \in {sent, sent + 1}, sent' \in 0 .. MaxSent,
         aims' \in [1 .. DraftLimit -> SUBSET VideoTargets],
         NEW m \in 0 .. MaxSent, m # 0 => JustSent(m),
         NEW n \in Nat, n # 0 => NowAnswered(n), Result(m, n)
  PROVE  DeskInv'
<1>1. moves' \in 0 .. MaxMoves
  BY MovesIs
<1>2. albums' \in [1 .. MaxSent -> AlbumRow] /\ \A x \in 1 .. MaxSent : AlbumStays(x)
  BY DEF Still, DeskInv, DeskTyped, AlbumStays
<1>3. Fair(m, n)
  BY <1>1, <1>2 DEF Still, Fair, Counts
<1> QED BY <1>3, FairKeeps

LEMMA CountsSame == ASSUME DeskInv PROVE
  /\ drafts \in 1 .. DraftLimit /\ sent \in {sent, sent + 1} /\ sent \in 0 .. MaxSent
  /\ aims \in [1 .. DraftLimit -> SUBSET VideoTargets] /\ ConfirmedIsShown /\ MaxSent \in Nat /\ DraftLimit \in Nat
BY DeskAssumption DEF DeskInv, DeskTyped, DraftLimit

\* A move without a result.
LEMMA TalkMoveKeeps ==
  ASSUME DeskInv, Moves, Still, Talk, ScreensKnown', NoResult, UNCHANGED <<drafts, sent, aims, confirmed>>
  PROVE  DeskInv'
<1>1. ConfirmedIsShown'
  BY DEF DeskInv, ConfirmedIsShown
<1>2. Result(0, 0)
  BY DEF Result, NoResult
<1>3. 0 \in 0 .. MaxSent
  BY CountsSame
<1> QED BY <1>1, <1>2, <1>3, CountsSame, MoveKeeps

\* A move that answers the question a conversation asked.
LEMMA AnswerMoveKeeps ==
  ASSUME DeskInv, Moves, Still, Talk, ScreensKnown', ConfirmedIsShown', UNCHANGED <<drafts, sent, aims>>,
         NEW k \in ConversationKinds, sessions[k].step # "none", sessions'[k] # sessions[k],
         Result(0, sessions[k].q)
  PROVE  DeskInv'
<1>1. OneAtATime => finalizing' = 0
  BY MovesIs DEF Still
<1>2. PICK n \in Nat : n = sessions[k].q
  BY SessionIs
<1>3. NowAnswered(n)
  BY <1>1, <1>2, AskedOf
<1>4. 0 \in 0 .. MaxSent /\ Result(0, n)
  BY <1>2, CountsSame
<1> QED BY <1>3, <1>4, CountsSame, MoveKeeps

\* The questions.
Poses(s, step, d, matter, sel) ==
  s \in Session /\ s.step = step /\ s.draft = d /\ s.about = matter /\ s.sel = sel /\ s.edit = FALSE

LEMMA AskingIs ==
  ASSUME NEW step \in ConversationSteps, NEW d \in 0 .. DraftLimit
  PROVE  Poses(Asking(step, d), step, d, {}, {})
BY DEF Poses, Asking, NoSession, Session

LEMMA VideoAtIs ==
  ASSUME NEW step \in ConversationSteps, NEW d \in 0 .. DraftLimit, NEW sel \in SUBSET VideoTargets
  PROVE  Poses(VideoAt(step, d, sel), step, d, {}, sel)
BY DEF Poses, VideoAt, Asking, NoSession, Session

LEMMA SentMatter == ASSUME NEW m \in 1 .. MaxSent PROVE {<<"sent", m>>} \in SUBSET Matter
BY DEF Matter

LEMMA CapturedIs ==
  ASSUME NEW step \in ConversationSteps, NEW m \in 1 .. MaxSent
  PROVE  Poses(Captured(step, m), step, 0, {<<"sent", m>>}, {})
<1>1. 0 \in 0 .. DraftLimit
  BY DeskAssumption DEF DraftLimit
<1> QED BY <1>1, SentMatter DEF Poses, Captured, Asking, NoSession, Session

LEMMA OpensTalks ==
  ASSUME DeskInv, NEW k \in ConversationKinds, NEW s \in Session, s.step # "none", Fits(k, s),
         \A m \in 1 .. MaxSent : <<"sent", m>> \in s.about => Told(m), Opens(k, s)
  PROVE  /\ Talk /\ SameQuestion(sessions'[k], s)
         /\ \A j \in ConversationKinds \ {k} : Closed(sessions'[j])
<1>1. Talks(sessions)
  BY TalksStart
<1>2. sessions' = Saved(sessions, k, s) /\ posed' = posed + 1
  BY DEF Opens
<1>3. /\ Talks(sessions') /\ SameQuestion(sessions'[k], s)
      /\ \A j \in ConversationKinds \ {k} : Closed(sessions'[j])
  BY <1>1, <1>2, TalksSaved
<1> QED BY <1>2, <1>3, TalkOpens

LEMMA EndsTalks ==
  ASSUME DeskInv, NEW k \in ConversationKinds, Ends(k)
  PROVE  /\ Talk /\ Closed(sessions'[k])
         /\ \A j \in ConversationKinds \ {k} : sessions'[j] = sessions[j]
<1>1. Talks(sessions)
  BY TalksStart
<1>2. sessions' = Cleared(sessions, k) /\ posed' = posed
  BY DEF Ends
<1>3. /\ Talks(sessions') /\ Closed(sessions'[k])
      /\ \A j \in ConversationKinds \ {k} : sessions'[j] = sessions[j]
  BY <1>1, <1>2, TalksCleared
<1>4. \A j \in ConversationKinds : sessions'[j] = sessions[j] \/ Closed(sessions'[j])
  BY <1>3
<1> QED BY <1>2, <1>3, <1>4, TalkEnds

LEMMA StaysTalk == ASSUME DeskInv, UNCHANGED <<sessions, posed>> PROVE Talk
<1>1. Talks(sessions')
  BY TalksStart
<1> QED BY <1>1, TalkEnds

\* Where everything is over, nothing sent is held.
LEMMA EndsAll ==
  ASSUME DeskInv, NEW k \in ConversationKinds, sessions[k].step # "none", Ends(k), NEW m
  PROVE  ~Held(m, sessions')
<1>1. \A j \in ConversationKinds : Closed(sessions'[j])
  BY EndsTalks, OthersOver
<1> QED BY <1>1, NoneHeld

-----------------------------------------------------------------------------
\* The intake and posts.

LEMMA OpenIntakeKeeps == ASSUME DeskInv, OpenIntake PROVE DeskInv'
<1>1. PICK s \in Session : s = Asking("awaiting", 0) /\ s.step = "awaiting" /\ s.about = {} /\ s.sel = {}
  <2>1. 0 \in 0 .. DraftLimit
    BY CountsSame
  <2>2. /\ Asking("awaiting", 0) \in Session /\ Asking("awaiting", 0).step = "awaiting"
        /\ Asking("awaiting", 0).about = {} /\ Asking("awaiting", 0).sel = {}
    <3>1. "awaiting" \in ConversationSteps
      BY StepNames
    <3>2. Poses(Asking("awaiting", 0), "awaiting", 0, {}, {})
      BY <2>1, <3>1, AskingIs
    <3> QED BY <3>2 DEF Poses
  <2> QED BY <2>2
<1>2. Fits("intake", s)
  BY <1>1 DEF Fits, IntakeFits
<1>3. Opens("intake", s) /\ Moves /\ Still
  BY <1>1 DEF OpenIntake, Still
<1>4. Talk
  BY <1>1, <1>2, <1>3, KindNames, OpensTalks
<1>5. ScreensKnown'
  BY <1>4, NothingShown DEF OpenIntake
<1> QED BY <1>3, <1>4, <1>5, TalkMoveKeeps DEF OpenIntake

LEMMA CancelIntakeKeeps == ASSUME DeskInv, CancelIntake PROVE DeskInv'
<1>1. Moves /\ Still /\ Ends("intake")
  BY DEF CancelIntake, Still
<1>2. Talk
  BY <1>1, KindNames, EndsTalks
<1>3. ScreensKnown'
  BY <1>2, NothingShown DEF CancelIntake
<1> QED BY <1>1, <1>2, <1>3, TalkMoveKeeps DEF CancelIntake

\* What the intake captured becomes a draft: every conversation is over.
LEMMA MakesPostKeeps ==
  ASSUME DeskInv, Moves, Still, UNCHANGED <<aims, confirmed>>, sent' \in {sent, sent + 1}, sent' \in 0 .. MaxSent,
         Alive("intake"), NEW S, Talks(S), \A j \in ConversationKinds \ {"intake"} : Closed(S[j]),
         NEW m \in 1 .. MaxSent, Held(m, sessions) \/ (m = sent + 1 /\ sent' = m),
         NEW at \in 0 .. messages, MakesPost(S, m, at)
  PROVE  DeskInv'
<1>1. PICK T : T = Cleared(S, "intake")
  OBVIOUS
<1>2. Talks(T) /\ Closed(T["intake"]) /\ \A j \in ConversationKinds \ {"intake"} : T[j] = S[j]
  BY <1>1, KindNames, TalksCleared
<1>3. sessions' = Cleared(T, "post") /\ posed' = posed
  BY <1>1 DEF MakesPost
<1>4. /\ Talks(sessions') /\ Closed(sessions'["post"])
      /\ \A j \in ConversationKinds \ {"post"} : sessions'[j] = T[j]
  BY <1>2, <1>3, KindNames, TalksCleared
<1>5. \A j \in ConversationKinds : Closed(sessions'[j])
  BY <1>2, <1>4
<1>6. Talk
  BY <1>3, <1>4, <1>5, TalkEnds
<1>7. ~Held(m, sessions')
  BY <1>5, NoneHeld
<1>8. JustSent(m)
  <2>1. CASE Held(m, sessions)
    BY <1>7, <2>1, FreshHeld DEF Still
  <2>2. CASE m = sent + 1 /\ sent' = m
    <3>1. sent < MaxSent
      BY <2>2, CountsSame
    <3> QED BY <1>7, <2>2, <3>1, FreshSent DEF Still
  <2> QED BY <2>1, <2>2
<1>9. drafts + 1 \in 1 .. DraftLimit /\ drafts' = drafts + 1
  BY CountsSame DEF MakesPost
<1>10. ScreensKnown'
  BY <1>6, <1>9, ShownCard DEF MakesPost, Still
<1>11. PICK n \in Nat : n = sessions["intake"].q
  BY KindNames, SessionIs
<1>12. NowAnswered(n)
  <2>1. sessions'["intake"] # sessions["intake"]
    BY <1>5, KindNames DEF Closed, Alive
  <2>2. OneAtATime => finalizing' = 0
    BY MovesIs DEF Still
  <2> QED BY <1>6, <1>11, <2>1, <2>2, KindNames, AskedOf DEF Alive
<1>13. Result(m, n) /\ m \in 0 .. MaxSent
  BY <1>11 DEF MakesPost
<1>14. ConfirmedIsShown'
  BY DEF DeskInv, ConfirmedIsShown
<1> QED BY <1>6, <1>8, <1>9, <1>10, <1>12, <1>13, <1>14, CountsSame, MoveKeeps

LEMMA ReviewsKeeps ==
  ASSUME DeskInv, Moves, Still, UNCHANGED <<aims, confirmed>>, sent' \in {sent, sent + 1}, sent' \in 0 .. MaxSent,
         NEW S, Talks(S), NEW m \in 1 .. MaxSent, Told(m), NEW at \in 0 .. messages, Reviews(S, m, at)
  PROVE  DeskInv'
<1>1. PICK s \in Session : /\ s = Captured("article_review", m)
                           /\ s.step = "article_review" /\ s.about = {<<"sent", m>>} /\ s.sel = {}
  <2>1. "article_review" \in ConversationSteps
    BY StepNames
  <2>2. Poses(Captured("article_review", m), "article_review", 0, {<<"sent", m>>}, {})
    BY <2>1, CapturedIs
  <2> QED BY <2>2 DEF Poses
<1>2. Fits("intake", s)
  BY <1>1 DEF Fits, IntakeFits, OneSent
<1>3. sessions' = Saved(S, "intake", s) /\ posed' = posed + 1
  BY <1>1 DEF Reviews
<1>4. \A x \in 1 .. MaxSent : <<"sent", x>> \in s.about => Told(x)
  BY <1>1
<1>5. Talks(sessions')
  BY <1>1, <1>2, <1>3, <1>4, KindNames, TalksSaved
<1>6. Talk
  BY <1>3, <1>5, TalkOpens
<1>7. ScreensKnown'
  <2>1. /\ "review" \notin {"asset"} \cup ScheduleSteps /\ "review" \notin {"card", "more"}
        /\ {<<"sent", m>>} \in SUBSET Matter /\ 0 \in Nat /\ FALSE \in BOOLEAN /\ 0 \in 0 .. DraftLimit
    BY SentMatter, CountsSame DEF ScheduleSteps
  <2>2. Shows("review", at, 0, 0, {<<"sent", m>>}, FALSE)
    BY DEF Reviews
  <2> QED BY <1>6, <2>1, <2>2, StepNames, ShownOther DEF Still
<1>8. ConfirmedIsShown'
  BY DEF DeskInv, ConfirmedIsShown
<1>9. Result(0, 0) /\ 0 \in 0 .. MaxSent /\ drafts' = drafts
  BY CountsSame DEF Reviews, NoResult, Result
<1> QED BY <1>6, <1>7, <1>8, <1>9, CountsSame, MoveKeeps

LEMMA ArrivesIs == ASSUME DeskInv, Arrives PROVE
  /\ Moves /\ sent < MaxSent /\ sent' = sent + 1 /\ sent + 1 \in 1 .. MaxSent /\ sent' \in 0 .. MaxSent
  /\ Told(sent + 1) /\ messages \in Nat /\ 0 \in 0 .. messages
<1>1. messages \in Nat
  BY DEF DeskInv, ScreensKnown, ScreensTyped
<1> QED BY <1>1, CountsSame DEF Arrives, Told

LEMMA SendMaterialKeeps == ASSUME DeskInv, SendMaterial PROVE DeskInv'
<1>1. Arrives /\ Still /\ UNCHANGED <<aims, confirmed>> /\ sessions["intake"].step = "awaiting" /\ desk = "post"
  BY DEF SendMaterial, Still
<1>2. PICK m : m = sent + 1
  OBVIOUS
<1>3. /\ Moves /\ sent' = m /\ m = sent + 1 /\ m \in 1 .. MaxSent /\ sent' \in 0 .. MaxSent /\ Told(m)
      /\ sent' \in {sent, sent + 1} /\ 0 \in 0 .. messages
  BY <1>1, <1>2, ArrivesIs
<1>4. PICK s \in Session : s = Captured("choose", m) /\ s.step = "choose" /\ s.about = {<<"sent", m>>} /\ s.sel = {}
  <2>1. "choose" \in ConversationSteps
    BY StepNames
  <2>2. Poses(Captured("choose", m), "choose", 0, {<<"sent", m>>}, {})
    BY <1>3, <2>1, CapturedIs
  <2> QED BY <2>2 DEF Poses
<1>5. Fits("intake", s)
  BY <1>3, <1>4 DEF Fits, IntakeFits, OneSent
<1>6. \A x \in 1 .. MaxSent : <<"sent", x>> \in s.about => Told(x)
  BY <1>3, <1>4
<1>7. PICK S : S = Saved(sessions, "intake", s)
  OBVIOUS
<1>8. Talks(S) /\ \A j \in ConversationKinds \ {"intake"} : Closed(S[j])
  BY <1>4, <1>5, <1>6, <1>7, KindNames, TalksStart, TalksSaved
<1>9. CASE MakesPost(S, m, 0)
  BY <1>1, <1>3, <1>8, <1>9, MakesPostKeeps DEF Alive
<1>10. CASE Reviews(S, m, 0)
  BY <1>1, <1>3, <1>8, <1>10, ReviewsKeeps
<1>11. CASE /\ Opens("intake", s) /\ Shows("kind", 0, 0, 0, {<<"sent", m>>}, FALSE)
            /\ NoResult /\ UNCHANGED drafts
  <2>1. Talk
    BY <1>4, <1>5, <1>6, <1>11, KindNames, OpensTalks
  <2>2. ScreensKnown'
    <3>1. /\ "kind" \notin {"asset"} \cup ScheduleSteps /\ "kind" \notin {"card", "more"}
          /\ {<<"sent", m>>} \in SUBSET Matter /\ 0 \in Nat /\ FALSE \in BOOLEAN /\ 0 \in 0 .. DraftLimit
      BY <1>3, SentMatter, CountsSame DEF ScheduleSteps
    <3> QED BY <1>1, <1>3, <1>11, <2>1, <3>1, StepNames, ShownOther DEF Still
  <2>3. ConfirmedIsShown'
    BY <1>1 DEF DeskInv, ConfirmedIsShown
  <2>4. Result(0, 0) /\ 0 \in 0 .. MaxSent
    BY <1>11, CountsSame DEF NoResult, Result
  <2> QED BY <1>1, <1>3, <1>11, <2>1, <2>2, <2>3, <2>4, CountsSame, MoveKeeps
<1> QED BY <1>2, <1>4, <1>7, <1>9, <1>10, <1>11 DEF SendMaterial

LEMMA IntakeHolds ==
  ASSUME DeskInv, sessions["intake"].about # {} \/ sessions["intake"].step \notin {"none", "awaiting"}
  PROVE  \E m \in 1 .. MaxSent : /\ sessions["intake"].about = {<<"sent", m>>} /\ Held(m, sessions)
                                 /\ The(sessions["intake"].about) = m
<1>1. PICK m \in 1 .. MaxSent : sessions["intake"].about = {<<"sent", m>>}
  BY KindNames, SessionIs DEF Fits, IntakeFits, OneSent
<1> QED BY <1>1, KindNames, TheSent DEF Held

LEMMA TapKindKeeps == ASSUME DeskInv, NEW s \in screens, TapKind(s) PROVE DeskInv'
<1>1. /\ Moves /\ Still /\ UNCHANGED <<aims, confirmed, sent>> /\ Alive("intake")
      /\ sessions["intake"].about # {}
  BY DEF TapKind, Still
<1>2. PICK m \in 1 .. MaxSent : Held(m, sessions) /\ The(sessions["intake"].about) = m
  BY <1>1, IntakeHolds
<1>3. Talks(sessions) /\ \A j \in ConversationKinds \ {"intake"} : Closed(sessions[j])
  BY <1>1, KindNames, TalksStart, OthersOver DEF Alive
<1>4. s.at \in 0 .. messages /\ sent' \in {sent, sent + 1} /\ sent' \in 0 .. MaxSent
  BY <1>1, ScreenIs, CountsSame
<1>5. CASE MakesPost(sessions, m, s.at)
  BY <1>1, <1>2, <1>3, <1>4, <1>5, MakesPostKeeps
<1>6. CASE Reviews(sessions, m, s.at)
  BY <1>1, <1>2, <1>3, <1>4, <1>6, ReviewsKeeps DEF Told
<1> QED BY <1>2, <1>5, <1>6 DEF TapKind

LEMMA PublishReviewedArticleKeeps == ASSUME DeskInv, NEW s \in screens, PublishReviewedArticle(s) PROVE DeskInv'
<1>1. /\ Moves /\ Still /\ UNCHANGED <<drafts, sent, aims, confirmed>> /\ Ends("intake")
      /\ sessions["intake"].step = "article_review"
  BY DEF PublishReviewedArticle, Still
<1>2. PICK m \in 1 .. MaxSent : Held(m, sessions) /\ The(sessions["intake"].about) = m
  BY <1>1, IntakeHolds
<1>3. Talk /\ Closed(sessions'["intake"])
  BY <1>1, KindNames, EndsTalks
<1>4. ScreensKnown'
  BY <1>1, <1>3, NothingShown DEF PublishReviewedArticle, Still
<1>5. JustSent(m)
  BY <1>1, <1>2, KindNames, EndsAll, FreshHeld DEF Still
<1>6. PICK n \in Nat : n = sessions["intake"].q
  BY KindNames, SessionIs
<1>7. NowAnswered(n)
  <2>1. OneAtATime => finalizing' = 0
    BY <1>1, MovesIs DEF Still
  <2> QED BY <1>1, <1>3, <1>6, <2>1, KindNames, AskedOf DEF Closed
<1>8. Result(m, n) /\ m \in 0 .. MaxSent
  BY <1>2, <1>6 DEF PublishReviewedArticle
<1>9. ConfirmedIsShown'
  BY <1>1 DEF DeskInv, ConfirmedIsShown
<1> QED BY <1>1, <1>3, <1>4, <1>5, <1>7, <1>8, <1>9, CountsSame, MoveKeeps

\* A prompt over the tapped message.
LEMMA PromptShown ==
  ASSUME DeskInv, Talk, desk' = desk, NEW k \in ConversationKinds, NEW at \in 0 .. messages,
         NEW d \in 0 .. DraftLimit, Shows("prompt", at, d, NewRev(k), {}, FALSE)
  PROVE  ScreensKnown'
<1>1. PICK rev \in Nat : rev = NewRev(k)
  BY Fields DEF NewRev, Talk, Talks
<1>2. "prompt" \notin {"asset"} \cup ScheduleSteps /\ "prompt" \notin {"card", "more"} /\ {} \in SUBSET Matter
      /\ FALSE \in BOOLEAN /\ Shows("prompt", at, d, rev, {}, FALSE)
  BY <1>1 DEF ScheduleSteps
<1> QED BY <1>2, StepNames, ShownOther

LEMMA PostAsks == ASSUME NEW step \in ConversationSteps, step # "schedule_confirm", NEW d \in 1 .. DraftLimit PROVE
  /\ Asking(step, d) \in Session /\ Asking(step, d).step = step /\ Asking(step, d).about = {}
  /\ Fits("post", Asking(step, d))
<1>1. d \in 0 .. DraftLimit /\ d >= 1
  BY DeskAssumption DEF DraftLimit
<1>2. Poses(Asking(step, d), step, d, {}, {})
  BY <1>1, AskingIs
<1> QED BY <1>1, <1>2 DEF Poses, Fits, PostFits

LEMMA TapEditKeeps ==
  ASSUME DeskInv, NEW s \in screens, NEW step \in EditSteps, TapEdit(s, step) PROVE DeskInv'
<1>1. Moves /\ Still /\ UNCHANGED <<drafts, sent, aims, confirmed>> /\ Opens("post", Asking(step, s.draft)) /\ NoResult
  BY DEF TapEdit, Still
<1>2. s.draft \in 1 .. DraftLimit /\ s.at \in 0 .. messages /\ s.draft \in 0 .. DraftLimit
  BY ScreenIs DEF TapEdit
<1>3. step \in ConversationSteps /\ step # "schedule_confirm" /\ step # "none"
  BY StepNames DEF EditSteps
<1>4. Talk
  BY <1>1, <1>2, <1>3, PostAsks, KindNames, OpensTalks
<1>5. ScreensKnown'
  BY <1>1, <1>2, <1>4, KindNames, PromptShown DEF TapEdit, Still
<1> QED BY <1>1, <1>4, <1>5, TalkMoveKeeps

LEMMA TapLeavesKeeps == ASSUME DeskInv, NEW s \in screens, TapLeaves(s) PROVE DeskInv'
<1>1. Moves /\ Still /\ UNCHANGED <<drafts, sent, aims, confirmed>> /\ Ends("post") /\ NoResult
  BY DEF TapLeaves, Still
<1>2. Talk
  BY <1>1, KindNames, EndsTalks
<1>3. s.draft \in 1 .. DraftLimit /\ s.at \in 0 .. messages
  BY ScreenIs DEF TapLeaves
<1>4. ScreensKnown'
  BY <1>1, <1>2, <1>3, ShownCard DEF TapLeaves, Still
<1> QED BY <1>1, <1>2, <1>4, TalkMoveKeeps

LEMMA TapManualTimeKeeps == ASSUME DeskInv, NEW s \in screens, TapManualTime(s) PROVE DeskInv'
<1>1. Moves /\ Still /\ UNCHANGED <<drafts, sent, aims, confirmed>> /\ NoResult /\ posed' = posed + 1
  BY DEF TapManualTime, Still
<1>2. s.draft \in 1 .. DraftLimit /\ s.at \in 0 .. messages /\ s.draft \in 0 .. DraftLimit
  BY ScreenIs DEF TapManualTime
<1>3. PICK S : S = Cleared(sessions, "post")
  OBVIOUS
<1>4. Talks(S)
  BY <1>3, KindNames, TalksStart, TalksCleared
<1>5. PICK a \in Session : /\ a = Asking("schedule_manual", s.draft) /\ a.step = "schedule_manual" /\ a.about = {}
                           /\ Fits("post", a)
  BY <1>2, StepNames, PostAsks
<1>6. sessions' = Saved(S, "post", a)
  BY <1>3, <1>5 DEF TapManualTime
<1>7. Talk
  BY <1>1, <1>4, <1>5, <1>6, KindNames, TalksSaved, TalkOpens
<1>8. ScreensKnown'
  BY <1>1, <1>2, <1>7, KindNames, PromptShown DEF TapManualTime, Still
<1> QED BY <1>1, <1>7, <1>8, TalkMoveKeeps

LEMMA TypeTimeKeeps == ASSUME DeskInv, NEW v \in Clock, TypeTime(v) PROVE DeskInv'
<1>1. Moves /\ Still /\ UNCHANGED <<drafts, sent, aims, confirmed>> /\ NoResult /\ desk = "post"
  BY DEF TypeTime, Still
<1>2. PICK d \in 1 .. DraftLimit : d = sessions["post"].draft
  <2>1. sessions["post"].draft >= 1
    BY KindNames, SessionIs DEF TypeTime, Fits, PostFits
  <2> QED BY <2>1, KindNames, SessionIs, CountsSame
<1>3. {<<"post", v>>} \in SUBSET Matter
  BY DEF Matter
<1>4. PICK s \in Session : /\ s = [Asking("schedule_confirm", d) EXCEPT !.about = {<<"post", v>>}]
                           /\ s.step = "schedule_confirm" /\ s.draft = d /\ s.about = {<<"post", v>>} /\ s.sel = {}
  <2>1. d \in 0 .. DraftLimit
    BY CountsSame
  <2>2. PICK a \in Session : a = Asking("schedule_confirm", d) /\ a.step = "schedule_confirm" /\ a.draft = d /\ a.sel = {}
    <3>1. "schedule_confirm" \in ConversationSteps
      BY StepNames DEF ScheduleSteps
    <3>2. Poses(Asking("schedule_confirm", d), "schedule_confirm", d, {}, {})
      BY <2>1, <3>1, AskingIs
    <3> QED BY <3>2 DEF Poses
  <2>3. [a EXCEPT !.about = {<<"post", v>>}] \in Session
    BY <1>3 DEF Session
  <2>4. /\ [a EXCEPT !.about = {<<"post", v>>}].step = a.step /\ [a EXCEPT !.about = {<<"post", v>>}].draft = a.draft
        /\ [a EXCEPT !.about = {<<"post", v>>}].sel = a.sel /\ [a EXCEPT !.about = {<<"post", v>>}].about = {<<"post", v>>}
    BY DEF Session
  <2> QED BY <2>2, <2>3, <2>4
<1>5. Fits("post", s)
  BY <1>4 DEF Fits, PostFits
<1>6. Opens("post", s) /\ Shows("schedule_confirm", 0, d, NewRev("post"), {<<"post", v>>}, TRUE)
  BY <1>2, <1>4 DEF TypeTime
<1>7. \A m \in 1 .. MaxSent : <<"sent", m>> \in s.about => Told(m)
  BY <1>4
<1>8. Talk /\ SameQuestion(sessions'["post"], s)
  BY <1>4, <1>5, <1>6, <1>7, KindNames, OpensTalks
<1>9. ScreensKnown'
  <2>1. PICK subject : subject = [about |-> {<<"post", v>>}, sel |-> {}]
    OBVIOUS
  <2>2. PICK rev \in Nat : rev = NewRev("post")
    BY <1>8, KindNames, Fields DEF NewRev, Talk, Talks
  <2>3. ShowsOf("schedule_confirm", 0, d, rev, subject, TRUE) /\ desk' = desk
    BY <1>1, <1>6, <2>1, <2>2 DEF Shows, Still
  <2>4. /\ subject.about \in SUBSET Matter /\ subject.sel \in SUBSET VideoTargets
        /\ rev = sessions'[desk].rev /\ Subject(sessions'[desk]) = [about |-> subject.about, sel |-> subject.sel]
    BY <1>1, <1>3, <1>4, <1>8, <2>1, <2>2 DEF SameQuestion, Subject, NewRev
  <2>5. d \in 0 .. DraftLimit /\ d >= 1 /\ 0 \in 0 .. messages /\ TRUE \in BOOLEAN /\ "schedule_confirm" \in ScreenKinds
    BY CountsSame, StepNames DEF DeskInv, ScreensKnown, ScreensTyped, ScheduleSteps
  <2> QED BY <1>8, <2>3, <2>4, <2>5, ScreenShown
<1> QED BY <1>1, <1>8, <1>9, TalkMoveKeeps

-----------------------------------------------------------------------------
\* Answers whose media is imported, and albums.

LEMMA SendAnswerKeeps == ASSUME DeskInv, SendAnswer PROVE DeskInv'
<1> DEFINE a == [m |-> sent + 1, step |-> sessions["post"].step, draft |-> sessions["post"].draft,
                 rev |-> sessions["post"].rev, q |-> sessions["post"].q]
<1>1. /\ Arrives /\ desk' = desk /\ UNCHANGED <<sessions, posed, drafts, albums, finalizing, aims, confirmed>>
      /\ sessions["post"].step \in EditSteps /\ handling' = a /\ ShowsNothing /\ NoResult
  BY DEF SendAnswer
<1>2. /\ sent' = sent + 1 /\ sent + 1 \in 1 .. MaxSent /\ sent' \in 0 .. MaxSent
      /\ handling = NoAnswer /\ moves' \in 0 .. MaxMoves
  BY <1>1, ArrivesIs, MovesIs
<1>3. /\ a.m = sent + 1 /\ a.rev = sessions["post"].rev /\ a.q = sessions["post"].q
      /\ a.step = sessions["post"].step /\ a.draft = sessions["post"].draft
  OBVIOUS
<1>4. a \in AnswerRow
  BY <1>2, KindNames, SessionIs, CountsSame DEF AnswerRow
<1> HIDE DEF a
<1>5. Talk
  BY <1>1, StaysTalk
<1>6. ScreensKnown'
  BY <1>1, <1>5, NothingShown
<1>7. SessionsKnown' /\ SessionsFit'
  BY <1>1, <1>5, TalkKeeps
<1>8. OneAtATime => OpenQuestions'
  <2>1. \A n \in Questions : StillAsked(n)' = StillAsked(n)
    BY <1>1 DEF StillAsked
  <2> QED BY <1>1, <2>1 DEF NoResult, DeskInv, OpenQuestions
<1>9. NotSentYet' /\ (RowsGo => SentHomes')
  <2>1. handling'.m = sent + 1 /\ handling.m = 0 /\ sent \in Nat
    BY <1>1, <1>2, <1>3, CountsSame DEF NoAnswer
  <2>2. \A m \in 1 .. MaxSent : /\ uses'[m] = uses[m] /\ albums'[m] = albums[m]
                                /\ Held(m, sessions)' = Held(m, sessions)
    BY <1>1 DEF NoResult, Held
  <2>3. ASSUME NEW m \in 1 .. MaxSent, m > sent' PROVE Unsent(m)'
    <3>1. m > sent /\ m # sent + 1
      BY <1>2, <2>1, <2>3
    <3>2. Unsent(m)
      BY <3>1 DEF DeskInv, NotSentYet
    <3> QED BY <2>1, <2>2, <3>1, <3>2 DEF Unsent
  <2>4. ASSUME RowsGo, NEW m \in 1 .. MaxSent PROVE Home(m)'
    <3>1. Home(m) /\ (m > sent => Unsent(m)) /\ m # 0
      BY <2>4 DEF DeskInv, SentHomes, NotSentYet
    <3>2. CASE m = sent + 1
      <4>1. Unsent(m)
        BY <2>1, <3>1, <3>2
      <4> QED BY <2>1, <2>2, <3>2, <4>1 DEF Home, Unsent
    <3>3. CASE m # sent + 1
      BY <2>1, <2>2, <3>1, <3>3 DEF Home
    <3> QED BY <3>2, <3>3
  <2> QED BY <2>3, <2>4 DEF SentHomes, NotSentYet
<1>10. AnswersFit'
  <2>1. AnswerFits(a)
    <3>1. sessions["post"].step # "none"
      BY <1>1 DEF EditSteps
    <3>2. SessionKnown(sessions["post"]) /\ Fits("post", sessions["post"]) /\ sessions["post"].rev \in Nat
      BY KindNames, SessionIs
    <3>3. \A k \in ConversationKinds : sessions[k].step # "none" => k = "post"
      BY <3>1, KindNames DEF DeskInv, SessionsKnown, OneOpen
    <3> QED BY <1>3, <3>1, <3>2, <3>3 DEF AnswerFits, SessionKnown, Fits, PostFits
  <2>2. AnswerFits(handling)'
    BY <1>1, <2>1 DEF AnswerFits, CurrentRevision, Alive
  <2>3. \A m \in 1 .. MaxSent : AnswerFits(albums[m])'
    BY <1>1 DEF DeskInv, AnswersFit, AnswerFits, CurrentRevision, Alive
  <2> QED BY <1>1, <2>2, <2>3 DEF DeskInv, AnswersFit
<1>11. DeskTyped'
  BY <1>1, <1>2, <1>4 DEF DeskInv, DeskTyped, NoResult
<1>12. ConfirmedIsShown'
  BY <1>1 DEF DeskInv, ConfirmedIsShown
<1> QED BY <1>6, <1>7, <1>8, <1>9, <1>10, <1>11, <1>12 DEF DeskInv, OneAtATime, RowsGo

\* Nothing is under way any more, or the server is; no result.
LEMMA QuietKeeps ==
  ASSUME DeskInv, desk' = desk, UNCHANGED <<drafts, sent, aims, confirmed>>, moves' \in 0 .. MaxMoves,
         handling' \in {handling, NoAnswer}, finalizing' \in {finalizing, 0},
         albums' \in [1 .. MaxSent -> AlbumRow], \A x \in 1 .. MaxSent : AlbumStays(x),
         finalizing' # 0 => albums'[finalizing'] = albums[finalizing'],
         Talk, ScreensKnown', NoResult
  PROVE  DeskInv'
<1>1. Result(0, 0) /\ 0 \in 0 .. MaxSent
  BY CountsSame DEF NoResult, Result
<1>2. ConfirmedIsShown' /\ Counts
  BY CountsSame DEF DeskInv, ConfirmedIsShown, Counts
<1>3. Fair(0, 0)
  BY <1>1, <1>2 DEF Fair
<1> QED BY <1>3, FairKeeps

LEMMA MovesSame == ASSUME DeskInv PROVE
  moves \in 0 .. MaxMoves /\ albums \in [1 .. MaxSent -> AlbumRow] /\ finalizing \in 0 .. MaxSent
BY DEF DeskInv, DeskTyped

LEMMA AnswerLandsKeeps == ASSUME DeskInv, AnswerLands PROVE DeskInv'
<1>1. /\ desk' = desk /\ UNCHANGED <<posed, drafts, sent, albums, finalizing, aims, confirmed, moves>>
      /\ handling' = NoAnswer /\ (OneAtATime => finalizing = 0)
  BY DEF AnswerLands, OneAtATime
<1>2. \A x \in 1 .. MaxSent : AlbumStays(x)
  BY <1>1 DEF AlbumStays
<1>3. CASE ~CurrentRevision(handling, "post")
  <2>1. NoResult /\ ShowsNothing /\ UNCHANGED sessions
    BY <1>3 DEF AnswerLands
  <2>2. Talk
    BY <1>1, <2>1, StaysTalk
  <2>3. ScreensKnown'
    BY <1>1, <2>1, <2>2, NothingShown
  <2> QED BY <1>1, <1>2, <2>1, <2>2, <2>3, MovesSame, QuietKeeps
<1>4. CASE CurrentRevision(handling, "post")
  <2> DEFINE s == [sessions["post"] EXCEPT !.step = "completed"]
  <2>1. sessions["post"].step # "none" /\ handling.rev = sessions["post"].rev
    BY <1>4 DEF CurrentRevision, Alive
  <2>2. /\ s \in Session /\ s.step = "completed" /\ s.draft = sessions["post"].draft
        /\ s.about = sessions["post"].about
    <3>1. PICK p \in Session : p = sessions["post"]
      BY KindNames, SessionIs
    <3>2. /\ [p EXCEPT !.step = "completed"] \in Session
          /\ [p EXCEPT !.step = "completed"].step = "completed" /\ [p EXCEPT !.step = "completed"].draft = p.draft
          /\ [p EXCEPT !.step = "completed"].about = p.about
      BY StepNames DEF Session
    <3> QED BY <3>1, <3>2
  <2>3. Fits("post", s)
    BY <2>1, <2>2, KindNames, SessionIs DEF Fits, PostFits
  <2>4. \A m \in 1 .. MaxSent : <<"sent", m>> \in s.about => Told(m)
    BY <2>2, KindNames DEF Told, Held
  <2>5. PICK S : S = Saved(sessions, "post", s)
    OBVIOUS
  <2>6. sessions' = Cleared(S, "post")
    BY <1>4, <2>5 DEF AnswerLands
  <2> HIDE DEF s
  <2>7. Talks(S) /\ \A j \in ConversationKinds \ {"post"} : Closed(S[j])
    BY <2>2, <2>3, <2>4, <2>5, KindNames, TalksStart, TalksSaved
  <2>8. Talks(sessions') /\ \A j \in ConversationKinds : Closed(sessions'[j])
    BY <2>6, <2>7, KindNames, TalksCleared
  <2>9. Talk
    BY <1>1, <2>8, TalkEnds
  <2>10. PICK h \in AnswerRow : h = handling
    BY DEF DeskInv, DeskTyped
  <2>11. AnswerFits(h) /\ h.rev \in Nat /\ h.q \in Nat /\ h.m \in 0 .. MaxSent /\ h.draft \in 0 .. DraftLimit
    BY <2>10, AnswerFields DEF DeskInv, AnswersFit
  <2>12. h.draft \in 1 .. DraftLimit /\ h.q = sessions["post"].q
    <3>1. sessions["post"].rev >= 1
      BY <2>1, KindNames, SessionIs DEF SessionKnown
    <3> QED BY <1>4, <2>1, <2>10, <2>11, <3>1, CountsSame DEF AnswerFits
  <2>13. ScreensKnown'
    <3>1. 0 \in 0 .. messages
      BY DEF DeskInv, ScreensKnown, ScreensTyped
    <3>2. CASE ShowsCard(0, handling.draft)
      BY <1>1, <2>9, <2>10, <2>12, <3>1, <3>2, ShownCard
    <3>3. CASE Shows("more", 0, handling.draft, 0, {}, FALSE)
      <4>0. "more" \notin {"asset"} \cup ScheduleSteps
        BY DEF ScheduleSteps
      <4>1. h.draft \in 0 .. DraftLimit /\ h.draft >= 1
        BY <2>11, <2>12
      <4>2. Shows("more", 0, h.draft, 0, {}, FALSE)
        BY <2>10, <3>3
      <4>3. {} \in SUBSET Matter /\ 0 \in Nat /\ FALSE \in BOOLEAN /\ "more" \in ScreenKinds
        BY StepNames
      <4> QED BY <1>1, <2>9, <3>1, <4>0, <4>1, <4>2, <4>3, ShownOther
    <3> QED BY <1>4, <3>2, <3>3 DEF AnswerLands
  <2>14. NowAnswered(h.q)
    <3>1. (OneAtATime => finalizing' = 0) /\ sessions'["post"] # sessions["post"]
      BY <1>1, <2>1, <2>8, KindNames DEF Closed
    <3> QED BY <2>1, <2>9, <2>12, <3>1, KindNames, AskedOf
  <2>15. h.m # 0 => JustSent(h.m)
    <3> SUFFICES ASSUME h.m # 0 PROVE JustSent(h.m)
      OBVIOUS
    <3>1. h.m \in 1 .. MaxSent /\ sent \in Nat
      BY <2>11, CountsSame
    <3>2. (RowsGo => Home(h.m)) /\ (h.m > sent => Unsent(h.m))
      BY <3>1 DEF DeskInv, SentHomes, NotSentYet
    <3>3. ~Held(h.m, sessions')
      BY <2>8, NoneHeld
    <3>4. ~(h.m > sent) /\ (RowsGo => uses[h.m] = 0 /\ albums[h.m].st = "none")
      BY <2>10, <3>2 DEF Home, Unsent
    <3> QED BY <1>1, <3>1, <3>3, <3>4 DEF JustSent, Gone, NoAnswer
  <2>16. Result(h.m, h.q)
    BY <1>4, <2>10 DEF AnswerLands
  <2>17. ConfirmedIsShown' /\ Counts
    BY <1>1, CountsSame, MovesSame DEF DeskInv, ConfirmedIsShown, Counts
  <2>18. Fair(h.m, h.q)
    BY <1>1, <1>2, <2>9, <2>11, <2>13, <2>14, <2>15, <2>16, <2>17, MovesSame DEF Fair
  <2> QED BY <2>18, FairKeeps
<1> QED BY <1>3, <1>4

LEMMA SendAlbumKeeps == ASSUME DeskInv, SendAlbum PROVE DeskInv'
<1> DEFINE row == [st |-> "settled", step |-> sessions["post"].step, draft |-> sessions["post"].draft,
                   rev |-> IF Alive("post") THEN sessions["post"].rev ELSE 0, q |-> sessions["post"].q, tries |-> 0]
           m == sent + 1
<1>1. /\ Arrives /\ desk' = desk /\ UNCHANGED <<posed, drafts, handling, finalizing, aims, confirmed>>
      /\ albums' = [albums EXCEPT ![m] = row] /\ ShowsNothing /\ NoResult
      /\ sessions' = IF sessions["intake"].step = "awaiting" THEN Cleared(sessions, "intake") ELSE sessions
  BY DEF SendAlbum
<1>2. /\ sent' = m /\ m \in 1 .. MaxSent /\ sent' \in 0 .. MaxSent
      /\ handling = NoAnswer /\ moves' \in 0 .. MaxMoves
  BY <1>1, ArrivesIs, MovesIs
\* The album that is being imported is another one.
<1>13. finalizing' = finalizing /\ (finalizing # 0 =>
         /\ albums'[finalizing] = albums[finalizing] /\ albums[finalizing].st = "claimed")
  <2>1. Unsent(m) /\ albums \in [1 .. MaxSent -> AlbumRow]
    BY <1>2, CountsSame, MovesSame DEF DeskInv, NotSentYet
  <2>2. finalizing # 0 => finalizing # m /\ albums[finalizing].st = "claimed"
    BY <2>1 DEF DeskInv, AnswersFit, Unsent
  <2> QED BY <1>1, <2>1, <2>2
<1>3. /\ row.st = "settled" /\ row.step = sessions["post"].step /\ row.draft = sessions["post"].draft
      /\ row.rev = (IF Alive("post") THEN sessions["post"].rev ELSE 0) /\ row.q = sessions["post"].q /\ row.tries = 0
  OBVIOUS
<1>4. row \in AlbumRow
  <2>1. 0 \in 0 .. AlbumTries + 1 /\ (IF Alive("post") THEN sessions["post"].rev ELSE 0) \in Nat
    BY DeskAssumption, KindNames, SessionIs
  <2> QED BY <2>1, KindNames, SessionIs DEF AlbumRow
<1> HIDE DEF row
<1>5. Talk
  <2>1. CASE sessions["intake"].step = "awaiting"
    BY <1>1, <2>1, KindNames, EndsTalks DEF Ends
  <2>2. CASE sessions["intake"].step # "awaiting"
    BY <1>1, <2>2, StaysTalk
  <2> QED BY <2>1, <2>2
<1>6. ScreensKnown'
  BY <1>1, <1>5, NothingShown
<1>7. SessionsKnown' /\ SessionsFit'
  BY <1>1, <1>5, TalkKeeps
<1>8. OneAtATime => OpenQuestions'
  <2>1. ASSUME NEW n \in Questions, StillAsked(n)' PROVE StillAsked(n)
    BY <1>13, <1>5, <2>1, StillAskedBefore
  <2> QED BY <1>1, <2>1 DEF NoResult, DeskInv, OpenQuestions
<1>9. NotSentYet' /\ (RowsGo => SentHomes')
  <2>1. \A x \in 1 .. MaxSent : uses'[x] = uses[x] /\ handling'.m = handling.m /\ handling.m = 0 /\ x # 0
    BY <1>1, <1>2 DEF NoResult, NoAnswer
  <2>2. \A x \in 1 .. MaxSent : Held(x, sessions)' => Held(x, sessions)
    <3>1. Cleared(sessions, "intake") = sessions' \/ sessions' = sessions
      BY <1>1
    <3>2. \A k \in ConversationKinds : Closed(sessions'[k]) \/ sessions'[k] = sessions[k]
      <4>1. /\ Closed(Cleared(sessions, "intake")["intake"])
            /\ \A j \in ConversationKinds \ {"intake"} : Cleared(sessions, "intake")[j] = sessions[j]
        BY KindNames, TalksStart, TalksCleared
      <4> QED BY <3>1, <4>1
    <3> QED BY <3>2 DEF Held, Closed
  <2>3. \A x \in 1 .. MaxSent : x # m => albums'[x] = albums[x]
    BY <1>1, MovesSame
  <2>4. sent \in Nat
    BY CountsSame
  <2> HIDE DEF Held
  <2>5. ASSUME NEW x \in 1 .. MaxSent, x > sent' PROVE Unsent(x)'
    <3>1. x > sent /\ x # m
      BY <1>2, <2>4, <2>5
    <3>2. Unsent(x)
      BY <3>1 DEF DeskInv, NotSentYet
    <3> QED BY <2>1, <2>2, <2>3, <3>1, <3>2 DEF Unsent
  <2>6. ASSUME RowsGo, NEW x \in 1 .. MaxSent PROVE Home(x)'
    <3>1. Home(x) /\ (x > sent => Unsent(x))
      BY <2>6 DEF DeskInv, SentHomes, NotSentYet
    <3>2. CASE x = m
      <4>1. x > sent
        BY <2>4, <3>2
      <4>2. ~Held(x, sessions)' /\ uses'[x] = 0 /\ handling'.m # x
        BY <2>1, <2>2, <3>1, <4>1 DEF Unsent
      <4> QED BY <4>2 DEF Home
    <3>3. CASE x # m
      <4> HIDE DEF m
      <4> QED BY <2>1, <2>2, <2>3, <3>1, <3>3 DEF Home
    <3> QED BY <3>2, <3>3
  <2> QED BY <2>5, <2>6 DEF SentHomes, NotSentYet
<1>10. AnswersFit'
  <2>1. AnswerFits(row)
    <3>1. SessionKnown(sessions["post"]) /\ Fits("post", sessions["post"]) /\ sessions["post"].rev \in Nat
      BY KindNames, SessionIs
    <3>2. CASE Alive("post")
      <4>1. sessions["post"].step # "none" /\ row.rev = sessions["post"].rev
        BY <1>3, <3>2 DEF Alive
      <4>2. \A k \in ConversationKinds : sessions[k].step # "none" => k = "post"
        BY <4>1, KindNames DEF DeskInv, SessionsKnown, OneOpen
      <4> QED BY <1>3, <3>1, <4>1, <4>2 DEF AnswerFits, SessionKnown, Fits, PostFits
    <3>3. CASE ~Alive("post")
      <4>1. row.rev = 0 /\ row.q = 0 /\ row.step = "none"
        BY <1>3, <3>1, <3>3 DEF Alive, SessionKnown, Closed
      <4> QED BY <4>1, NoAnswerFits
    <3> QED BY <3>2, <3>3
  <2>2. ASSUME NEW a, a.rev \in Nat, a.q \in Nat, AnswerFits(a) PROVE AnswerFits(a)'
    BY <1>5, <2>2, AnswerStays
  <2>3. AnswerFits(handling)'
    <3>1. PICK h : h = handling
      OBVIOUS
    <3>2. AnswerFits(h) /\ h.rev \in Nat /\ h.q \in Nat
      BY <3>1, AnswerFields DEF DeskInv, DeskTyped, AnswersFit
    <3>3. AnswerFits(h)' /\ handling' = h
      BY <1>1, <2>2, <3>1, <3>2
    <3> QED BY <3>3 DEF AnswerFits, CurrentRevision
  <2>4. ASSUME NEW x \in 1 .. MaxSent PROVE AnswerFits(albums[x])'
    <3>1. PICK h : h = albums'[x]
      OBVIOUS
    <3>2. h = row \/ h = albums[x]
      BY <1>1, <3>1, MovesSame
    <3>3. AnswerFits(h) /\ h.rev \in Nat /\ h.q \in Nat
      BY <1>4, <2>1, <3>2, AlbumFields, MovesSame DEF DeskInv, AnswersFit
    <3>4. AnswerFits(h)'
      BY <2>2, <3>3
    <3> QED BY <3>1, <3>4 DEF AnswerFits, CurrentRevision
  <2>5. finalizing' # 0 => albums'[finalizing'].st = "claimed"
    BY <1>13
  <2>6. ASSUME NEW x \in 1 .. MaxSent PROVE albums'[x].tries <= AlbumTries
    BY <1>1, <1>3, MovesSame, DeskAssumption DEF DeskInv, AnswersFit
  <2> QED BY <2>3, <2>4, <2>5, <2>6 DEF AnswersFit
<1>11. DeskTyped'
  <2>1. albums' \in [1 .. MaxSent -> AlbumRow]
    BY <1>1, <1>4, MovesSame
  <2>2. sessions' \in [ConversationKinds -> Session]
    BY <1>5 DEF Talk, Talks
  <2> QED BY <1>1, <1>2, <2>1, <2>2 DEF DeskInv, DeskTyped, NoResult
<1>12. ConfirmedIsShown'
  BY <1>1 DEF DeskInv, ConfirmedIsShown
<1> QED BY <1>6, <1>7, <1>8, <1>9, <1>10, <1>11, <1>12 DEF DeskInv, OneAtATime, RowsGo

\* A step of the worker that only moves an album on.
LEMMA ClaimAlbumKeeps == ASSUME DeskInv, NEW m \in 1 .. MaxSent, ClaimAlbum(m) PROVE DeskInv'
<1>1. /\ desk' = desk /\ finalizing = 0 /\ albums[m].st = "settled"
      /\ UNCHANGED <<sessions, posed, drafts, sent, aims, confirmed, moves, handling, uses, answers>>
      /\ UNCHANGED <<screens, messages, card>>
  BY DEF ClaimAlbum
<1>2. Talk
  BY <1>1, StaysTalk
<1>3. ScreensKnown'
  BY <1>1, <1>2, NothingShown DEF ShowsNothing
<1>4. PICK a \in AlbumRow : a = albums[m]
  BY MovesSame
<1>5. CASE albums' = [albums EXCEPT ![m] = NoAlbum] /\ finalizing' = finalizing
  <2>1. NoAlbum \in AlbumRow
    <3>1. 0 \in 0 .. DraftLimit /\ 0 \in 0 .. AlbumTries + 1
      BY DeskAssumption DEF DraftLimit
    <3> QED BY <3>1, StepNames DEF NoAlbum, AlbumRow
  <2>2. albums' \in [1 .. MaxSent -> AlbumRow] /\ \A x \in 1 .. MaxSent : AlbumStays(x)
    BY <1>5, <2>1, MovesSame DEF AlbumStays
  <2> QED BY <1>1, <1>2, <1>3, <1>5, <2>2, MovesSame, QuietKeeps DEF NoResult
<1>6. CASE /\ albums[m].tries # AlbumTries /\ ~StaleAlbum(albums[m])
           /\ albums' = [albums EXCEPT ![m].st = "claimed", ![m].tries = @ + 1] /\ finalizing' = m
  <2>1. PICK b : b = [a EXCEPT !.st = "claimed", !.tries = a.tries + 1]
    OBVIOUS
  <2>2. albums' = [albums EXCEPT ![m] = b]
    BY <1>4, <1>6, <2>1, MovesSame
  <2>3. b.tries = a.tries + 1 /\ b.st = "claimed" /\ b.step = a.step /\ b.draft = a.draft /\ b.rev = a.rev /\ b.q = a.q
    BY <2>1 DEF AlbumRow
  <2>4. b \in AlbumRow
    <3>1. a.tries \in 0 .. AlbumTries + 1 /\ a.tries <= AlbumTries /\ a.tries # AlbumTries
      BY <1>4, <1>6, AlbumFields DEF DeskInv, AnswersFit
    <3>2. a.tries + 1 \in 0 .. AlbumTries + 1
      BY <3>1, DeskAssumption
    <3> QED BY <2>1, <3>2 DEF AlbumRow
  <2>5. albums'[m] = b /\ \A x \in 1 .. MaxSent \ {m} : albums'[x] = albums[x]
    BY <2>2, MovesSame
  <2>6. OneAtATime => OpenQuestions'
    <3>1. ASSUME NEW n \in Questions, StillAsked(n)' PROVE StillAsked(n)
      <4>1. CASE b.q = n
        <5>1. n # 0 /\ AnswerFits(a) /\ a.q = n
          BY <1>4, <2>3, <4>1, DeskAssumption DEF Questions, DeskInv, AnswersFit
        <5>2. a.rev # 0
          BY <5>1 DEF AnswerFits
        <5>3. CurrentRevision(a, "post")
          BY <1>4, <1>6, <5>2 DEF StaleAlbum, CurrentRevision
        <5> QED BY <5>1, <5>3, KindNames DEF AnswerFits, StillAsked, CurrentRevision, Alive
      <4>2. CASE b.q # n
        BY <1>1, <1>6, <2>5, <3>1, <4>2 DEF StillAsked
      <4> QED BY <4>1, <4>2
    <3> QED BY <1>1, <3>1 DEF DeskInv, OpenQuestions
  <2>7. NotSentYet' /\ (RowsGo => SentHomes')
    <3>1. \A x \in 1 .. MaxSent : albums'[x].st # "none" <=> albums[x].st # "none"
      BY <1>1, <2>3, <2>5
    <3>2. ASSUME NEW x \in 1 .. MaxSent, x > sent' PROVE Unsent(x)'
      <4>1. Unsent(x)
        BY <1>1, <3>2 DEF DeskInv, NotSentYet
      <4> QED BY <1>1, <3>1, <4>1 DEF Unsent, Held
    <3>3. ASSUME RowsGo, NEW x \in 1 .. MaxSent PROVE Home(x)'
      <4>1. Home(x)
        BY <3>3 DEF DeskInv, SentHomes
      <4> QED BY <1>1, <3>1, <4>1 DEF Home, Held
    <3> QED BY <3>2, <3>3 DEF SentHomes, NotSentYet
  <2>8. AnswersFit'
    <3>1. AnswerFits(handling)'
      BY <1>1 DEF DeskInv, AnswersFit, AnswerFits, CurrentRevision, Alive
    <3>2. AnswerFits(b)
      BY <1>4, <2>3 DEF DeskInv, AnswersFit, AnswerFits, CurrentRevision
    <3>3. ASSUME NEW x \in 1 .. MaxSent PROVE AnswerFits(albums[x])'
      <4>1. CASE x = m
        BY <1>1, <2>5, <3>2, <4>1 DEF AnswerFits, CurrentRevision, Alive
      <4>2. CASE x # m
        BY <1>1, <2>5, <4>2 DEF DeskInv, AnswersFit, AnswerFits, CurrentRevision, Alive
      <4> QED BY <4>1, <4>2
    <3>4. albums'[finalizing'].st = "claimed"
      BY <1>6, <2>3, <2>5
    <3>5. ASSUME NEW x \in 1 .. MaxSent PROVE albums'[x].tries <= AlbumTries
      <4>1. a.tries \in 0 .. AlbumTries + 1 /\ a.tries <= AlbumTries /\ a.tries # AlbumTries
        BY <1>4, <1>6, AlbumFields DEF DeskInv, AnswersFit
      <4>2. b.tries <= AlbumTries
        BY <2>3, <4>1, DeskAssumption
      <4> QED BY <2>5, <4>2 DEF DeskInv, AnswersFit
    <3> QED BY <3>1, <3>3, <3>4, <3>5 DEF AnswersFit
  <2>9. DeskTyped'
    <3>1. albums' \in [1 .. MaxSent -> AlbumRow] /\ finalizing' \in 0 .. MaxSent
      <4>1. m \in 0 .. MaxSent
        BY CountsSame
      <4> QED BY <1>6, <2>2, <2>4, <4>1, MovesSame
    <3> QED BY <1>1, <3>1 DEF DeskInv, DeskTyped
  <2>10. SessionsKnown' /\ SessionsFit' /\ ConfirmedIsShown'
    BY <1>1, <1>2, TalkKeeps DEF DeskInv, ConfirmedIsShown
  <2> QED BY <1>3, <2>6, <2>7, <2>8, <2>9, <2>10 DEF DeskInv, OneAtATime, RowsGo
<1> QED BY <1>5, <1>6 DEF ClaimAlbum

LEMMA NoAlbumIs == NoAlbum \in AlbumRow /\ NoAlbum.st = "none"
<1>1. 0 \in 0 .. DraftLimit /\ 0 \in 0 .. AlbumTries + 1
  BY DeskAssumption DEF DraftLimit
<1> QED BY <1>1, StepNames DEF NoAlbum, AlbumRow

LEMMA AlbumLandsKeeps == ASSUME DeskInv, AlbumLands PROVE DeskInv'
<1>1. PICK m \in 1 .. MaxSent : m = finalizing
  BY MovesSame, CountsSame DEF AlbumLands
<1>2. PICK row \in AlbumRow : row = albums[m]
  BY MovesSame
<1>3. PICK open \in BOOLEAN : open <=> (row.step # "none" /\ Alive("post") /\ sessions["post"].rev = row.rev)
  OBVIOUS
<1>4. /\ desk' = desk /\ UNCHANGED <<sent, handling, posed, aims, confirmed, moves>> /\ finalizing' = 0
      /\ sessions' = IF open THEN Cleared(sessions, "post") ELSE sessions
  BY <1>1, <1>2, <1>3 DEF AlbumLands
<1>5. /\ \E left \in {NoAlbum, [row EXCEPT !.st = "settled"], row} : albums' = [albums EXCEPT ![m] = left]
      /\ RowsGo => albums' = [albums EXCEPT ![m] = NoAlbum]
  <2>1. PICK left \in Remains(row) : albums' = [albums EXCEPT ![m] = left]
    BY <1>1, <1>2 DEF AlbumLands
  <2>2. left \in {NoAlbum, [row EXCEPT !.st = "settled"], row} /\ (RowsGo => left = NoAlbum)
    BY DEF Remains, RowsGo
  <2> QED BY <2>1, <2>2
<1>6. /\ albums' \in [1 .. MaxSent -> AlbumRow] /\ \A x \in 1 .. MaxSent : AlbumStays(x)
      /\ RowsGo => albums'[m].st = "none"
  <2>1. PICK left \in {NoAlbum, [row EXCEPT !.st = "settled"], row} : albums' = [albums EXCEPT ![m] = left]
    BY <1>5
  <2>2. left \in AlbumRow
    BY <2>1, NoAlbumIs, SettledAgain
  <2>3. albums \in [1 .. MaxSent -> AlbumRow] /\ row.st # "none"
    BY <1>1, <1>2, MovesSame, CountsSame DEF DeskInv, AnswersFit
  <2>4. \A x \in 1 .. MaxSent : AlbumStays(x)
    BY <1>2, <2>1, <2>3 DEF AlbumStays
  <2> QED BY <1>5, <2>1, <2>2, <2>3, <2>4, NoAlbumIs
<1>7. /\ Talk /\ \A k \in ConversationKinds : sessions'[k] = sessions[k] \/ Closed(sessions'[k])
      /\ open => Closed(sessions'["post"])
  <2>1. CASE open
    <3>1. Ends("post")
      BY <1>4, <2>1 DEF Ends
    <3> QED BY <3>1, KindNames, EndsTalks
  <2>2. CASE ~open
    <3>1. sessions' = sessions
      BY <1>4, <2>2
    <3> QED BY <1>4, <2>2, <3>1, StaysTalk
  <2> QED BY <2>1, <2>2
<1>8. AnswerFits(row) /\ (RowsGo => Home(m)) /\ row.st = "claimed" /\ m <= sent
  <2>1. AnswerFits(row) /\ (RowsGo => Home(m)) /\ row.st = "claimed" /\ (m > sent => Unsent(m))
    BY <1>1, <1>2, CountsSame DEF DeskInv, AnswersFit, SentHomes, NotSentYet
  <2> QED BY <1>2, <2>1, CountsSame DEF Unsent
<1>9. JustSent(m)
  <2>1. RowsGo => uses[m] = 0 /\ handling.m # m /\ ~Held(m, sessions)
    BY <1>2, <1>8 DEF Home
  <2>2. RowsGo => ~Held(m, sessions')
    BY <1>7, <2>1 DEF Held, Closed
  <2> QED BY <1>4, <1>6, <1>8, <2>1, <2>2 DEF JustSent, Gone
<1>10. /\ row.rev \in Nat /\ row.q \in Nat /\ row.draft \in 0 .. DraftLimit /\ 0 \in 0 .. messages
       /\ row.q # 0 => NowAnswered(row.q)
  <2>1. row.rev \in Nat /\ row.q \in Nat /\ row.draft \in 0 .. DraftLimit
    BY AlbumFields
  <2>2. 0 \in 0 .. messages
    BY DEF DeskInv, ScreensKnown, ScreensTyped
  <2>3. ASSUME NEW k \in ConversationKinds, sessions'[k].step # "none" PROVE sessions'[k].q # row.q
    <3> SUFFICES ASSUME sessions'[k].q = row.q PROVE FALSE
      OBVIOUS
    <3>1. sessions'[k] = sessions[k]
      BY <1>7, <2>3 DEF Closed
    <3>2. k = "post" /\ sessions["post"].rev = row.rev /\ sessions["post"].step # "none"
      BY <1>8, <2>3, <3>1 DEF AnswerFits
    <3>3. sessions["post"].rev >= 1
      BY <3>2, KindNames, SessionIs DEF SessionKnown
    <3>4. row.step # "none"
      BY <1>8, <2>1, <3>2, <3>3 DEF AnswerFits
    <3>5. open
      BY <1>3, <3>2, <3>4 DEF Alive
    <3> QED BY <1>7, <2>3, <3>2, <3>5 DEF Closed
  <2>4. StillAsked(row.q) /\ row.q <= posed
    BY <1>1, <1>2, <1>8 DEF StillAsked, AnswerFits
  <2> QED BY <1>4, <2>1, <2>2, <2>3, <2>4 DEF NowAnswered
<1>11. ConfirmedIsShown'
  BY <1>4 DEF DeskInv, ConfirmedIsShown
<1>12. CASE row.step \in EditSteps
  <2>1. /\ Result(m, row.q) /\ drafts' = drafts
        /\ IF row.step = "edit_text" THEN ShowsCard(0, row.draft)
           ELSE Shows("more", 0, row.draft, 0, {}, FALSE)
    BY <1>1, <1>2, <1>12 DEF AlbumLands
  <2>2. row.draft \in 1 .. DraftLimit /\ row.draft >= 1
    <3>1. row.rev # 0
      BY <1>8, <1>12 DEF AnswerFits, EditSteps
    <3> QED BY <1>8, <1>10, <3>1, CountsSame DEF AnswerFits
  <2>3. ScreensKnown'
    <3>1. CASE ShowsCard(0, row.draft)
      BY <1>4, <1>7, <1>10, <2>2, <3>1, ShownCard
    <3>2. CASE Shows("more", 0, row.draft, 0, {}, FALSE)
      <4>1. "more" \notin {"asset"} \cup ScheduleSteps
        BY DEF ScheduleSteps
      <4>2. {} \in SUBSET Matter /\ 0 \in Nat /\ FALSE \in BOOLEAN /\ "more" \in ScreenKinds
        BY StepNames
      <4> QED BY <1>4, <1>7, <1>10, <2>2, <3>2, <4>1, <4>2, ShownOther
    <3> QED BY <2>1, <3>1, <3>2
  <2>4. Counts
    BY <1>4, <2>1, CountsSame, MovesSame DEF Counts
  <2>5. Fair(m, row.q)
    BY <1>4, <1>6, <1>7, <1>9, <1>10, <1>11, <2>1, <2>3, <2>4, CountsSame DEF Fair
  <2> QED BY <2>5, FairKeeps
<1>13. CASE row.step \notin EditSteps
  <2>1. drafts < DraftLimit /\ drafts' = drafts + 1 /\ Result(m, 0) /\ ShowsCard(0, drafts + 1)
    BY <1>1, <1>2, <1>13 DEF AlbumLands
  <2>2. drafts + 1 \in 1 .. DraftLimit
    BY <2>1, CountsSame
  <2>3. ScreensKnown'
    BY <1>4, <1>7, <1>10, <2>1, <2>2, ShownCard
  <2>4. Counts
    BY <1>4, <2>1, <2>2, CountsSame, MovesSame DEF Counts
  <2>5. Fair(m, 0)
    BY <1>4, <1>6, <1>7, <1>9, <1>11, <2>1, <2>3, <2>4, CountsSame DEF Fair
  <2> QED BY <2>5, FairKeeps
<1> QED BY <1>12, <1>13

\* A step that only moves what is under way.
LEMMA UnderWayKeeps ==
  ASSUME DeskInv, desk' = desk, UNCHANGED <<drafts, sent, aims, confirmed, moves, sessions, posed>>,
         UNCHANGED <<screens, messages, card>>, UNCHANGED <<uses, answers>>,
         handling' \in {handling, NoAnswer}, finalizing' \in {finalizing, 0},
         albums' \in [1 .. MaxSent -> AlbumRow], \A x \in 1 .. MaxSent : AlbumStays(x),
         finalizing' # 0 => albums'[finalizing'] = albums[finalizing']
  PROVE  DeskInv'
<1>1. Talk
  BY StaysTalk
<1>2. ScreensKnown'
  BY <1>1, NothingShown DEF ShowsNothing
<1> QED BY <1>1, <1>2, MovesSame, QuietKeeps DEF NoResult

LEMMA ImportFailsKeeps == ASSUME DeskInv, ImportFails PROVE DeskInv'
<1>1. PICK m \in 1 .. MaxSent : m = finalizing
  BY MovesSame, CountsSame DEF ImportFails
<1>2. PICK a \in AlbumRow : a = albums[m] /\ a.st # "none"
  <2>1. finalizing # 0 => albums[finalizing].st = "claimed"
    BY DEF DeskInv, AnswersFit
  <2>2. albums[m].st = "claimed" /\ albums[m] \in AlbumRow
    BY <1>1, <2>1, MovesSame
  <2> QED BY <2>2
<1>3. PICK b : b = (IF a.tries = AlbumTries THEN NoAlbum ELSE [a EXCEPT !.st = "settled"])
  OBVIOUS
<1>4. b \in AlbumRow
  BY <1>3, NoAlbumIs, SettledAgain
<1>5. albums' = [albums EXCEPT ![m] = b]
  BY <1>1, <1>2, <1>3 DEF ImportFails
<1>6. albums' \in [1 .. MaxSent -> AlbumRow] /\ \A x \in 1 .. MaxSent : AlbumStays(x)
  BY <1>2, <1>3, <1>4, <1>5, MovesSame DEF AlbumStays
<1> QED BY <1>6, UnderWayKeeps DEF ImportFails

LEMMA RecoverClaimKeeps == ASSUME DeskInv, NEW m \in 1 .. MaxSent, RecoverClaim(m) PROVE DeskInv'
<1>1. PICK a \in AlbumRow : a = albums[m] /\ a.st # "none"
  BY MovesSame DEF RecoverClaim
<1>2. PICK b : b = [a EXCEPT !.st = "settled"]
  OBVIOUS
<1>3. albums' = [albums EXCEPT ![m] = b] /\ b \in AlbumRow /\ finalizing # m
  BY <1>1, <1>2, SettledAgain DEF RecoverClaim
<1>4. albums' \in [1 .. MaxSent -> AlbumRow] /\ \A x \in 1 .. MaxSent : AlbumStays(x)
  BY <1>1, <1>2, <1>3, MovesSame DEF AlbumStays
<1>5. finalizing' # 0 => albums'[finalizing'] = albums[finalizing']
  BY <1>3, MovesSame DEF RecoverClaim
<1> QED BY <1>4, <1>5, UnderWayKeeps DEF RecoverClaim

LEMMA DeskRestartKeeps == ASSUME DeskInv, DeskRestart PROVE DeskInv'
<1>1. albums' \in [1 .. MaxSent -> AlbumRow] /\ \A x \in 1 .. MaxSent : AlbumStays(x)
  BY MovesSame DEF DeskRestart, AlbumStays
<1> QED BY <1>1, UnderWayKeeps DEF DeskRestart

LEMMA ExpiresKeeps == ASSUME DeskInv, NEW k \in ConversationKinds, Expires(k) PROVE DeskInv'
<1>1. Talk
  BY EndsTalks DEF Expires
<1>2. ScreensKnown' /\ desk' = desk
  BY <1>1, NothingShown DEF Expires
<1>3. moves' \in 0 .. MaxMoves
  BY MovesSame, DeskAssumption DEF Expires
<1>4. \A x \in 1 .. MaxSent : AlbumStays(x)
  BY DEF Expires, AlbumStays
<1> QED BY <1>1, <1>2, <1>3, <1>4, MovesSame, QuietKeeps DEF Expires

-----------------------------------------------------------------------------
\* Videos.

\* A question about a video and its screen.
LEMMA Continued ==
  ASSUME DeskInv, desk = "video", desk' = desk, NEW S, Talks(S), NEW s \in Session, s.step # "none",
         Fits("video", s), \A m \in 1 .. MaxSent : <<"sent", m>> \in s.about => Told(m),
         NEW at \in 0 .. messages, Continues(S, s, at)
  PROVE  /\ Talk /\ ScreensKnown' /\ SameQuestion(sessions'["video"], s)
         /\ \A j \in ConversationKinds \ {"video"} : Closed(sessions'[j])
<1>1. sessions' = Saved(S, "video", s) /\ posed' = posed + 1
  BY DEF Continues
<1>2. /\ Talks(sessions') /\ SameQuestion(sessions'["video"], s)
      /\ \A j \in ConversationKinds \ {"video"} : Closed(sessions'[j])
  BY <1>1, KindNames, TalksSaved
<1>3. Talk
  BY <1>1, <1>2, TalkOpens
<1>4. ScreensKnown'
  <2>1. PICK is \in ScreenKinds : is = s.step
    BY Fields, StepNames
  <2>2. PICK d \in 0 .. DraftLimit : d = s.draft
    BY Fields
  <2>3. PICK rev \in Nat : rev = NewRev("video")
    BY <1>2, KindNames, Fields DEF NewRev, Talks
  <2>4. PICK binds \in BOOLEAN : binds <=> s.step \in ScheduleSteps
    OBVIOUS
  <2>5. ShowsOf(is, at, d, rev, s, binds)
    <3>1. binds = (s.step \in ScheduleSteps)
      BY <2>4
    <3> QED BY <2>1, <2>2, <2>3, <3>1 DEF Continues
  <2>6. is \in {"card", "more"} \cup ScheduleSteps => d >= 1
    <3>1. is \notin {"card", "more", "none", "asset"} \/ is = "asset"
      BY <2>1, Fields DEF ConversationSteps, EditSteps, WizardSteps, ScheduleSteps
    <3>2. "asset" \notin {"card", "more"} \cup ScheduleSteps
      BY DEF ScheduleSteps
    <3> QED BY <2>1, <2>2, <3>1, <3>2 DEF Fits, VideoFits
  <2>7. rev = sessions'[desk].rev /\ Subject(sessions'[desk]) = [about |-> s.about, sel |-> s.sel]
    BY <1>2, <2>3 DEF NewRev, SameQuestion, Subject
  <2>8. s.about \in SUBSET Matter /\ s.sel \in SUBSET VideoTargets
    BY Fields
  <2> QED BY <1>3, <2>5, <2>6, <2>7, <2>8, ScreenShown
<1> QED BY <1>2, <1>3, <1>4

LEMMA VideoDesk == ASSUME DeskInv, Alive("video") \/ sessions["intake"].step = "video_locale" PROVE desk = "video"
<1>1. desk \in {"post", "video"} /\ Fits("video", sessions["video"]) /\ Fits("intake", sessions["intake"])
  BY KindNames, SessionIs DEF DeskInv, DeskTyped
<1> QED BY <1>1 DEF Alive, Fits, VideoFits, IntakeFits

LEMMA VideoIs == ASSUME DeskInv PROVE
  /\ Video \in Session /\ Fits("video", Video) /\ Video.step \in ConversationSteps
  /\ Video.draft \in 0 .. DraftLimit /\ Video.sel \in SUBSET VideoTargets /\ Video.about \in SUBSET Matter
  /\ Video.edit \/ Video.step \notin {"none", "asset"} => Video.draft \in 1 .. DraftLimit
<1>1. /\ Video \in Session /\ Fits("video", Video) /\ Video.step \in ConversationSteps
      /\ Video.draft \in 0 .. DraftLimit /\ Video.sel \in SUBSET VideoTargets /\ Video.about \in SUBSET Matter
  BY KindNames, SessionIs DEF Video
<1> QED BY <1>1, CountsSame DEF Fits, VideoFits

\* A question about a draft that carries nothing but its platforms.
Askable(s) == s \in Session /\ Fits("video", s) /\ \A m \in 1 .. MaxSent : <<"sent", m>> \in s.about => Told(m)
LEMMA VideoAsks ==
  ASSUME DeskInv, desk = "video", NEW step \in ConversationSteps, NEW d \in 0 .. DraftLimit,
         NEW sel \in SUBSET VideoTargets, step = "schedule_confirm" => sel = {},
         step \notin {"none", "asset"} => d >= 1
  PROVE  Poses(VideoAt(step, d, sel), step, d, {}, sel) /\ Askable(VideoAt(step, d, sel))
<1>1. Poses(VideoAt(step, d, sel), step, d, {}, sel)
  BY VideoAtIs
<1>2. PICK s : s = VideoAt(step, d, sel)
  OBVIOUS
<1>3. /\ s \in Session /\ s.step = step /\ s.draft = d
      /\ s.about = {} /\ s.sel = sel /\ s.edit = FALSE
  BY <1>1, <1>2 DEF Poses
<1>4. Fits("video", s)
  BY <1>3 DEF Fits, VideoFits
<1>5. Askable(s)
  BY <1>3, <1>4 DEF Askable
<1> QED BY <1>1, <1>2, <1>5

\* Where a result's material comes from, and the question it answers.
Origin(m, k) ==
  /\ m \in 1 .. MaxSent /\ sent' \in {sent, sent + 1} /\ sent' \in 0 .. MaxSent
  /\ Held(m, sessions) \/ (m = sent + 1 /\ sent' = m)
  /\ k \in ConversationKinds /\ sessions[k].step # "none" /\ sessions'[k] # sessions[k]

LEMMA UsedKeeps ==
  ASSUME DeskInv, Moves, Still, Talk, ScreensKnown', ConfirmedIsShown',
         drafts' \in 1 .. DraftLimit, aims' \in [1 .. DraftLimit -> SUBSET VideoTargets],
         NEW m, NEW k, Origin(m, k), ~Held(m, sessions'), Result(m, sessions[k].q)
  PROVE  DeskInv'
<1>1. /\ m \in 1 .. MaxSent /\ m \in 0 .. MaxSent /\ sent' \in {sent, sent + 1} /\ sent' \in 0 .. MaxSent
      /\ k \in ConversationKinds /\ sessions[k].step # "none" /\ sessions'[k] # sessions[k]
  BY CountsSame DEF Origin
<1>2. JustSent(m)
  <2>1. CASE Held(m, sessions)
    BY <1>1, <2>1, FreshHeld DEF Still
  <2>2. CASE m = sent + 1 /\ sent' = m
    <3>1. sent < MaxSent
      BY <1>1, <2>2, CountsSame
    <3> QED BY <2>2, <3>1, FreshSent DEF Still
  <2> QED BY <2>1, <2>2 DEF Origin
<1>3. PICK n \in Nat : n = sessions[k].q
  BY <1>1, SessionIs
<1>4. NowAnswered(n)
  <2>1. OneAtATime => finalizing' = 0
    BY MovesIs DEF Still
  <2> QED BY <1>1, <1>3, <2>1, AskedOf
<1>5. Result(m, n)
  BY <1>3
<1> QED BY <1>1, <1>2, <1>4, <1>5, MoveKeeps

LEMMA StartDraftTalks ==
  ASSUME DeskInv, desk = "video", desk' = desk, NEW S, Talks(S), NEW sel \in SUBSET VideoTargets,
         NEW m, NEW n, NEW at \in 0 .. messages, StartDraft(S, sel, m, n, at)
  PROVE  /\ Talk /\ ScreensKnown' /\ sessions'["video"].step = "script" /\ sessions'["video"].about = {}
         /\ \A j \in ConversationKinds \ {"video"} : Closed(sessions'[j])
         /\ drafts' \in 1 .. DraftLimit /\ aims' \in [1 .. DraftLimit -> SUBSET VideoTargets]
         /\ Result(m, n)
<1>1. drafts + 1 \in 1 .. DraftLimit /\ drafts + 1 \in 0 .. DraftLimit /\ drafts + 1 >= 1 /\ drafts' = drafts + 1
  BY CountsSame DEF StartDraft
<1>2. "script" \in ConversationSteps
  BY StepNames
<1>3. PICK s \in Session : /\ s = VideoAt("script", drafts + 1, sel) /\ s.step = "script" /\ s.about = {}
                           /\ Fits("video", s) /\ \A x \in 1 .. MaxSent : <<"sent", x>> \in s.about => Told(x)
  <2>1. PICK s : s = VideoAt("script", drafts + 1, sel)
    OBVIOUS
  <2>2. Poses(s, "script", drafts + 1, {}, sel) /\ Askable(s)
    BY <1>1, <1>2, <2>1, VideoAsks
  <2> QED BY <2>1, <2>2 DEF Poses, Askable
<1>4. Continues(S, s, at) /\ aims' = [aims EXCEPT ![drafts + 1] = sel] /\ Result(m, n)
  BY <1>3 DEF StartDraft
<1>5. /\ Talk /\ ScreensKnown' /\ SameQuestion(sessions'["video"], s)
      /\ \A j \in ConversationKinds \ {"video"} : Closed(sessions'[j])
  BY <1>3, <1>4, Continued
<1>6. aims' \in [1 .. DraftLimit -> SUBSET VideoTargets]
  BY <1>4, CountsSame
<1> QED BY <1>1, <1>3, <1>4, <1>5, <1>6 DEF SameQuestion

LEMMA StartDraftKeeps ==
  ASSUME DeskInv, desk = "video", Moves, Still, ConfirmedIsShown', NEW S, Talks(S),
         NEW sel \in SUBSET VideoTargets, NEW m, NEW k \in ConversationKinds, sessions[k].step \notin {"none", "script"},
         m \in 1 .. MaxSent, sent' \in {sent, sent + 1}, sent' \in 0 .. MaxSent,
         Held(m, sessions) \/ (m = sent + 1 /\ sent' = m),
         NEW at \in 0 .. messages, StartDraft(S, sel, m, sessions[k].q, at)
  PROVE  DeskInv'
<1>1. desk' = desk
  BY DEF Still
<1>2. /\ Talk /\ ScreensKnown' /\ sessions'["video"].step = "script" /\ sessions'["video"].about = {}
      /\ \A j \in ConversationKinds \ {"video"} : Closed(sessions'[j])
      /\ drafts' \in 1 .. DraftLimit /\ aims' \in [1 .. DraftLimit -> SUBSET VideoTargets]
      /\ Result(m, sessions[k].q)
  BY <1>1, StartDraftTalks
<1>3. ~Held(m, sessions')
  BY <1>2 DEF Held, Closed
<1>4. sessions'[k] # sessions[k]
  BY <1>2 DEF Closed
<1>5. Origin(m, k)
  BY <1>4 DEF Origin
<1> QED BY <1>2, <1>3, <1>5, UsedKeeps

LEMMA AsksLengthKeeps ==
  ASSUME DeskInv, desk = "video", Moves, Still, UNCHANGED <<drafts, aims, confirmed>>, NoResult, NEW S, Talks(S),
         NEW sel \in SUBSET VideoTargets, NEW m \in 1 .. MaxSent, Told(m),
         sent' \in {sent, sent + 1}, sent' \in 0 .. MaxSent,
         NEW at \in 0 .. messages,
         Continues(S, [VideoAt("asset", 0, sel) EXCEPT !.about = {<<"sent", m>>}], at)
  PROVE  DeskInv'
<1>1. PICK a \in Session : a = VideoAt("asset", 0, sel) /\ a.step = "asset" /\ a.edit = FALSE
  <2>1. "asset" \in ConversationSteps /\ 0 \in 0 .. DraftLimit
    BY StepNames, CountsSame
  <2>2. Poses(VideoAt("asset", 0, sel), "asset", 0, {}, sel)
    BY <2>1, VideoAtIs
  <2> QED BY <2>2 DEF Poses
<1>2. PICK s : s = [a EXCEPT !.about = {<<"sent", m>>}]
  OBVIOUS
<1>3. s \in Session /\ s.step = "asset" /\ s.edit = FALSE /\ s.about = {<<"sent", m>>}
  BY <1>1, <1>2, SentMatter DEF Session
<1>4. Fits("video", s)
  BY <1>3 DEF Fits, VideoFits, OneSent
<1>5. \A x \in 1 .. MaxSent : <<"sent", x>> \in s.about => Told(x)
  BY <1>3
<1>6. Continues(S, s, at) /\ desk' = desk
  BY <1>1, <1>2 DEF Still
<1>7. Talk /\ ScreensKnown'
  BY <1>3, <1>4, <1>5, <1>6, Continued
<1>8. ConfirmedIsShown'
  BY DEF DeskInv, ConfirmedIsShown
<1>9. Result(0, 0) /\ 0 \in 0 .. MaxSent
  BY CountsSame DEF NoResult, Result
<1> QED BY <1>7, <1>8, <1>9, CountsSame, MoveKeeps

\* An edit ends with the card.
LEMMA EditEnds ==
  ASSUME DeskInv, desk' = desk, Video.edit, Alive("video"), NEW m, EditAnswered(m)
  PROVE  /\ Talk /\ ScreensKnown' /\ drafts' \in 1 .. DraftLimit
         /\ aims' \in [1 .. DraftLimit -> SUBSET VideoTargets] /\ UNCHANGED <<drafts, aims>>
         /\ ~Held(m, sessions') /\ sessions'["video"] # sessions["video"] /\ sessions["video"].step # "none"
         /\ Result(m, sessions["video"].q)
<1>1. Ends("video") /\ ShowsCard(0, Video.draft) /\ UNCHANGED <<drafts, aims>> /\ sessions["video"].step # "none"
      /\ Result(m, sessions["video"].q)
  BY DEF EditAnswered, Alive, Video
<1>2. Talk /\ Closed(sessions'["video"])
  BY <1>1, KindNames, EndsTalks
<1>3. ~Held(m, sessions')
  BY <1>1, KindNames, EndsAll
<1>4. ScreensKnown'
  <2>1. 0 \in 0 .. messages
    BY DEF DeskInv, ScreensKnown, ScreensTyped
  <2> QED BY <1>1, <1>2, <2>1, VideoIs, ShownCard
<1> QED BY <1>1, <1>2, <1>3, <1>4, CountsSame DEF Closed

LEMMA SendVideoKeeps == ASSUME DeskInv, SendVideo PROVE DeskInv'
<1>1. Arrives /\ Still /\ UNCHANGED confirmed /\ desk = "video" /\ desk' = desk
  BY DEF SendVideo, Still
<1>2. PICK m : m = sent + 1
  OBVIOUS
<1>3. /\ Moves /\ sent' = m /\ m = sent + 1 /\ m \in 1 .. MaxSent /\ sent' \in 0 .. MaxSent /\ Told(m)
      /\ sent' \in {sent, sent + 1} /\ 0 \in 0 .. messages
  BY <1>1, <1>2, ArrivesIs
<1>4. ConfirmedIsShown'
  BY <1>1 DEF DeskInv, ConfirmedIsShown
<1>5. PICK where : where = [Captured("video_locale", m) EXCEPT !.sel = VideoTargets]
  OBVIOUS
<1>6. CASE /\ sessions["intake"].step = "awaiting"
           /\ sessions' = Saved(Saved(sessions, "intake", Captured("choose", m)), "intake", where)
           /\ posed' = posed + 1 /\ ShowsOf("where", 0, 0, 0, where, FALSE)
           /\ NoResult /\ UNCHANGED <<drafts, aims>>
  <2>1. PICK s \in Session : s = Captured("choose", m) /\ s.step = "choose" /\ s.about = {<<"sent", m>>} /\ s.sel = {}
    <3>1. "choose" \in ConversationSteps
      BY StepNames
    <3>2. Poses(Captured("choose", m), "choose", 0, {<<"sent", m>>}, {})
      BY <1>3, <3>1, CapturedIs
    <3> QED BY <3>2 DEF Poses
  <2>2. Fits("intake", s) /\ \A x \in 1 .. MaxSent : <<"sent", x>> \in s.about => Told(x)
    BY <1>3, <2>1 DEF Fits, IntakeFits, OneSent
  <2>3. PICK S : S = Saved(sessions, "intake", s)
    OBVIOUS
  <2>4. Talks(S)
    BY <2>1, <2>2, <2>3, KindNames, TalksStart, TalksSaved
  <2>5. PICK a \in Session : a = Captured("video_locale", m) /\ a.step = "video_locale" /\ a.about = {<<"sent", m>>}
    <3>1. "video_locale" \in ConversationSteps
      BY StepNames
    <3>2. Poses(Captured("video_locale", m), "video_locale", 0, {<<"sent", m>>}, {})
      BY <1>3, <3>1, CapturedIs
    <3> QED BY <3>2 DEF Poses
  <2>6. /\ where \in Session /\ where.step = "video_locale" /\ where.about = {<<"sent", m>>}
        /\ where.sel = VideoTargets
    <3>1. where = [a EXCEPT !.sel = VideoTargets]
      BY <1>5, <2>5
    <3> QED BY <2>5, <3>1 DEF Session
  <2>7. Fits("intake", where) /\ \A x \in 1 .. MaxSent : <<"sent", x>> \in where.about => Told(x)
    BY <1>1, <1>3, <2>6 DEF Fits, IntakeFits, OneSent
  <2>8. sessions' = Saved(S, "intake", where)
    BY <1>6, <2>1, <2>3
  <2>9. Talk
    <3>1. Talks(sessions')
      BY <2>4, <2>6, <2>7, <2>8, KindNames, TalksSaved
    <3> QED BY <1>6, <3>1, TalkOpens
  <2>10. ScreensKnown'
    <3>1. "where" \notin {"asset", "card", "more"} \cup ScheduleSteps
      BY DEF ScheduleSteps
    <3>2. "where" \in ScreenKinds /\ 0 \in 0 .. DraftLimit /\ 0 \in Nat /\ FALSE \in BOOLEAN
      BY StepNames, CountsSame
    <3>3. where.about \in SUBSET Matter /\ where.sel \in SUBSET VideoTargets
      BY <2>6, Fields
    <3> QED BY <1>1, <1>3, <1>6, <2>9, <3>1, <3>2, <3>3, ScreenShown
  <2>11. Result(0, 0) /\ 0 \in 0 .. MaxSent
    BY <1>6, CountsSame DEF NoResult, Result
  <2> QED BY <1>1, <1>3, <1>4, <1>6, <2>9, <2>10, <2>11, CountsSame, MoveKeeps
<1>7. CASE Video.step = "asset" /\ ~Video.edit /\ AttachVideo(sessions, Video.sel, m, Video.q, 0)
  <2>1. Talks(sessions) /\ Video.sel \in SUBSET VideoTargets /\ sessions["video"].step \notin {"none", "script"}
    BY <1>7, TalksStart, VideoIs DEF Video
  <2>2. CASE StartDraft(sessions, Video.sel, m, Video.q, 0)
    BY <1>1, <1>3, <1>4, <2>1, <2>2, KindNames, StartDraftKeeps DEF Video
  <2>3. CASE /\ Continues(sessions, [VideoAt("asset", 0, Video.sel) EXCEPT !.about = {<<"sent", m>>}], 0)
             /\ NoResult /\ UNCHANGED <<drafts, aims>>
    BY <1>1, <1>3, <2>1, <2>3, AsksLengthKeeps
  <2> QED BY <1>7, <2>2, <2>3 DEF AttachVideo
<1>8. CASE Video.step = "asset" /\ Video.edit /\ EditAnswered(m)
  <2>1. Alive("video")
    BY <1>8 DEF Alive, Video
  <2>2. /\ Talk /\ ScreensKnown' /\ drafts' \in 1 .. DraftLimit
        /\ aims' \in [1 .. DraftLimit -> SUBSET VideoTargets]
        /\ ~Held(m, sessions') /\ sessions'["video"] # sessions["video"] /\ sessions["video"].step # "none"
        /\ Result(m, sessions["video"].q)
    BY <1>1, <1>8, <2>1, EditEnds
  <2>3. Origin(m, "video")
    BY <1>3, <2>2, KindNames DEF Origin
  <2> QED BY <1>1, <1>3, <1>4, <2>2, <2>3, UsedKeeps
<1> QED BY <1>2, <1>5, <1>6, <1>7, <1>8 DEF SendVideo

LEMMA TapTargetKeeps == ASSUME DeskInv, NEW s \in screens, NEW t \in VideoTargets, TapTarget(s, t) PROVE DeskInv'
<1>1. /\ Moves /\ Still /\ desk' = desk /\ UNCHANGED <<drafts, sent, aims, confirmed>> /\ NoResult
      /\ sessions["intake"].step = "video_locale"
  BY DEF TapTarget, Still
<1>2. PICK it \in Session : it = sessions["intake"] /\ it.step = "video_locale" /\ Fits("intake", it)
  BY <1>1, KindNames, SessionIs
<1>3. PICK sel : sel = (IF t \in it.sel THEN it.sel \ {t} ELSE it.sel \cup {t})
  OBVIOUS
<1>4. PICK a : a = [it EXCEPT !.sel = sel]
  OBVIOUS
<1>5. /\ Opens("intake", a) /\ ShowsOf("where", s.at, 0, 0, a, FALSE)
  BY <1>2, <1>3, <1>4 DEF TapTarget
<1>6. a \in Session /\ a.step = it.step /\ a.about = it.about /\ a.sel \in SUBSET VideoTargets
  <2>1. it.sel \in SUBSET VideoTargets
    BY Fields
  <2>2. sel \in SUBSET VideoTargets
    BY <1>3, <2>1
  <2> QED BY <1>4, <2>2 DEF Session
<1>7. Fits("intake", a)
  BY <1>2, <1>6 DEF Fits, IntakeFits
<1>8. \A m \in 1 .. MaxSent : <<"sent", m>> \in a.about => Told(m)
  BY <1>2, <1>6, KindNames DEF Told, Held
<1>9. Talk
  BY <1>2, <1>5, <1>6, <1>7, <1>8, KindNames, OpensTalks
<1>10. ScreensKnown'
  <2>1. "where" \notin {"asset", "card", "more"} \cup ScheduleSteps
    BY DEF ScheduleSteps
  <2>2. "where" \in ScreenKinds /\ 0 \in 0 .. DraftLimit /\ 0 \in Nat /\ FALSE \in BOOLEAN
    BY StepNames, CountsSame
  <2>3. a.about \in SUBSET Matter /\ s.at \in 0 .. messages
    BY <1>6, Fields, ScreenIs
  <2> QED BY <1>1, <1>5, <1>6, <1>9, <2>1, <2>2, <2>3, ScreenShown
<1> QED BY <1>1, <1>9, <1>10, TalkMoveKeeps

LEMMA TapLocaleKeeps == ASSUME DeskInv, NEW s \in screens, TapLocale(s) PROVE DeskInv'
<1>1. /\ Moves /\ Still /\ UNCHANGED <<sent, confirmed>> /\ sessions["intake"].step = "video_locale"
  BY DEF TapLocale, Still
<1>2. desk = "video"
  BY <1>1, VideoDesk
<1>3. PICK m \in 1 .. MaxSent : Held(m, sessions) /\ The(sessions["intake"].about) = m
  BY <1>1, IntakeHolds
<1>4. PICK sel \in SUBSET VideoTargets : sel = sessions["intake"].sel
  BY KindNames, SessionIs
<1>5. PICK a \in Session : /\ a = VideoAt("asset", 0, sel) /\ a.step = "asset" /\ Fits("video", a)
                           /\ \A x \in 1 .. MaxSent : <<"sent", x>> \in a.about => Told(x)
  <2>1. "asset" \in ConversationSteps /\ 0 \in 0 .. DraftLimit
    BY StepNames, CountsSame
  <2>2. PICK a : a = VideoAt("asset", 0, sel)
    OBVIOUS
  <2>3. Poses(a, "asset", 0, {}, sel) /\ Askable(a)
    BY <1>2, <2>1, <2>2, VideoAsks
  <2> QED BY <2>2, <2>3 DEF Poses, Askable
<1>6. PICK C : C = Cleared(sessions, "intake")
  OBVIOUS
<1>7. PICK S : S = Saved(C, "video", a)
  OBVIOUS
<1>8. Talks(S)
  <2>1. Talks(C)
    BY <1>6, KindNames, TalksStart, TalksCleared
  <2> QED BY <1>5, <1>7, <2>1, KindNames, TalksSaved
<1>9. AttachVideo(S, sel, m, sessions["intake"].q, s.at)
  BY <1>3, <1>4, <1>5, <1>6, <1>7 DEF TapLocale
<1>10. s.at \in 0 .. messages /\ sent' \in {sent, sent + 1} /\ sent' \in 0 .. MaxSent
  BY <1>1, ScreenIs, CountsSame
<1>11. ConfirmedIsShown'
  BY <1>1 DEF DeskInv, ConfirmedIsShown
<1>12. CASE StartDraft(S, sel, m, sessions["intake"].q, s.at)
  <2>1. sessions["intake"].step \notin {"none", "script"}
    BY <1>1
  <2> QED BY <1>1, <1>2, <1>3, <1>8, <1>10, <1>11, <1>12, <2>1, KindNames, StartDraftKeeps
<1>13. CASE /\ Continues(S, [VideoAt("asset", 0, sel) EXCEPT !.about = {<<"sent", m>>}], s.at)
            /\ NoResult /\ UNCHANGED <<drafts, aims>>
  <2>1. Told(m)
    BY <1>3 DEF Told
  <2> QED BY <1>1, <1>2, <1>8, <1>10, <1>13, <2>1, AsksLengthKeeps
<1> QED BY <1>9, <1>12, <1>13 DEF AttachVideo

\* A screen of the revision that is open shows what the conversation holds.
LEMMA ShowsTheQuestion ==
  ASSUME DeskInv, NEW s \in screens, CurrentRevision(s, desk), s.is \in {"asset"} \cup ScheduleSteps
  PROVE  Subject(s) = Subject(sessions[desk])
BY ScreenIs DEF ScreenFits

LEMMA TapLengthOkKeeps == ASSUME DeskInv, NEW s \in screens, TapLengthOk(s) PROVE DeskInv'
<1>1. /\ Moves /\ Still /\ UNCHANGED sent /\ s.is = "asset" /\ CurrentRevision(s, "video") /\ Alive("video")
      /\ Video.step = "asset" /\ Video.about # {}
      /\ confirmed' = [shown |-> Subject(s), done |-> Subject(Video)]
  BY DEF TapLengthOk, Still, CurrentRevision
<1>2. desk = "video"
  BY <1>1, VideoDesk
<1>3. ConfirmedIsShown'
  <2>1. Subject(s) = Subject(Video)
    BY <1>1, <1>2, ShowsTheQuestion DEF Video
  <2> QED BY <1>1, <2>1 DEF ConfirmedIsShown
<1>4. PICK m \in 1 .. MaxSent : Video.about = {<<"sent", m>>}
  BY <1>1, VideoIs DEF Fits, VideoFits, OneSent
<1>5. The(Video.about) = m /\ Held(m, sessions)
  BY <1>4, KindNames, TheSent DEF Held, Video
<1>6. StartDraft(sessions, Video.sel, m, sessions["video"].q, s.at)
  BY <1>5 DEF TapLengthOk, Video
<1>7. /\ s.at \in 0 .. messages /\ sent' \in {sent, sent + 1} /\ sent' \in 0 .. MaxSent
      /\ sessions["video"].step \notin {"none", "script"} /\ Video.sel \in SUBSET VideoTargets
  BY <1>1, ScreenIs, CountsSame, VideoIs DEF Video
<1> QED BY <1>1, <1>2, <1>3, <1>5, <1>6, <1>7, KindNames, TalksStart, StartDraftKeeps

\* The next question of the wizard.
LEMMA NextAsks ==
  ASSUME DeskInv, desk = "video", Video.step \in WizardSteps \cup {"label"}
  PROVE  \E s \in Session :
           /\ s = VideoAt(NextStep(Video), Video.draft, Video.sel) /\ s.step # "none" /\ s.step # Video.step
           /\ Fits("video", s) /\ \A m \in 1 .. MaxSent : <<"sent", m>> \in s.about => Told(m)
<1>1. NextStep(Video) \in {"youtube", "reels", "schedule_choice"} /\ NextStep(Video) # Video.step
  BY DEF NextStep, WizardSteps
<1>2. PICK step \in ConversationSteps : /\ step = NextStep(Video) /\ step # "schedule_confirm" /\ step # "none"
                                        /\ step # Video.step
  BY <1>1 DEF ConversationSteps, WizardSteps, ScheduleSteps
<1>3. Video.step \notin {"none", "asset"}
  BY DEF WizardSteps
<1>4. Video.draft \in 0 .. DraftLimit /\ Video.draft >= 1 /\ Video.sel \in SUBSET VideoTargets
  BY <1>3, VideoIs
<1>5. PICK d \in 0 .. DraftLimit, sel \in SUBSET VideoTargets : d = Video.draft /\ d >= 1 /\ sel = Video.sel
  BY <1>4
<1>6. PICK s : s = VideoAt(step, d, sel)
  OBVIOUS
<1>7. Poses(s, step, d, {}, sel) /\ Askable(s)
  BY <1>2, <1>5, <1>6, VideoAsks
<1>8. s.step = step /\ s \in Session /\ Fits("video", s) /\ \A m \in 1 .. MaxSent : <<"sent", m>> \in s.about => Told(m)
  BY <1>7 DEF Poses, Askable
<1> QED BY <1>2, <1>5, <1>6, <1>8

LEMMA WizardGoesOn ==
  ASSUME DeskInv, desk = "video", desk' = desk, Video.step \in WizardSteps \cup {"label"}, NEW at \in 0 .. messages,
         Continues(sessions, VideoAt(NextStep(Video), Video.draft, Video.sel), at)
  PROVE  Talk /\ ScreensKnown' /\ sessions'["video"] # sessions["video"] /\ sessions["video"].step # "none"
<1>1. PICK s \in Session :
        /\ s = VideoAt(NextStep(Video), Video.draft, Video.sel) /\ s.step # "none" /\ s.step # Video.step
        /\ Fits("video", s) /\ \A m \in 1 .. MaxSent : <<"sent", m>> \in s.about => Told(m)
  BY NextAsks
<1>2. Talk /\ ScreensKnown' /\ SameQuestion(sessions'["video"], s)
  BY <1>1, TalksStart, Continued
<1> QED BY <1>1, <1>2 DEF SameQuestion, Video, WizardSteps

LEMMA TypeTextKeeps == ASSUME DeskInv, TypeText PROVE DeskInv'
<1>1. /\ Moves /\ Still /\ UNCHANGED <<sent, confirmed>> /\ desk = "video" /\ desk' = desk
      /\ Video.step \in WizardSteps \cup {"label"}
  BY DEF TypeText, Still
<1>2. ConfirmedIsShown'
  BY <1>1 DEF DeskInv, ConfirmedIsShown
<1>3. CASE Video.edit
  <2>1. EditAnswered(0) /\ Alive("video")
    BY <1>1, <1>3 DEF TypeText, Alive, Video, WizardSteps
  <2>2. /\ Talk /\ ScreensKnown' /\ UNCHANGED <<drafts, aims>> /\ sessions'["video"] # sessions["video"]
        /\ sessions["video"].step # "none" /\ Result(0, sessions["video"].q)
    BY <1>1, <1>3, <2>1, EditEnds
  <2> QED BY <1>1, <1>2, <2>2, KindNames, AnswerMoveKeeps
<1>4. CASE ~Video.edit
  <2>1. /\ Result(0, sessions["video"].q) /\ UNCHANGED <<drafts, aims>>
        /\ Continues(sessions, VideoAt(NextStep(Video), Video.draft, Video.sel), 0)
    BY <1>4 DEF TypeText, Video
  <2>2. 0 \in 0 .. messages
    BY DEF DeskInv, ScreensKnown, ScreensTyped
  <2>3. Talk /\ ScreensKnown' /\ sessions'["video"] # sessions["video"] /\ sessions["video"].step # "none"
    BY <1>1, <2>1, <2>2, WizardGoesOn
  <2> QED BY <1>1, <1>2, <2>1, <2>3, KindNames, AnswerMoveKeeps
<1> QED BY <1>3, <1>4

LEMMA TapSkipKeeps == ASSUME DeskInv, NEW s \in screens, TapSkip(s) PROVE DeskInv'
<1>1. /\ Moves /\ Still /\ UNCHANGED <<drafts, sent, aims, confirmed>> /\ desk' = desk /\ Alive("video")
      /\ Video.step = "script" /\ Result(0, sessions["video"].q)
      /\ Continues(sessions, VideoAt(NextStep(Video), Video.draft, Video.sel), 0)
  BY DEF TapSkip, Still, CurrentRevision, Video
<1>2. desk = "video" /\ Video.step \in WizardSteps \cup {"label"} /\ 0 \in 0 .. messages
  BY <1>1, VideoDesk DEF WizardSteps, DeskInv, ScreensKnown, ScreensTyped
<1>3. Talk /\ ScreensKnown' /\ sessions'["video"] # sessions["video"] /\ sessions["video"].step # "none"
  BY <1>1, <1>2, WizardGoesOn
<1>4. ConfirmedIsShown'
  BY <1>1 DEF DeskInv, ConfirmedIsShown
<1> QED BY <1>1, <1>3, <1>4, KindNames, AnswerMoveKeeps

\* A question about a draft, asked from one of its screens.
LEMMA AsksKeeps ==
  ASSUME DeskInv, desk = "video", Moves, Still, UNCHANGED <<drafts, sent, aims, confirmed>>, NoResult,
         NEW step \in ConversationSteps, NEW d \in 0 .. DraftLimit, NEW sel \in SUBSET VideoTargets,
         step = "schedule_confirm" => sel = {}, step \notin {"none", "asset"}, d >= 1,
         NEW at \in 0 .. messages, Continues(sessions, VideoAt(step, d, sel), at)
  PROVE  DeskInv'
<1>1. PICK s \in Session :
        /\ s = VideoAt(step, d, sel) /\ s.step # "none"
        /\ Fits("video", s) /\ \A m \in 1 .. MaxSent : <<"sent", m>> \in s.about => Told(m)
  <2>1. PICK s : s = VideoAt(step, d, sel)
    OBVIOUS
  <2>2. Poses(s, step, d, {}, sel) /\ Askable(s)
    BY <2>1, VideoAsks
  <2> QED BY <2>1, <2>2 DEF Poses, Askable
<1>2. Talk /\ ScreensKnown'
  BY <1>1, TalksStart, Continued DEF Still
<1> QED BY <1>2, TalkMoveKeeps

LEMMA TapMetaBackKeeps == ASSUME DeskInv, NEW s \in screens, TapMetaBack(s) PROVE DeskInv'
<1>1. /\ Moves /\ Still /\ UNCHANGED <<drafts, sent, aims, confirmed>> /\ NoResult /\ Alive("video")
      /\ Video.step = "reels" /\ Continues(sessions, VideoAt("youtube", Video.draft, Video.sel), s.at)
  BY DEF TapMetaBack, Still, CurrentRevision
<1>2. desk = "video" /\ Video.draft \in 0 .. DraftLimit /\ Video.draft >= 1 /\ Video.sel \in SUBSET VideoTargets
  BY <1>1, VideoDesk, VideoIs
<1>3. s.at \in 0 .. messages
  BY ScreenIs
<1>4. "youtube" \in ConversationSteps
  BY DEF ConversationSteps, WizardSteps
<1> QED BY <1>1, <1>2, <1>3, <1>4, AsksKeeps

LEMMA TapEditVideoKeeps ==
  ASSUME DeskInv, NEW s \in screens, NEW step \in WizardSteps \cup {"label", "asset"}, TapEditVideo(s, step)
  PROVE  DeskInv'
<1>1. /\ Moves /\ Still /\ UNCHANGED <<drafts, sent, aims, confirmed>> /\ NoResult /\ desk = "video"
      /\ desk' = desk /\ s.is = "card"
  BY DEF TapEditVideo, Still
<1>2. s.at \in 0 .. messages /\ s.draft \in 1 .. DraftLimit /\ s.draft \in 0 .. DraftLimit
  BY <1>1, ScreenIs
<1>3. PICK sel \in SUBSET VideoTargets : sel = aims[s.draft]
  BY <1>2, CountsSame
<1>4. step \in ConversationSteps /\ step # "none" /\ step # "schedule_confirm"
  BY StepNames DEF WizardSteps
<1>5. PICK v \in Session : /\ v = VideoAt(step, s.draft, sel) /\ v.step = step /\ v.draft = s.draft /\ v.about = {}
  <2>1. PICK d \in 0 .. DraftLimit, e \in ConversationSteps : d = s.draft /\ e = step
    BY <1>2, <1>4
  <2>2. Poses(VideoAt(e, d, sel), e, d, {}, sel)
    BY VideoAtIs
  <2> QED BY <2>1, <2>2 DEF Poses
<1>6. PICK a : a = [v EXCEPT !.edit = TRUE]
  OBVIOUS
<1>7. a \in Session /\ a.step = step /\ a.draft = s.draft /\ a.about = {}
  BY <1>5, <1>6 DEF Session
<1>8. Fits("video", a)
  BY <1>1, <1>2, <1>4, <1>7 DEF Fits, VideoFits
<1>9. Opens("video", a)
  BY <1>3, <1>5, <1>6 DEF TapEditVideo
<1>10. Talk
  BY <1>4, <1>7, <1>8, <1>9, KindNames, OpensTalks
<1>11. ScreensKnown'
  BY <1>1, <1>2, <1>10, KindNames, PromptShown DEF TapEditVideo
<1> QED BY <1>1, <1>10, <1>11, TalkMoveKeeps

LEMMA TapScheduleKeeps == ASSUME DeskInv, NEW s \in screens, TapSchedule(s) PROVE DeskInv'
<1>1. /\ Moves /\ Still /\ UNCHANGED <<drafts, sent, aims, confirmed>> /\ NoResult /\ desk = "video"
      /\ s.is = "card" \/ s.is = "schedule_confirm"
  BY DEF TapSchedule, Still
<1>2. s.at \in 0 .. messages /\ s.draft \in 1 .. DraftLimit /\ s.draft \in 0 .. DraftLimit /\ s.draft >= 1
  <2>1. s.is \in {"card", "more"} \cup ScheduleSteps
    BY <1>1 DEF ScheduleSteps
  <2> QED BY <2>1, ScreenIs, CountsSame
<1>3. PICK sel \in SUBSET VideoTargets : sel = aims[s.draft]
  BY <1>2, CountsSame
<1>4. "schedule_choice" \in ConversationSteps /\ "schedule_target" \in ConversationSteps
      /\ "schedule_confirm" \in ConversationSteps
  BY StepNames DEF ScheduleSteps
<1>5. CASE Continues(sessions, VideoAt("schedule_choice", s.draft, aims[s.draft]), s.at)
  BY <1>1, <1>2, <1>3, <1>4, <1>5, AsksKeeps
<1>6. CASE \E t \in aims[s.draft] : Continues(sessions, VideoAt("schedule_target", s.draft, {t}), s.at)
  <2>1. PICK t \in sel : Continues(sessions, VideoAt("schedule_target", s.draft, {t}), s.at)
    BY <1>3, <1>6
  <2>2. {t} \in SUBSET VideoTargets
    BY <1>3
  <2> QED BY <1>1, <1>2, <1>4, <2>1, <2>2, AsksKeeps
<1>7. CASE Continues(sessions, Asking("schedule_confirm", s.draft), s.at)
  <2>1. Asking("schedule_confirm", s.draft) = VideoAt("schedule_confirm", s.draft, {})
    <3>1. PICK a \in Session : a = Asking("schedule_confirm", s.draft) /\ a.sel = {}
      <4>1. Poses(Asking("schedule_confirm", s.draft), "schedule_confirm", s.draft, {}, {})
        BY <1>2, <1>4, AskingIs
      <4> QED BY <4>1 DEF Poses
    <3>2. [a EXCEPT !.sel = {}] = a
      BY <3>1 DEF Session
    <3> QED BY <3>1, <3>2 DEF VideoAt
  <2>2. {} \in SUBSET VideoTargets
    OBVIOUS
  <2> QED BY <1>1, <1>2, <1>4, <1>7, <2>1, <2>2, AsksKeeps
<1> QED BY <1>5, <1>6, <1>7 DEF TapSchedule

LEMMA TapModeKeeps == ASSUME DeskInv, NEW s \in screens, TapMode(s) PROVE DeskInv'
<1>1. /\ Moves /\ Still /\ UNCHANGED <<drafts, sent, aims, confirmed>> /\ NoResult /\ Alive("video")
      /\ s.is = "schedule_choice"
  BY DEF TapMode, Still, OnStep, CurrentRevision
<1>2. s.at \in 0 .. messages /\ s.draft \in 1 .. DraftLimit /\ s.draft \in 0 .. DraftLimit /\ s.draft >= 1
  <2>1. s.is \in {"card", "more"} \cup ScheduleSteps
    BY <1>1 DEF ScheduleSteps
  <2> QED BY <2>1, ScreenIs, CountsSame
<1>3. PICK sel \in SUBSET VideoTargets : sel = aims[s.draft]
  BY <1>2, CountsSame
<1>4. PICK step \in {"schedule_common", "schedule_target"} : Continues(sessions, VideoAt(step, s.draft, sel), s.at)
  BY <1>3 DEF TapMode
<1>5. step \in ConversationSteps /\ step \notin {"none", "asset", "schedule_confirm"} /\ desk = "video"
  BY <1>1, <1>4, StepNames, VideoDesk DEF ScheduleSteps
<1> QED BY <1>1, <1>2, <1>4, <1>5, AsksKeeps

\* Another time is given, and another platform has it.
LEMMA TimedIs ==
  ASSUME DeskInv, NEW v \in Clock, Video.step \in {"schedule_common", "schedule_target"}
  PROVE  \E s \in Session :
           /\ s = Timed(Video, v) /\ s.step = Video.step /\ s.draft = Video.draft
           /\ s.about = {} => s.sel = {}
           /\ Waiting(s) # {} => s.about # Video.about
           /\ \A m \in 1 .. MaxSent : <<"sent", m>> \in s.about => Told(m)
<1>1. PICK old \in Session : old = Video
  BY VideoIs
<1>2. /\ old.sel \in SUBSET VideoTargets /\ old.about \in SUBSET Matter
      /\ \A m \in 1 .. MaxSent : <<"sent", m>> \in old.about => Told(m)
  BY <1>1, Fields, KindNames DEF Told, Held, Video
<1>3. CASE old.step = "schedule_common"
  <2>1. PICK s : s = [old EXCEPT !.about = old.sel \X {v}]
    OBVIOUS
  <2>2. old.sel \X {v} \in SUBSET Matter
    BY <1>2 DEF Matter
  <2>3. /\ s \in Session /\ s.step = old.step /\ s.draft = old.draft /\ s.sel = old.sel
        /\ s.about = old.sel \X {v}
    BY <2>1, <2>2 DEF Session
  <2>4. s = Timed(Video, v)
    BY <1>1, <1>3, <2>1 DEF Timed
  <2>5. s.about = {} => s.sel = {}
    <3>1. \A t \in s.sel : <<t, v>> \in s.about
      BY <2>3
    <3> QED BY <3>1
  <2>6. Waiting(s) = {}
    BY <2>3 DEF Waiting
  <2>7. \A m \in 1 .. MaxSent : <<"sent", m>> \notin s.about
    BY <1>2, <2>3 DEF VideoTargets
  <2> QED BY <1>1, <2>3, <2>4, <2>5, <2>6, <2>7
<1>4. CASE old.step = "schedule_target"
  <2>1. PICK t \in VideoTargets : t = IF "youtube" \in Waiting(old) THEN "youtube" ELSE "reels"
    BY DEF VideoTargets
  <2>2. PICK s : s = [old EXCEPT !.about = old.about \cup {<<t, v>>}]
    OBVIOUS
  <2>3. old.about \cup {<<t, v>>} \in SUBSET Matter
    BY <1>2 DEF Matter
  <2>4. /\ s \in Session /\ s.step = old.step /\ s.draft = old.draft /\ s.sel = old.sel
        /\ s.about = old.about \cup {<<t, v>>}
    BY <2>2, <2>3 DEF Session
  <2>5. s = Timed(Video, v)
    BY <1>1, <1>4, <2>1, <2>2 DEF Timed
  <2>6. s.about # {}
    BY <2>4
  <2>7. ASSUME Waiting(s) # {} PROVE s.about # Video.about
    <3>1. PICK u \in Waiting(s) : TRUE
      BY <2>7
    <3>2. u \in VideoTargets /\ u \in old.sel /\ \A w \in Clock : <<u, w>> \notin s.about
      BY <1>2, <2>4, <3>1 DEF Waiting
    <3>3. u \in Waiting(old)
      BY <2>4, <3>2 DEF Waiting
    <3>4. t \in Waiting(old)
      BY <2>1, <3>2, <3>3 DEF VideoTargets
    <3>5. <<t, v>> \notin old.about
      BY <3>4 DEF Waiting
    <3> QED BY <1>1, <2>4, <3>5
  <2>8. \A m \in 1 .. MaxSent : <<"sent", m>> \in s.about => <<"sent", m>> \in old.about
    BY <2>4 DEF VideoTargets
  <2> QED BY <1>1, <1>2, <2>4, <2>5, <2>6, <2>7, <2>8
<1> QED BY <1>1, <1>3, <1>4

LEMMA TimeGivenKeeps ==
  ASSUME DeskInv, desk = "video", Moves, Still, ConfirmedIsShown', UNCHANGED <<drafts, sent, aims>>,
         NEW v \in Clock, NEW at \in 0 .. messages, Video.step \in {"schedule_common", "schedule_target"},
         Result(0, Video.q), TimeGiven(v, at)
  PROVE  DeskInv'
<1>1. PICK s \in Session :
        /\ s = Timed(Video, v) /\ s.step = Video.step /\ s.draft = Video.draft
        /\ s.about = {} => s.sel = {}
        /\ Waiting(s) # {} => s.about # Video.about
        /\ \A m \in 1 .. MaxSent : <<"sent", m>> \in s.about => Told(m)
  BY TimedIs
<1>2. desk' = desk /\ Video.draft >= 1 /\ 0 \in 0 .. messages /\ sessions["video"].step # "none"
  BY VideoIs DEF Still, Video, DeskInv, ScreensKnown, ScreensTyped
<1>3. ASSUME NEW q \in Session, q.step # "none", Fits("video", q), q.step # Video.step \/ q.about # Video.about,
             \A m \in 1 .. MaxSent : <<"sent", m>> \in q.about => Told(m),
             NEW place \in 0 .. messages, Continues(sessions, q, place)
      PROVE  DeskInv'
  <2>1. Talk /\ ScreensKnown' /\ SameQuestion(sessions'["video"], q)
    BY <1>2, <1>3, TalksStart, Continued
  <2>2. sessions'["video"] # sessions["video"]
    BY <1>3, <2>1 DEF SameQuestion, Video
  <2>3. Result(0, sessions["video"].q)
    BY DEF Video
  <2> QED BY <1>2, <2>1, <2>2, <2>3, KindNames, AnswerMoveKeeps
<1>4. CASE Waiting(s) # {}
  <2>1. Continues(sessions, s, at)
    BY <1>1, <1>4 DEF TimeGiven
  <2>2. Fits("video", s)
    BY <1>1, <1>2 DEF Fits, VideoFits
  <2> QED BY <1>1, <1>3, <1>4, <2>1, <2>2
<1>5. CASE Waiting(s) = {}
  <2>1. PICK q : q = [s EXCEPT !.step = "schedule_confirm"]
    OBVIOUS
  <2>2. "schedule_confirm" \in ConversationSteps
    BY StepNames DEF ScheduleSteps
  <2>3. q \in Session /\ q.step = "schedule_confirm" /\ q.draft = s.draft /\ q.about = s.about /\ q.sel = s.sel
    BY <2>1, <2>2 DEF Session
  <2>4. Continues(sessions, q, 0)
    BY <1>1, <1>5, <2>1 DEF TimeGiven
  <2>5. Fits("video", q)
    BY <1>1, <1>2, <2>3 DEF Fits, VideoFits
  <2>6. q.step # Video.step
    BY <2>3
  <2> QED BY <1>1, <1>2, <1>3, <2>3, <2>4, <2>5, <2>6
<1> QED BY <1>4, <1>5

LEMMA TapTimeKeeps == ASSUME DeskInv, NEW s \in screens, NEW v \in Clock, TapTime(s, v) PROVE DeskInv'
<1>1. /\ Moves /\ Still /\ UNCHANGED <<drafts, sent, aims>> /\ Alive("video") /\ CurrentRevision(s, "video")
      /\ s.is \in {"schedule_common", "schedule_target"} /\ Video.step = s.is
      /\ confirmed' = [shown |-> Subject(s), done |-> Subject(Video)]
      /\ Result(0, Video.q) /\ TimeGiven(v, s.at)
  BY DEF TapTime, Still, OnStep, CurrentRevision
<1>2. desk = "video" /\ s.at \in 0 .. messages
  BY <1>1, VideoDesk, ScreenIs
<1>3. ConfirmedIsShown'
  <2>1. s.is \in ScheduleSteps
    BY <1>1 DEF ScheduleSteps
  <2>2. Subject(s) = Subject(Video)
    BY <1>1, <1>2, <2>1, ShowsTheQuestion DEF Video
  <2> QED BY <1>1, <2>2 DEF ConfirmedIsShown
<1> QED BY <1>1, <1>2, <1>3, TimeGivenKeeps

LEMMA TypeVideoTimeKeeps == ASSUME DeskInv, NEW v \in Clock, TypeVideoTime(v) PROVE DeskInv'
<1>1. /\ Moves /\ Still /\ UNCHANGED <<drafts, sent, aims>> /\ desk = "video" /\ ConfirmedIsShown'
      /\ Video.step \in {"schedule_common", "schedule_target"}
      /\ Result(0, Video.q) /\ TimeGiven(v, 0)
  BY DEF TypeVideoTime, Still, DeskInv, ConfirmedIsShown
<1>2. 0 \in 0 .. messages
  BY DEF DeskInv, ScreensKnown, ScreensTyped
<1> QED BY <1>1, <1>2, TimeGivenKeeps

LEMMA TapCancelVideoKeeps == ASSUME DeskInv, NEW s \in screens, TapCancelVideo(s) PROVE DeskInv'
<1>1. /\ Moves /\ Still /\ UNCHANGED <<drafts, sent, aims, confirmed>> /\ NoResult /\ Ends("video") /\ ShowsNothing
      /\ desk' = desk
  BY DEF TapCancelVideo, Still
<1>2. Talk
  BY <1>1, KindNames, EndsTalks
<1> QED BY <1>1, <1>2, NothingShown, TalkMoveKeeps

-----------------------------------------------------------------------------
\* Both.

\* The desk is the conversation its screens belong to.
LEMMA DeskKind == ASSUME DeskInv PROVE desk \in ConversationKinds
BY DEF DeskInv, DeskTyped, ConversationKinds

LEMMA TapConfirmKeeps == ASSUME DeskInv, NEW s \in screens, TapConfirm(s) PROVE DeskInv'
<1>1. /\ Moves /\ Still /\ UNCHANGED <<drafts, sent, aims>> /\ desk' = desk /\ CurrentRevision(s, desk)
      /\ s.is = "schedule_confirm" /\ sessions[desk].step = "schedule_confirm"
      /\ confirmed' = [shown |-> Subject(s), done |-> IF s.about = {} THEN Nothing ELSE Subject(sessions[desk])]
      /\ Result(0, sessions[desk].q) /\ Ends(desk)
      /\ \E at \in {0, s.at} : ShowsCard(at, s.draft)
  BY DEF TapConfirm, Still
<1>2. s.is \in ScheduleSteps /\ s.draft \in 1 .. DraftLimit /\ s.at \in 0 .. messages /\ 0 \in 0 .. messages
  <2>1. s.is \in ScheduleSteps
    BY <1>1 DEF ScheduleSteps
  <2> QED BY <2>1, ScreenIs DEF DeskInv, ScreensKnown, ScreensTyped
<1>3. PICK k \in ConversationKinds : k = desk
  BY DeskKind
<1>4. Subject(s) = Subject(sessions[k])
  BY <1>1, <1>2, <1>3, ShowsTheQuestion
<1>5. s.about = {} => Subject(s) = Nothing
  <2>1. Fits(k, sessions[k])
    BY SessionIs
  <2>2. s.about = sessions[k].about /\ s.sel = sessions[k].sel
    BY <1>4 DEF Subject
  <2>3. s.about = {} => s.sel = {}
    BY <1>1, <1>3, <2>1, <2>2 DEF Fits
  <2> QED BY <2>3 DEF Subject, Nothing
<1>6. ConfirmedIsShown'
  <2>1. CASE s.about = {}
    BY <1>1, <1>5, <2>1 DEF ConfirmedIsShown
  <2>2. CASE s.about # {}
    BY <1>1, <1>3, <1>4, <2>2 DEF ConfirmedIsShown
  <2> QED BY <2>1, <2>2
<1>7. Talk /\ Closed(sessions'[k])
  BY <1>1, <1>3, EndsTalks
<1>8. ScreensKnown'
  BY <1>1, <1>2, <1>7, ShownCard
<1>9. sessions[k].step # "none" /\ sessions'[k] # sessions[k] /\ Result(0, sessions[k].q)
  BY <1>1, <1>3, <1>7 DEF Closed
<1> QED BY <1>1, <1>6, <1>7, <1>8, <1>9, AnswerMoveKeeps

LEMMA TapStaleKeeps == ASSUME DeskInv, NEW s \in screens, TapStale(s) PROVE DeskInv'
<1>1. /\ Moves /\ Still /\ UNCHANGED <<drafts, sent, aims, confirmed>> /\ UNCHANGED <<sessions, posed>> /\ NoResult
      /\ desk' = desk /\ ShowsCard(0, s.draft) /\ s.is \in {"card", "more"} \cup ScheduleSteps
  BY DEF TapStale, Still
<1>2. s.draft \in 1 .. DraftLimit /\ 0 \in 0 .. messages
  BY <1>1, ScreenIs DEF DeskInv, ScreensKnown, ScreensTyped
<1>3. Talk
  BY <1>1, StaysTalk
<1> QED BY <1>1, <1>2, <1>3, ShownCard, TalkMoveKeeps

LEMMA TapCancelDialogKeeps == ASSUME DeskInv, NEW s \in screens, TapCancelDialog(s) PROVE DeskInv'
<1>1. /\ Moves /\ Still /\ UNCHANGED <<drafts, sent, aims, confirmed>> /\ NoResult /\ Ends(desk) /\ desk' = desk
      /\ \/ Video.draft # 0 /\ ShowsCard(s.at, Video.draft)
         \/ ShowsNothing
  BY DEF TapCancelDialog, Still
<1>2. Talk
  BY <1>1, DeskKind, EndsTalks
<1>3. ScreensKnown'
  <2>1. CASE Video.draft # 0 /\ ShowsCard(s.at, Video.draft)
    <3>1. Video.draft \in 1 .. DraftLimit
      BY <2>1, VideoIs, CountsSame
    <3> QED BY <1>1, <1>2, <2>1, <3>1, ScreenIs, ShownCard
  <2>2. CASE ShowsNothing
    BY <1>1, <1>2, <2>2, NothingShown
  <2> QED BY <1>1, <2>1, <2>2
<1> QED BY <1>1, <1>2, <1>3, TalkMoveKeeps

LEMMA TapsKeep == ASSUME DeskInv, NEW s \in screens, Taps(s) PROVE DeskInv'
<1>1. CASE TapKind(s) \/ PublishReviewedArticle(s) \/ TapLeaves(s) \/ TapManualTime(s)
  BY <1>1, TapKindKeeps, PublishReviewedArticleKeeps, TapLeavesKeeps, TapManualTimeKeeps
<1>2. CASE \E step \in EditSteps : TapEdit(s, step)
  BY <1>2, TapEditKeeps
<1>3. CASE \E t \in VideoTargets : TapTarget(s, t)
  BY <1>3, TapTargetKeeps
<1>4. CASE TapLocale(s) \/ TapLengthOk(s) \/ TapSkip(s) \/ TapMetaBack(s)
  BY <1>4, TapLocaleKeeps, TapLengthOkKeeps, TapSkipKeeps, TapMetaBackKeeps
<1>5. CASE \E step \in WizardSteps \cup {"label", "asset"} : TapEditVideo(s, step)
  BY <1>5, TapEditVideoKeeps
<1>6. CASE TapSchedule(s) \/ TapMode(s) \/ TapCancelVideo(s)
  BY <1>6, TapScheduleKeeps, TapModeKeeps, TapCancelVideoKeeps
<1>7. CASE \E v \in Clock : TapTime(s, v)
  BY <1>7, TapTimeKeeps
<1>8. CASE TapConfirm(s) \/ TapStale(s) \/ TapCancelDialog(s)
  BY <1>8, TapConfirmKeeps, TapStaleKeeps, TapCancelDialogKeeps
<1> QED BY <1>1, <1>2, <1>3, <1>4, <1>5, <1>6, <1>7, <1>8 DEF Taps

LEMMA DeskStays == ASSUME DeskInv, UNCHANGED deskVars PROVE DeskInv'
<1>1. albums' \in [1 .. MaxSent -> AlbumRow] /\ \A x \in 1 .. MaxSent : AlbumStays(x)
  BY MovesSame DEF deskVars, AlbumStays
<1> QED BY <1>1, UnderWayKeeps DEF deskVars

LEMMA DeskKept == DeskInv /\ [DeskNext]_deskVars => DeskInv'
<1> SUFFICES ASSUME DeskInv, [DeskNext]_deskVars PROVE DeskInv'
  OBVIOUS
<1>1. CASE OpenIntake \/ CancelIntake \/ SendMaterial \/ SendAnswer \/ AnswerLands \/ SendVideo \/ TypeText
  BY <1>1, OpenIntakeKeeps, CancelIntakeKeeps, SendMaterialKeeps, SendAnswerKeeps, AnswerLandsKeeps,
     SendVideoKeeps, TypeTextKeeps
<1>2. CASE \E v \in Clock : TypeTime(v) \/ TypeVideoTime(v)
  BY <1>2, TypeTimeKeeps, TypeVideoTimeKeeps
<1>3. CASE \E s \in screens : Taps(s)
  BY <1>3, TapsKeep
<1>4. CASE SendAlbum \/ AlbumLands \/ ImportFails \/ DeskRestart
  BY <1>4, SendAlbumKeeps, AlbumLandsKeeps, ImportFailsKeeps, DeskRestartKeeps
<1>5. CASE \E m \in 1 .. MaxSent : ClaimAlbum(m) \/ RecoverClaim(m)
  BY <1>5, ClaimAlbumKeeps, RecoverClaimKeeps
<1>6. CASE \E k \in ConversationKinds : Expires(k)
  BY <1>6, ExpiresKeeps
<1>7. CASE UNCHANGED deskVars
  BY <1>7, DeskStays
<1> QED BY <1>1, <1>2, <1>3, <1>4, <1>5, <1>6, <1>7 DEF DeskNext

LEMMA DeskStart == ASSUME DeskInit PROVE DeskInv
<1>1. PICK begun \in {FALSE, desk = "video"} :
       LET script == [NoSession EXCEPT !.step = "script", !.draft = 1, !.sel = VideoTargets, !.rev = 1, !.q = 1]
           question == [is |-> "script", at |-> 2, draft |-> 1, rev |-> 1, about |-> {}, sel |-> VideoTargets]
       IN /\ sessions = [k \in ConversationKinds |-> IF begun /\ k = "video" THEN script ELSE NoSession]
          /\ screens = {CardScreen(1, 1)} \cup (IF begun THEN {question} ELSE {})
          /\ messages = (IF begun THEN 2 ELSE 1) /\ posed = (IF begun THEN 1 ELSE 0)
  BY DEF DeskInit
<1>2. /\ desk \in {"post", "video"} /\ (begun => desk = "video")
      /\ card = [d \in 1 .. DraftLimit |-> IF d = 1 THEN 1 ELSE 0]
      /\ drafts = 1 /\ sent = 0 /\ handling = NoAnswer
      /\ albums = [m \in 1 .. MaxSent |-> NoAlbum] /\ finalizing = 0
      /\ uses = [m \in 1 .. MaxSent |-> 0] /\ answers = [n \in Questions |-> 0]
      /\ aims = [d \in 1 .. DraftLimit |-> IF d = 1 THEN VideoTargets ELSE {}]
      /\ confirmed = [shown |-> Nothing, done |-> Nothing] /\ moves = 0
  BY DEF DeskInit
<1>3. PICK script : script = [NoSession EXCEPT !.step = "script", !.draft = 1, !.sel = VideoTargets, !.rev = 1, !.q = 1]
  OBVIOUS
<1>4. /\ script.step = "script" /\ script.draft = 1 /\ script.sel = VideoTargets /\ script.rev = 1 /\ script.q = 1
      /\ script.about = {} /\ script.edit = FALSE
  BY <1>3 DEF NoSession
<1>5. MaxSent \in Nat /\ MaxMoves \in Nat /\ AlbumTries \in Nat
      /\ 1 \in 1 .. DraftLimit /\ 0 \in 0 .. DraftLimit /\ 1 \in 0 .. DraftLimit
  BY DeskAssumption DEF DraftLimit
<1>6. script \in Session /\ script.step \in WizardSteps /\ script.step # "schedule_confirm"
  <2>1. "script" \in ConversationSteps /\ "script" \in WizardSteps
    BY StepNames DEF WizardSteps
  <2>2. PICK a \in Session : a = [NoSession EXCEPT !.step = "script"]
    BY <2>1, NoSessionIs DEF Session
  <2>3. PICK b \in Session : b = [a EXCEPT !.draft = 1]
    BY <1>5 DEF Session
  <2>4. PICK c \in Session : c = [b EXCEPT !.sel = VideoTargets]
    BY DEF Session
  <2>5. PICK d \in Session : d = [c EXCEPT !.rev = 1]
    BY DEF Session
  <2>6. PICK e \in Session : e = [d EXCEPT !.q = 1]
    BY DEF Session
  <2>7. script = e
    BY <1>3, <2>2, <2>3, <2>4, <2>5, <2>6
  <2> QED BY <1>4, <2>1, <2>7
<1>7. \A k \in ConversationKinds : sessions[k] = IF begun /\ k = "video" THEN script ELSE NoSession
  BY <1>1, <1>3
<1>8. /\ sessions \in [ConversationKinds -> Session]
      /\ \A k \in ConversationKinds : SessionKnown(sessions[k]) /\ Fits(k, sessions[k])
      /\ OneOpen(sessions) /\ \A m \in 1 .. MaxSent : ~Held(m, sessions)
  <2>1. sessions \in [ConversationKinds -> Session]
    BY <1>1, <1>3, <1>6, NoSessionIs
  <2>2. Closed(NoSession) /\ NoSession.step = "none"
    BY NoSessionIs DEF Closed
  <2>3. begun => SessionKnown(script) /\ Fits("video", script)
    BY <1>1, <1>2, <1>4, <1>6 DEF SessionKnown, Fits, VideoFits, WizardSteps
  <2>4. \A k \in ConversationKinds : SessionKnown(sessions[k]) /\ Fits(k, sessions[k])
    BY <1>7, <2>2, <2>3, FitsOver DEF SessionKnown
  <2>5. OneOpen(sessions)
    BY <1>7, <2>2 DEF OneOpen
  <2>6. \A m \in 1 .. MaxSent : ~Held(m, sessions)
    BY <1>4, <1>7, NoSessionIs DEF Held
  <2> QED BY <2>1, <2>4, <2>5, <2>6
<1>9. NoAlbum \in AlbumRow /\ NoAlbum.st = "none" /\ NoAlbum.tries = 0
      /\ NoAlbum.rev = 0 /\ NoAlbum.q = 0 /\ NoAlbum.step = "none"
  BY NoAlbumIs DEF NoAlbum
<1>10. NoAnswer \in AnswerRow /\ NoAnswer.m = 0 /\ NoAnswer.rev = 0 /\ NoAnswer.q = 0 /\ NoAnswer.step = "none"
  <2>1. 0 \in 0 .. MaxSent
    BY <1>5
  <2> QED BY <1>5, <2>1, StepNames DEF NoAnswer, AnswerRow
<1>11. DeskTyped
  <2>1. aims \in [1 .. DraftLimit -> SUBSET VideoTargets]
    BY <1>2
  <2>2. albums \in [1 .. MaxSent -> AlbumRow] /\ handling \in AnswerRow
    BY <1>2, <1>9, <1>10
  <2>3. uses \in [1 .. MaxSent -> 0 .. 2] /\ answers \in [Questions -> 0 .. 2]
    BY <1>2
  <2>4. posed \in Nat
    BY <1>1
  <2> QED BY <1>2, <1>5, <1>8, <2>1, <2>2, <2>3, <2>4 DEF DeskTyped
<1>12. SessionsKnown /\ SessionsFit
  BY <1>8 DEF SessionsKnown, SessionsFit
<1>13. OpenQuestions
  BY <1>2 DEF OpenQuestions
<1>14. NotSentYet /\ SentHomes
  BY <1>2, <1>8, <1>9, <1>10 DEF SentHomes, Home, NotSentYet, Unsent
<1>15. ASSUME NEW a, a.rev = 0, a.q = 0, a.step = "none" PROVE AnswerFits(a)
  <2>1. \A k \in ConversationKinds : sessions[k].step # "none" => sessions[k].q = 1
    BY <1>4, <1>7, NoSessionIs
  <2>2. sessions["post"] = NoSession
    BY <1>7, KindNames
  <2> QED BY <1>1, <1>15, <2>1, <2>2, NoSessionIs DEF AnswerFits, CurrentRevision, Alive
<1>16. AnswersFit
  BY <1>2, <1>5, <1>9, <1>10, <1>15 DEF AnswersFit
<1>17. ScreensKnown
  <2>1. PICK one : one = [is |-> "card", at |-> 1, draft |-> 1, rev |-> 0, about |-> {}, sel |-> {}]
    OBVIOUS
  <2>2. PICK two : two = [is |-> "script", at |-> 2, draft |-> 1, rev |-> 1, about |-> {}, sel |-> VideoTargets]
    OBVIOUS
  <2>3. "card" \in ScreenKinds /\ "script" \in ScreenKinds
    BY StepNames
  <2>4. one \in Screen /\ two \in Screen
    BY <1>5, <2>1, <2>2, <2>3 DEF Screen
  <2>5. screens = {one} \cup (IF begun THEN {two} ELSE {})
    BY <1>1, <2>1, <2>2 DEF CardScreen
  <2>6. messages = (IF begun THEN 2 ELSE 1)
    BY <1>1
  <2>7. ScreensTyped
    <3>1. one.at = 1 /\ two.at = 2
      BY <2>1, <2>2
    <3>2. messages \in Nat /\ 0 \in 0 .. messages /\ 1 \in 0 .. messages
      BY <2>6
    <3>3. card \in [1 .. DraftLimit -> 0 .. messages]
      BY <1>2, <3>2
    <3>4. \A s \in screens : s.at \in 1 .. messages
      BY <2>5, <2>6, <3>1
    <3> QED BY <2>4, <2>5, <3>2, <3>3, <3>4 DEF ScreensTyped
  <2>8. ScreenFits(one) /\ ScreenFits(two)
    <3>1. one.is = "card" /\ two.is = "script" /\ one.draft = 1 /\ two.draft = 1
      BY <2>1, <2>2
    <3> QED BY <3>1 DEF ScreenFits, ScheduleSteps
  <2> QED BY <2>5, <2>7, <2>8 DEF ScreensKnown
<1>18. ConfirmedIsShown
  BY <1>2 DEF ConfirmedIsShown
<1> QED BY <1>11, <1>12, <1>13, <1>14, <1>16, <1>17, <1>18 DEF DeskInv

\* What the parts of the invariant say.
LEMMA DeskInvHolds == DeskInv =>
  /\ DeskTypeOK /\ ConfirmedIsShown
  /\ OneAtATime => AskedOnce
  /\ RowsGo => TakenOnce
<1> SUFFICES ASSUME DeskInv PROVE DeskTypeOK /\ ConfirmedIsShown /\ (OneAtATime => AskedOnce) /\ (RowsGo => TakenOnce)
  OBVIOUS
<1>1. DeskTypeOK /\ ConfirmedIsShown
  BY DEF DeskInv, DeskTyped, ScreensKnown, ScreensTyped, DeskTypeOK
<1>2. ASSUME RowsGo, NEW m \in 1 .. MaxSent PROVE uses[m] < 2
  <2>1. uses[m] \in 0 .. 2 /\ uses[m] <= 1
    BY <1>2 DEF DeskInv, DeskTyped, SentHomes, Home
  <2> QED BY <2>1
<1>3. ASSUME OneAtATime, NEW n \in Questions PROVE answers[n] < 2
  <2>1. answers[n] \in 0 .. 2 /\ answers[n] <= 1
    BY <1>3 DEF DeskInv, DeskTyped, OpenQuestions
  <2> QED BY <2>1
<1> QED BY <1>1, <1>2, <1>3 DEF AskedOnce, TakenOnce

LEMMA DeskInductive == DeskSpec => []DeskInv
<1>1. DeskInit => DeskInv
  BY DeskStart
<1> QED BY <1>1, DeskKept, PTL DEF DeskSpec

\* Whatever the server does meanwhile, a button does what its own screen said: the revision
\* on the screen is that of the conversation, and then so is what it is about
\* (conversation-sessions.ts, video-actions.ts).
THEOREM ButtonsDoWhatTheyShow == DeskSpec => [](DeskTypeOK /\ ConfirmedIsShown)
BY DeskInductive, DeskInvHolds, PTL

\* While nothing is done beside an import, what the operator was asked has one answer; it
\* takes no more than that (conversation-sessions.ts, post-input-actions.ts).
THEOREM QuestionsAreAnsweredOnce == ASSUME OneAtATime PROVE DeskSpec => []AskedOnce
<1>1. DeskInv => AskedOnce
  BY DeskInvHolds
<1> QED BY <1>1, DeskInductive, PTL

\* While the row of an album goes with the draft it became, what the operator sent goes
\* into one result, even if other updates overlap the import (albums.ts).
THEOREM SentIsTakenOnce == ASSUME RowsGo PROVE DeskSpec => []TakenOnce
<1>1. DeskInv => TakenOnce
  BY DeskInvHolds
<1> QED BY <1>1, DeskInductive, PTL

\* Without the faults the server itself brings, all of them
\* (conversation-sessions.ts, albums.ts, video-actions.ts).
THEOREM DialogsAreKept == ASSUME DeskFaults = {} PROVE DeskSpec => [](DeskTypeOK /\ DialogsHold)
<1>1. OneAtATime /\ RowsGo
  BY DEF OneAtATime, RowsGo
<1>2. DeskInv => DeskTypeOK /\ DialogsHold
  BY <1>1, DeskInvHolds DEF DialogsHold, AnsweredOnce
<1> QED BY <1>2, DeskInductive, PTL

-----------------------------------------------------------------------------
-----------------------------------------------------------------------------
(* The parts side by side *)

\* A behaviour of the workshop is one of each of its parts: the scene's part moves, the
\* others stand still.
LEMMA PartsStart == WorkshopInit =>
  /\ FeedInit /\ StoryInit /\ DeployInit /\ CredentialInit /\ RemoteInit /\ DeskInit
  /\ NoticesInit /\ AdaptersInit /\ BreakerInit
BY DEF WorkshopInit

LEMMA PartsMove == [WorkshopNext]_workshopVars =>
  /\ [FeedNext]_feedVars /\ [StoryNext]_storyVars /\ [DeployNext]_deployVars
  /\ [CredentialNext]_credentialVars /\ [RemoteNext]_remoteVars /\ [DeskNext]_deskVars
  /\ [NoticesNext]_noticeVars /\ [AdaptersNext]_adapterVars /\ [BreakerNext]_breakerVars
BY DEF WorkshopNext, workshopVars

LEMMA PartsBehave == WorkshopSpec =>
  /\ FeedSpec /\ StorySpec /\ DeploySpec /\ CredentialSpec /\ RemoteSpec /\ DeskSpec
  /\ NoticesSpec /\ AdaptersSpec /\ BreakerSpec
BY PartsStart, PartsMove, PTL DEF WorkshopSpec, FeedSpec, StorySpec, DeploySpec, CredentialSpec, RemoteSpec,
   DeskSpec, NoticesSpec, AdaptersSpec, BreakerSpec

\* Every part keeps its types, whatever its faults.
THEOREM PartsKeepTheirTypes == WorkshopSpec => []WorkshopTypeOK
<1>1. FeedTypeOK /\ StoryTypeOK /\ DeployTypeOK /\ CredentialTypeOK /\ RemoteTypeOK /\ DeskTypeOK
      /\ NoticesTypeOK /\ AdaptersTypeOK /\ BreakerTypeOK => WorkshopTypeOK
  BY DEF WorkshopTypeOK
<1> QED BY <1>1, PartsBehave, EveryFeedFits, StoriesAreTheirOwn, RecordsAreTrue, CredentialsAreTyped,
           RemoteRowsAreTyped, ButtonsDoWhatTheyShow, NoticesAreKept, PlacesSurvive, BreakerIsSound, PTL
=============================================================================
