------------------------------ MODULE Notices ------------------------------
(***************************************************************************)
(* What the operators are told about one publication: its reminders        *)
(* (notifications/jobs.ts), the journal of events (db/repositories/        *)
(* events.ts) and the Telegram consumer that renders an event once         *)
(* (interfaces/telegram/).                                                 *)
(*                                                                         *)
(* The publication has two halves, the languages of a post or the          *)
(* platforms of a video.  An event is reserved before Telegram is called   *)
(* and never sent again; what it says is read when it is reserved.  The    *)
(* texts, the preferences' screens and the keyboards are left out.         *)
(***************************************************************************)
EXTENDS Naturals, Sequences, FiniteSets

CONSTANTS
  Administrators,  \* how many operators; the first owns the publication
  Blocking,        \* operators who blocked the bot
  Horizon,         \* the last moment of the clock
  Lead,            \* reminderMinutes
  ReminderAge,     \* REMINDER_EVENT_MAX_AGE_MS
  OutcomeAge,      \* OUTCOME_EVENT_MAX_AGE_MS
  Cooldown,        \* ALERT_COOLDOWN_SECONDS and that of a video's completion
  PageSize,        \* events read by one cycle of the consumer
  MaxReminders, MaxJournal, MaxActs, MaxKills  \* bounds; two consumers get one event fewer

ASSUME NoticesAssumption ==
  /\ {Administrators, Horizon, PageSize} \subseteq Nat \ {0}
  /\ Blocking \subseteq 1 .. Administrators
  /\ {Lead, ReminderAge, OutcomeAge, Cooldown, MaxReminders, MaxJournal, MaxActs, MaxKills} \subseteq Nat

VARIABLES
  about,      \* "post" or "video"
  theme,      \* what moves: "reminders" or "outcomes"
  clerks,     \* processes whose consumers overlap
  hour,       \* the clock
  plan,       \* [Halves -> time, 0 for none]
  fate,       \* [Halves -> Fates]
  reminders,  \* [ReminderKeys -> Reminder]: studio_notification_jobs
  reminded,   \* administrators with reminders on
  journal,    \* publication_events the consumer reads
  reserved,   \* telegram:event rows of alert_dedup
  desks,      \* [1 .. 2 -> Clerk]: the consumer of each process
  heard,       \* [1 .. MaxJournal -> [Admins -> messages about the event]]
  painted,    \* [Halves -> Fates]: the control card
  promised,   \* [Halves -> time a reminder was asked for, 0 for none]
  unheard,    \* halves that failed, with an event nobody was told of yet
  silent,     \* halves whose last change no event of the consumer announced
  blank,      \* a repaint of the card was lost, and none of the present state followed
  acts, kills

noticeVars == <<about, theme, clerks, hour, plan, fate, reminders, reminded, journal, reserved, desks, heard,
                painted, promised, unheard, silent, blank, acts, kills>>

Admins == 1 .. Administrators
Halves == {1, 2}
Fates == {"waiting", "running", "published", "failed", "in_doubt", "cancelled"}
\* A video's doubt holds its outcome back while the provider is given time.
FinalFates == {"published", "failed", "cancelled"} \cup (IF about = "post" THEN {"in_doubt"} ELSE {})
Later(a, b) == IF a > b THEN a ELSE b

\* A post has one reminder per language, a video one per publication time.
ReminderKeys == 1 .. Later(2, Horizon)
KeyOf(h, at) == IF about = "post" THEN h ELSE at
Reminder == [st: {"none", "queued", "delivered", "cancelled"}, runAt: 0 .. Horizon, at: 0 .. Horizon,
             of: SUBSET Halves, actor: 0 .. Administrators]
NoReminder == [st |-> "none", runAt |-> 0, at |-> 0, of |-> {}, actor |-> 0]

\* "card" stands for the events of a job, which only repaint the card.
EventTypes == {"reminder", "card", "failed", "unresolved", "completed"}
Event == [type: EventTypes, of: SUBSET Halves, at: 0 .. Horizon, born: 0 .. Horizon]
News(type, of) == [type |-> type, of |-> of, at |-> 0, born |-> hour]

Clerk == [page: SUBSET (1 .. MaxJournal), event: 0 .. MaxJournal, next: 1 .. Administrators + 1,
          view: [Halves -> Fates]]
IdleClerk == [page |-> {}, event |-> 0, next |-> 1, view |-> [h \in Halves |-> "waiting"]]

NoticesInit ==
  /\ about \in {"post", "video"} /\ hour = 0
  /\ theme \in {"reminders", "outcomes"}
  /\ clerks \in IF theme = "outcomes" THEN 1 .. 2 ELSE {1}
  /\ fate = [h \in Halves |-> IF theme = "outcomes" /\ h = 2 THEN "published" ELSE "waiting"]
  /\ plan = [h \in Halves |-> 0] /\ painted = fate
  /\ reminders = [k \in ReminderKeys |-> NoReminder] /\ reminded = Admins
  /\ journal = <<>> /\ reserved = {} /\ desks = [p \in 1 .. 2 |-> IdleClerk]
  /\ heard = [e \in 1 .. MaxJournal |-> [a \in Admins |-> 0]]
  /\ promised = [h \in Halves |-> 0] /\ unheard = {} /\ silent = {} /\ blank = FALSE /\ acts = 0 /\ kills = 0

-----------------------------------------------------------------------------
(* The journal: an event of a video's outcome is dropped while one like it *)
(* is recent.                                                              *)
Suppressed(e) ==
  /\ about = "video" /\ e.type \in {"failed", "completed"}
  /\ \E i \in 1 .. Len(journal) : journal[i].type = e.type /\ journal[i].of = e.of
                                  /\ journal[i].born + Cooldown >= hour
Journaled(e) == IF Suppressed(e) THEN <<>> ELSE <<e>>
Record(events) == journal' = journal \o events /\ Len(journal') + clerks <= MaxJournal + 1

Fresh(e, now) == journal[e].born + (IF journal[e].type = "reminder" THEN ReminderAge ELSE OutcomeAge) >= now
Pending == {e \in 1 .. Len(journal) : e \notin reserved /\ Fresh(e, hour)}

Tick ==
  LET expired == {e \in Pending : ~Fresh(e, hour + 1)}
      failures == UNION {journal[e].of : e \in {f \in expired : journal[f].type = "failed"}}
  IN /\ hour < Horizon /\ hour' = hour + 1
     /\ unheard' = unheard \ failures /\ blank' = (blank \/ \E e \in expired : journal[e].type = "card")
     /\ UNCHANGED <<about, theme, clerks, plan, fate, reminders, reminded, journal, reserved, desks, heard,
                    painted, promised, silent, acts, kills>>

-----------------------------------------------------------------------------
(* Reminders. *)
CancelledReminders(rows, mine) ==
  [k \in ReminderKeys |-> IF rows[k].st = "queued" /\ rows[k].actor \in mine
                          THEN [rows[k] EXCEPT !.st = "cancelled"] ELSE rows[k]]

RemindedHalves(p, a) ==
  {h \in Halves : a \in reminded /\ p[h] > hour /\ (about = "post" \/ fate[h] \in {"waiting", "running"})}

\* What is queued is cancelled, then a row is written over for every time to come.
Rescheduled(p, a) ==
  [k \in ReminderKeys |->
     LET of == {h \in RemindedHalves(p, a) : KeyOf(h, p[h]) = k}
         at == p[CHOOSE h \in of : TRUE]
     IN IF of = {} THEN CancelledReminders(reminders, Admins)[k]
        ELSE [st |-> "queued", at |-> at, of |-> of, runAt |-> Later(hour, Later(at, Lead) - Lead),
              actor |-> IF reminders[k].st = "none" THEN a ELSE reminders[k].actor]]

Acts(of) == theme = of /\ acts < MaxActs /\ acts' = acts + 1

Schedule(a, p) ==
  /\ Acts("reminders") /\ \A h \in Halves : IF fate[h] = "waiting" THEN p[h] >= hour ELSE p[h] = plan[h]
  /\ plan' = p
  /\ LET asker == IF about = "video" THEN 1 ELSE a IN
     /\ reminders' = Rescheduled(p, asker)
     /\ promised' = [h \in Halves |-> IF h \in RemindedHalves(p, asker) THEN p[h] ELSE 0]
  /\ UNCHANGED <<about, theme, clerks, hour, fate, reminded, journal, reserved, desks, heard, painted, unheard,
                 silent, blank, kills>>

\* Publishing a video at once replaces its reminders; publishing a post leaves them.
PublishNow ==
  LET now == [h \in Halves |-> IF fate[h] = "waiting" THEN hour ELSE plan[h]] IN
  /\ Acts("reminders") /\ hour > 0 /\ \E h \in Halves : fate[h] = "waiting"
  /\ plan' = now
  /\ reminders' = IF about = "video" THEN Rescheduled(now, 1) ELSE reminders
  /\ promised' = [h \in Halves |-> 0]
  /\ UNCHANGED <<about, theme, clerks, hour, fate, reminded, journal, reserved, desks, heard, painted, unheard,
                 silent, blank, kills>>

CancelPublication ==
  LET held == {h \in Halves : fate[h] = "waiting"} IN
  /\ Acts("reminders") /\ held # {}
  /\ fate' = [h \in Halves |-> IF h \in held THEN "cancelled" ELSE fate[h]]
  /\ plan' = [h \in Halves |-> IF h \in held THEN 0 ELSE plan[h]]
  /\ reminders' = CancelledReminders(reminders, Admins) /\ promised' = [h \in Halves |-> 0]
  /\ silent' = silent \cup held
  /\ UNCHANGED <<about, theme, clerks, hour, reminded, journal, reserved, desks, heard, painted, unheard, blank,
                 kills>>

\* Switching reminders off cancels those the administrator's rows hold.
SwitchReminders(a) ==
  LET off == a \in reminded
      dropped == {k \in ReminderKeys : off /\ reminders[k].st = "queued" /\ reminders[k].actor = a}
  IN /\ Acts("reminders") /\ reminded' = IF off THEN reminded \ {a} ELSE reminded \cup {a}
     /\ reminders' = IF off THEN CancelledReminders(reminders, {a}) ELSE reminders
     /\ promised' = [h \in Halves |-> IF \E k \in dropped : h \in reminders[k].of THEN 0 ELSE promised[h]]
     /\ UNCHANGED <<about, theme, clerks, hour, plan, fate, journal, reserved, desks, heard, painted, unheard,
                    silent, blank, kills>>

\* One transaction: an event that cannot be written leaves the row queued.
Reminded(row, written) == IF written THEN [row EXCEPT !.st = "delivered"] ELSE row

RunNotificationCycle(k, written) ==
  /\ reminders[k].st = "queued" /\ reminders[k].runAt <= hour /\ Len(journal) < MaxReminders
  /\ reminders' = [reminders EXCEPT ![k] = Reminded(@, written)]
  /\ IF written THEN Record(<<[News("reminder", reminders[k].of) EXCEPT !.at = reminders[k].at]>>)
                ELSE UNCHANGED journal
  /\ UNCHANGED <<about, theme, clerks, hour, plan, fate, reminded, reserved, desks, heard, painted, promised,
                 unheard, silent, blank, acts, kills>>

-----------------------------------------------------------------------------
(* Delivery, as far as it is announced. *)
Announce(h, outcome, events, listed) ==
  LET done == outcome \in FinalFates /\ \A g \in Halves \ {h} : fate[g] \in FinalFates
      all == events \o (IF done THEN Journaled(News("completed", {})) ELSE <<>>)
  IN /\ fate' = [fate EXCEPT ![h] = outcome] /\ Record(all)
     /\ silent' = IF listed THEN silent \ {h} ELSE silent \cup {h}
     /\ unheard' = IF \E i \in 1 .. Len(all) : all[i] = News("failed", {h}) THEN unheard \cup {h} ELSE unheard \ {h}
     /\ UNCHANGED <<about, theme, clerks, hour, plan, reminders, reminded, reserved, desks, heard, painted, promised,
                    blank, kills>>

\* Claiming a post's job is announced; claiming a video's is not.
ClaimHalf(h) ==
  /\ fate[h] = "waiting" /\ theme = "outcomes" /\ plan[h] <= hour /\ UNCHANGED acts
  /\ Announce(h, "running", IF about = "post" THEN <<News("card", {h})>> ELSE <<>>, about = "post")

PublishHalf(h) == fate[h] = "running" /\ UNCHANGED acts
                  /\ Announce(h, "published", <<News("card", {h})>>, TRUE)

FailHalf(h) ==
  /\ fate[h] = "running" /\ UNCHANGED acts
  /\ Announce(h, "failed", (IF about = "video" THEN Journaled(News("failed", {h})) ELSE <<>>)
                           \o <<News("card", {h})>>, TRUE)

\* A post's doubt is journaled under a type the consumer does not read.
DoubtHalf(h) ==
  /\ fate[h] = "running" /\ UNCHANGED acts
  /\ Announce(h, "in_doubt", IF about = "video" THEN <<News("card", {h})>> ELSE <<>>, about = "video")

ConfirmHalf(h) == fate[h] = "in_doubt" /\ UNCHANGED acts /\ Announce(h, "published", <<>>, FALSE)

\* The sweep's last attempt at a video nobody can resolve.
GiveUpAsking(h) ==
  /\ about = "video" /\ fate[h] = "in_doubt" /\ \A i \in 1 .. Len(journal) : journal[i].type # "unresolved"
  /\ Record(<<News("unresolved", {h})>>)
  /\ UNCHANGED <<about, theme, clerks, hour, plan, fate, reminders, reminded, reserved, desks, heard, painted,
                 promised, unheard, silent, blank, acts, kills>>

RetryHalf(h) == fate[h] = "failed" /\ Acts("outcomes") /\ Announce(h, "waiting", <<>>, FALSE)

-----------------------------------------------------------------------------
(* The consumer. *)
\* One cycle: a page of what is not yet reserved, oldest first.
Poll(p) ==
  /\ desks[p] = IdleClerk /\ p <= clerks /\ Pending # {}
  /\ desks' = [desks EXCEPT ![p].page =
       {e \in Pending : Cardinality({f \in Pending : f < e}) < PageSize}]
  /\ UNCHANGED <<about, theme, clerks, hour, plan, fate, reminders, reminded, journal, reserved, heard, painted,
                 promised, unheard, silent, blank, acts, kills>>

\* MUTANT: the insert's answer is not looked at.
NeverTaken(e) == FALSE

\* The reservation another process committed first.
Taken(e) == e \in reserved

\* A notice about a target is dropped when the target has moved on.
Moot(e) ==
  \/ journal[e].type = "failed" /\ \E h \in journal[e].of : fate[h] # "failed"
  \/ journal[e].type = "unresolved" /\ \E h \in journal[e].of : fate[h] # "in_doubt"

ClaimEvent(p) ==
  \E e \in desks[p].page : LET rest == [desks[p] EXCEPT !.page = @ \ {e}] IN
     /\ desks[p].event = 0 /\ \A f \in desks[p].page : e <= f
     /\ reserved' = reserved \cup {e}
     /\ desks' = [desks EXCEPT ![p] = IF Taken(e) \/ Moot(e) THEN rest
                                      ELSE [rest EXCEPT !.event = e,
                                            !.view = IF journal[e].type = "card" THEN fate ELSE @]]
     /\ UNCHANGED <<about, theme, clerks, hour, plan, fate, reminders, reminded, journal, heard, painted, promised,
                    unheard, silent, blank, acts, kills>>

Freed(p) == [desks EXCEPT ![p] = [IdleClerk EXCEPT !.page = desks[p].page]]

\* The card is drawn from what was read, unless Telegram refuses the edit.
RefreshCard(p, edited) ==
  /\ desks[p].event # 0 /\ journal[desks[p].event].type = "card"
  /\ painted' = IF edited THEN desks[p].view ELSE painted
  /\ blank' = (~edited \/ (blank /\ desks[p].view # fate)) /\ desks' = Freed(p)
  /\ UNCHANGED <<about, theme, clerks, hour, plan, fate, reminders, reminded, journal, reserved, heard, promised,
                 unheard, silent, acts, kills>>

\* Each administrator in turn; one who cannot be reached does not stop the rest.
Tell(p) ==
  LET e == desks[p].event
      a == desks[p].next
      wanted == a \notin Blocking /\ (journal[e].type # "reminder" \/ a \in reminded)
  IN /\ e # 0 /\ journal[e].type # "card"
     /\ heard' = IF wanted THEN [heard EXCEPT ![e][a] = @ + 1] ELSE heard
     /\ desks' = IF a = Administrators THEN Freed(p) ELSE [desks EXCEPT ![p].next = @ + 1]
     /\ unheard' = IF a = Administrators /\ journal[e].type = "failed" THEN unheard \ journal[e].of ELSE unheard
     /\ UNCHANGED <<about, theme, clerks, hour, plan, fate, reminders, reminded, journal, reserved, painted, promised,
                    silent, blank, acts, kills>>

\* What the process had reserved is never sent.
KillConsumer(p) ==
  LET e == desks[p].event IN
  /\ kills < MaxKills /\ e # 0 /\ kills' = kills + 1
  /\ desks' = [desks EXCEPT ![p] = IdleClerk]
  /\ unheard' = IF journal[e].type = "failed" THEN unheard \ journal[e].of ELSE unheard
  /\ blank' = (blank \/ journal[e].type = "card")
  /\ UNCHANGED <<about, theme, clerks, hour, plan, fate, reminders, reminded, journal, reserved, heard, painted,
                 promised, silent, acts>>

NoticesNext ==
  \/ Tick \/ PublishNow \/ CancelPublication
  \/ \E a \in Admins : SwitchReminders(a) \/ \E p \in [Halves -> 0 .. Horizon] : Schedule(a, p)
  \/ \E k \in ReminderKeys, written \in BOOLEAN : RunNotificationCycle(k, written)
  \/ \E h \in Halves : \/ ClaimHalf(h) \/ PublishHalf(h) \/ FailHalf(h) \/ DoubtHalf(h) \/ ConfirmHalf(h)
                       \/ GiveUpAsking(h) \/ RetryHalf(h)
  \/ \E p \in 1 .. 2 : \/ Poll(p) \/ ClaimEvent(p) \/ Tell(p) \/ KillConsumer(p)
                       \/ \E edited \in BOOLEAN : RefreshCard(p, edited)

NoticesSpec == NoticesInit /\ [][NoticesNext]_noticeVars

-----------------------------------------------------------------------------
\* Types.
NoticesTypeOK ==
  /\ about \in {"post", "video"} /\ theme \in {"reminders", "outcomes"} /\ clerks \in 1 .. 2 /\ hour \in 0 .. Horizon
  /\ plan \in [Halves -> 0 .. Horizon] /\ promised \in [Halves -> 0 .. Horizon]
  /\ fate \in [Halves -> Fates] /\ painted \in [Halves -> Fates]
  /\ reminders \in [ReminderKeys -> Reminder] /\ reminded \subseteq Admins
  /\ Len(journal) <= MaxJournal /\ \A e \in 1 .. Len(journal) : journal[e] \in Event
  /\ reserved \subseteq 1 .. Len(journal) /\ desks \in [1 .. 2 -> Clerk]
  /\ \A e \in 1 .. MaxJournal, a \in Admins : heard[e][a] \in Nat
  /\ unheard \subseteq Halves /\ silent \subseteq Halves /\ blank \in BOOLEAN
  /\ acts \in 0 .. MaxActs /\ kills \in 0 .. MaxKills

InHand(e) == \E p \in 1 .. 2 : desks[p].event = e

\* No administrator gets an event twice, whatever dies and however processes overlap
\* (event-consumer.ts: at-most-once by design).
ToldAtMostOnce == \A e \in 1 .. MaxJournal, a \in Admins : heard[e][a] <= 1

\* A reminder that was asked for is queued for that time or has been journaled
\* (notifications/jobs.ts: claim and emit as one unit).
ReminderKept ==
  \A h \in Halves : promised[h] # 0 =>
    \/ \E k \in ReminderKeys : reminders[k].st = "queued" /\ h \in reminders[k].of
                                /\ reminders[k].at = promised[h]
    \/ \E i \in 1 .. Len(journal) : journal[i].type = "reminder" /\ h \in journal[i].of
                                     /\ journal[i].at = promised[h]

\* A failure that stands and was journaled is told, or is about to be.
FailureIsTold ==
  \A h \in unheard : fate[h] = "failed" =>
    \E e \in 1 .. Len(journal) : /\ journal[e].type = "failed" /\ h \in journal[e].of
                                  /\ (e \in Pending \/ InHand(e))

\* With one process, the card catches up with every change the consumer hears of,
\* unless the last repaint was lost.
CardCatchesUp ==
  (clerks = 1 /\ ~blank /\ \A e \in 1 .. Len(journal) :
                            journal[e].type = "card" => ~(e \in Pending \/ InHand(e)))
    => \A h \in Halves \ silent : painted[h] = fate[h]

\* What the operators are told is told once, of what still stands, and nothing asked
\* for or announced is lost on the way.
NoticesHold == ToldAtMostOnce /\ ReminderKept /\ FailureIsTold /\ CardCatchesUp
=============================================================================
