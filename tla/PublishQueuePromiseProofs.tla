---------------------- MODULE PublishQueuePromiseProofs ----------------------
(***************************************************************************)
(* The queue keeps its promise to the audience: PublishQueue implements    *)
(* DeliveryPromise, for every number of targets, workers, parts, commands  *)
(* and crashes, wherever Kept holds: an adapter that publishes several     *)
(* posts hands back those that went out, or keeps their number with its    *)
(* row and no command drops it; every answer can be read; and no command   *)
(* asks again for what the code cannot account for.  Each of the things    *)
(* Kept leaves out breaks the promise in a run of its own.                 *)
(*                                                                         *)
(* The argument is that the posts of a target are always a prefix of its   *)
(* parts, and that whoever may publish next knows its length: the row that *)
(* waits (RowKnows), the attempt that holds it (HolderKnows) and the one   *)
(* that is at the platform whether or not it still holds it (CallerKnows). *)
(***************************************************************************)
EXTENDS PublishQueueProofs, TLAPS

Staged(t) == Adapter[t] = "staged"

\* What a staged delivery has out survives every command but these: a retry or
\* a resend drops it, and a republication of another target lets a draft be
\* planned again that was cancelled with posts out which no target names.
LeftAlone ==
  /\ Operations \cap {"retry", "resend"} = {}
  /\ "cancel_draft" \notin Operations \/ "republish" \notin Operations

Kept ==
  /\ Operations \cap {"replan_skipped", "resume_from"} = {}
  /\ "unreadable_answer" \notin Faults
  /\ \A t \in Targets : Adapter[t] = "chain" \/ Parts[t] = 1 \/ (Staged(t) /\ LeftAlone)

\* The first n parts of a target are out, and nothing else of it.
Out(shown, t, n) == \A p \in 1 .. Parts[t] : shown[p] = IF p <= n THEN 1 ELSE 0
Undone(shown, t, n) == Out(shown, t, n) /\ n < Parts[t]
\* The target names a post whose row was given up: a claim refuses what follows.
GivenUp(image, rows) == image.ext /\ \E k \in JobIds : rows[k].status = "cancelled"

Waiting == {"queued", "failed"}
RowKnows(shown, image, rows, t, row) ==
  /\ row.status \in Waiting =>
       Undone(shown, t, row.resume) \/ (row.resume = 0 /\ GivenUp(image, rows))
  /\ row.status = "skipped" => Out(shown, t, row.resume)
  /\ (row.status = "publishing" /\ ~MayHaveReachedAudience(row.phase)) => Undone(shown, t, row.resume)
  /\ (row.status \in Superseded \cup {"publishing"} /\ row.resume > 0) =>
       image.ext \/ (Staged(t) /\ shown[1] > 0)
  /\ (row.status \in Superseded \cup {"publishing"} /\ Staged(t)) => row.progress = row.resume

MirrorKnows(shown, image) ==
  /\ image.status = "published" => image.ext
  /\ image.ext => shown[1] > 0

\* No part is out twice, and none without the first.
Once(shown, t) == \A p \in 1 .. Parts[t] : shown[p] <= 1 /\ (shown[p] > 0 => shown[1] > 0)

\* A staged delivery given up part-way with its draft, which nothing wakes: its
\* target may name no post, and the row that was given up says how many are out.
Shelved(t) ==
  Staged(t) /\ draft = "cancelled" /\ Operations \cap {"retry", "resend", "republish"} = {}
TakenBack(t) ==
  Shelved(t) /\ \E i \in JobIds : jobs[t][i].status = "cancelled" /\ jobs[t][i].resume > 0

\* A target with no row to deliver has nothing out that is not accounted for.
ClosedKnows(t) == posted =>
  /\ ((\A i \in JobIds : jobs[t][i].status \in Over) /\ t \notin abandoned)
       => Out(live[t], t, 0) \/ GivenUp(mirror[t], jobs[t]) \/ TakenBack(t)
  /\ (\A i \in JobIds : jobs[t][i].status = "no_row") => Out(live[t], t, 0)
Untouched(t) == (~posted /\ draft # "cancelled") =>
  Out(live[t], t, 0) /\ \A w \in Workers : ~AtPlatform(w, t)

PostsKnown(t) ==
  /\ Once(live[t], t) /\ MirrorKnows(live[t], mirror[t])
  /\ \A i \in JobIds : RowKnows(live[t], mirror[t], jobs[t], t, jobs[t][i])
  /\ ClosedKnows(t) /\ Untouched(t)

ResultKnows(a) ==
  /\ a.pc \in {"claimed", "validate", "prepare"} => a.sent = 0 /\ a.result = "none"
  /\ a.pc = "verify" => a.result # "none"
  /\ a.result = "deferred" => Staged(a.target) /\ a.from + a.sent > 0
  /\ (a.result = "none" /\ Staged(a.target)) => a.sent = 0
  /\ a.result = "ok" => a.from + a.sent = Parts[a.target]
  /\ a.result # "ok" => a.from + a.sent < Parts[a.target]
  /\ a.result \in Refusals => a.sent = 0 /\ (a.from = 0 \/ Staged(a.target))
  /\ a.result = "partial" => a.from + a.sent > 0 /\ ~Staged(a.target)
Held(row, w) == row.status = "publishing" /\ row.lockedBy = w
HolderKnows(t) == \A w \in Workers :
  (InFlight(w, t) /\ Held(jobs[t][attempt[w].id], w)) =>
    /\ Out(live[t], t, attempt[w].from + attempt[w].sent)
    /\ jobs[t][attempt[w].id].resume = attempt[w].from
    /\ ResultKnows(attempt[w])
CallingAt(w, t) == InFlight(w, t) /\ Calling(w)
CallerSees(w, rows, id, asked, left) ==
  /\ \A i \in JobIds : rows[i].status \notin Waiting \cup {"skipped"}
  /\ \A i \in JobIds : rows[i].status = "publishing" => i = id /\ rows[i].lockedBy = w
  /\ asked => rows[id].status # "no_row" /\ (rows[id].status = "cancelled" => left)
CallerKnows(t) == \A w \in Workers : CallingAt(w, t) =>
  /\ Undone(live[t], t, attempt[w].from + attempt[w].sent)
  /\ CallerSees(w, jobs[t], attempt[w].id, posted, t \in abandoned)
OneCaller(t) == \A v, w \in Workers : (CallingAt(w, t) /\ CallingAt(v, t)) => v = w

AttemptsKnow(t) == HolderKnows(t) /\ CallerKnows(t) /\ OneCaller(t)

TargetInv(t) == PostsKnown(t) /\ AttemptsKnow(t)
PromiseInv == \A t \in Targets : TargetInv(t)

\* What the steps are taken from.
Reached == TypeOK /\ PhaseIsNamed /\ RowsAreAsked /\ RowsInv /\ PromiseInv

-----------------------------------------------------------------------------
(* The posts of a target *)

LEMMA PartsType == \A t \in Targets : Parts[t] \in Nat /\ Parts[t] >= 1 /\ 1 \in 1 .. Parts[t]
BY AdapterAssumption

LEMMA NothingOut ==
  ASSUME NEW t \in Targets, NEW shown, \A p \in 1 .. Parts[t] : shown[p] = 0
  PROVE  Out(shown, t, 0) /\ Once(shown, t)
BY PartsType DEF Out, Once

LEMMA SomethingOut ==
  ASSUME NEW t \in Targets, NEW shown, NEW n \in Nat, n > 0, Out(shown, t, n)
  PROVE  shown[1] > 0
BY PartsType DEF Out

\* The next part goes out.
LEMMA OneMore ==
  ASSUME TypeOK, NEW t \in Targets, NEW n \in Nat, Undone(live[t], t, n),
         live' = [live EXCEPT ![t][n + 1] = Copies(@)]
  PROVE  /\ Out(live'[t], t, n + 1) /\ n + 1 \in 1 .. Parts[t]
         /\ live[t][n + 1] = 0 /\ (n > 0 => live[t][n] = 1)
         /\ live' = [live EXCEPT ![t][n + 1] = 1]
         /\ Once(live'[t], t) /\ live'[t][1] > 0
<1>1. Parts[t] \in Nat /\ n + 1 \in 1 .. Parts[t] /\ (n > 0 => n \in 1 .. Parts[t])
  BY PartsType DEF Undone
<1>2. live[t][n + 1] = 0 /\ (n > 0 => live[t][n] = 1)
  BY <1>1 DEF Undone, Out
<1>3. live' = [live EXCEPT ![t][n + 1] = 1]
  BY <1>2 DEF Copies, Least
<1>4. live[t] \in [1 .. Parts[t] -> 0 .. 2] /\ DOMAIN live = Targets
  BY DEF TypeOK
<1>5. \A p \in 1 .. Parts[t] : live'[t][p] = IF p = n + 1 THEN 1 ELSE live[t][p]
  BY <1>1, <1>3, <1>4
<1>6. Out(live'[t], t, n + 1)
  BY <1>1, <1>5 DEF Undone, Out
<1>7. Once(live'[t], t) /\ live'[t][1] > 0
  BY <1>1, <1>6, PartsType DEF Out, Once
<1> QED BY <1>1, <1>2, <1>3, <1>6, <1>7

-----------------------------------------------------------------------------
(* The shapes of a step, on one target *)

\* One row is written where every other one is given up or gone.
LEMMA RowWritten ==
  ASSUME NEW t \in Targets, NEW i \in JobIds, NEW row, jobs'[t] = [jobs[t] EXCEPT ![i] = row],
         jobs[t] \in [JobIds -> Row], \A k \in JobIds : k # i => jobs[t][k].status \in Over,
         posted', row.status # "no_row",
         Once(live'[t], t), MirrorKnows(live'[t], mirror'[t]),
         RowKnows(live'[t], mirror'[t], jobs'[t], t, row),
         row.status = "cancelled" =>
           \/ Out(live'[t], t, 0) \/ mirror'[t].ext \/ t \in abandoned'
           \/ Shelved(t)' /\ row.resume > 0
  PROVE  PostsKnown(t)'
<1>1. \A k \in JobIds : jobs'[t][k] = IF k = i THEN row ELSE jobs[t][k]
  OBVIOUS
<1>2. \A k \in JobIds : RowKnows(live'[t], mirror'[t], jobs'[t], t, jobs'[t][k])
  <2>1. ASSUME NEW k \in JobIds, k # i
        PROVE  RowKnows(live'[t], mirror'[t], jobs'[t], t, jobs'[t][k])
    BY <1>1, <2>1 DEF RowKnows, Over, Waiting, Superseded
  <2> QED BY <1>1, <2>1
<1>3. row.status = "cancelled" =>
        Out(live'[t], t, 0) \/ GivenUp(mirror'[t], jobs'[t]) \/ TakenBack(t)' \/ t \in abandoned'
  BY <1>1 DEF GivenUp, TakenBack
<1>4. ClosedKnows(t)'
  BY <1>1, <1>3 DEF ClosedKnows, Over
<1>5. Untouched(t)'
  BY DEF Untouched
<1> QED BY <1>2, <1>4, <1>5 DEF PostsKnown

\* Attempts go on as they were or end.
SameAttempt(v) ==
  /\ attempt[v] # IdleAttempt
  /\ attempt'[v].pc = attempt[v].pc /\ attempt'[v].target = attempt[v].target
  /\ attempt'[v].id = attempt[v].id /\ attempt'[v].from = attempt[v].from
  /\ attempt'[v].sent = attempt[v].sent /\ attempt'[v].result = attempt[v].result
StayOrEnd(t) == \A v \in Workers : InFlight(v, t)' => SameAttempt(v)
StillHeld(t) == \A i \in JobIds : jobs'[t][i].status = "publishing" =>
  /\ jobs[t][i].status = "publishing" /\ jobs'[t][i].lockedBy = jobs[t][i].lockedBy
  /\ jobs'[t][i].resume = jobs[t][i].resume
\* A caller's row is not offered to another attempt.
Unseen(t) == (\E v \in Workers : CallingAt(v, t) /\ CallingAt(v, t)') =>
  /\ \A i \in JobIds : jobs'[t][i].status \in Waiting \cup {"skipped"} => jobs'[t][i].status = jobs[t][i].status
  /\ posted' =>
       /\ posted
       /\ \A i \in JobIds : jobs'[t][i].status = "no_row" => jobs[t][i].status = "no_row"
       /\ \A i \in JobIds : jobs'[t][i].status = "cancelled" =>
            t \in abandoned' \/ (jobs[t][i].status = "cancelled" /\ t \notin abandoned)

LEMMA AttemptsKept ==
  ASSUME NEW t \in Targets, AttemptsKnow(t), live'[t] = live[t], TypeOK,
         StayOrEnd(t), StillHeld(t), Unseen(t)
  PROVE  AttemptsKnow(t)'
<1>1. \A v \in Workers : InFlight(v, t)' => InFlight(v, t) /\ SameAttempt(v) /\ attempt[v] \in Attempt
  BY DEF StayOrEnd, SameAttempt, InFlight, Idle, TypeOK
<1>2. \A v \in Workers : CallingAt(v, t)' => CallingAt(v, t)
  BY <1>1 DEF CallingAt, Calling, SameAttempt
<1>3. HolderKnows(t)'
  <2> SUFFICES ASSUME NEW w \in Workers, InFlight(w, t)', Held(jobs'[t][attempt'[w].id], w)
               PROVE  /\ Out(live'[t], t, attempt'[w].from + attempt'[w].sent)
                      /\ jobs'[t][attempt'[w].id].resume = attempt'[w].from
                      /\ ResultKnows(attempt'[w])
    BY DEF HolderKnows
  <2>1. SameAttempt(w) /\ InFlight(w, t) /\ attempt[w].id \in JobIds
    BY <1>1 DEF Attempt
  <2>2. Held(jobs[t][attempt[w].id], w) /\ jobs'[t][attempt[w].id].resume = jobs[t][attempt[w].id].resume
    BY <2>1 DEF Held, StillHeld, SameAttempt
  <2>3. /\ Out(live[t], t, attempt[w].from + attempt[w].sent)
        /\ jobs[t][attempt[w].id].resume = attempt[w].from /\ ResultKnows(attempt[w])
    BY <2>1, <2>2 DEF AttemptsKnow, HolderKnows
  <2>4. ResultKnows(attempt'[w])
    BY <2>1, <2>3 DEF SameAttempt, ResultKnows
  <2> QED BY <2>1, <2>2, <2>3, <2>4 DEF SameAttempt
<1>4. CallerKnows(t)'
  <2> SUFFICES ASSUME NEW w \in Workers, CallingAt(w, t)'
               PROVE  /\ Undone(live'[t], t, attempt'[w].from + attempt'[w].sent)
                      /\ CallerSees(w, jobs'[t], attempt'[w].id, posted', t \in abandoned')
    BY DEF CallerKnows
  <2>1. SameAttempt(w) /\ CallingAt(w, t) /\ attempt[w].id \in JobIds
    BY <1>1, <1>2 DEF Attempt, CallingAt
  <2>2. /\ Undone(live[t], t, attempt[w].from + attempt[w].sent)
        /\ CallerSees(w, jobs[t], attempt[w].id, posted, t \in abandoned)
    BY <2>1 DEF AttemptsKnow, CallerKnows
  <2>3. CallerSees(w, jobs'[t], attempt[w].id, posted', t \in abandoned')
    BY <2>1, <2>2 DEF CallerSees, Unseen, StillHeld
  <2> QED BY <2>1, <2>2, <2>3 DEF SameAttempt
<1>5. OneCaller(t)'
  BY <1>2 DEF AttemptsKnow, OneCaller
<1> QED BY <1>3, <1>4, <1>5 DEF AttemptsKnow

\* Nobody is left at the platform, and nobody holds a row.
LEMMA NobodyLeft ==
  ASSUME NEW t \in Targets, \A v \in Workers : ~CallingAt(v, t)',
         \A v \in Workers : InFlight(v, t)' => ~Held(jobs'[t][attempt'[v].id], v)
  PROVE  AttemptsKnow(t)'
BY DEF AttemptsKnow, HolderKnows, CallerKnows, OneCaller

\* A target a step has nothing to do with.
Aside(u) ==
  /\ jobs'[u] = jobs[u] /\ mirror'[u] = mirror[u] /\ live'[u] = live[u]
  /\ posted' = posted /\ (draft' # "cancelled" => draft # "cancelled" \/ posted)
  /\ (u \in abandoned' <=> u \in abandoned)
  /\ Shelved(u) => Shelved(u)'
  /\ StayOrEnd(u)

LEMMA AsideKept ==
  ASSUME TypeOK, NEW u \in Targets, TargetInv(u), Aside(u)
  PROVE  TargetInv(u)'
<1>1. StayOrEnd(u)
  BY DEF Aside
<1>2. AttemptsKnow(u)'
  <2>1. StillHeld(u) /\ Unseen(u)
    BY DEF Aside, StillHeld, Unseen, TargetInv, AttemptsKnow, CallerKnows, CallerSees
  <2> QED BY <1>1, <2>1, AttemptsKept DEF Aside, TargetInv
<1>3. \A v \in Workers : AtPlatform(v, u)' => AtPlatform(v, u)
  BY <1>1 DEF StayOrEnd, SameAttempt, AtPlatform, InFlight, Idle
<1>4. ClosedKnows(u)' /\ Untouched(u)'
  BY <1>3 DEF Aside, TargetInv, PostsKnown, ClosedKnows, TakenBack, Untouched
<1> QED BY <1>2, <1>4 DEF Aside, TargetInv, PostsKnown

-----------------------------------------------------------------------------
(* The steps of an attempt *)

\* A row under delivery is the only open one of its target, and only its
\* holder may be at the platform.
LEMMA HolderAlone ==
  ASSUME Reached, NEW w \in Workers, Holds(w)
  PROVE  LET t == attempt[w].target
             i == attempt[w].id
         IN /\ t \in Targets /\ i \in JobIds /\ InFlight(w, t) /\ Held(jobs[t][i], w) /\ posted
            /\ \A k \in JobIds : k # i => jobs[t][k].status \in Over
            /\ \A v \in Workers : CallingAt(v, t) => v = w
<1> DEFINE t == attempt[w].target
           i == attempt[w].id
<1>1. t \in Targets /\ i \in JobIds /\ InFlight(w, t) /\ Held(jobs[t][i], w)
  BY DEF Reached, TypeOK, Holds, Idle, Attempt, InFlight, Held
<1>2. \A k \in JobIds : k # i => jobs[t][k].status \in Over
  BY <1>1, OneOpen DEF Reached, Held, Over
<1>3. \A v \in Workers : CallingAt(v, t) => v = w
  BY <1>1 DEF Reached, PromiseInv, TargetInv, AttemptsKnow, CallerKnows, CallerSees, Held
<1>4. posted
  BY <1>1 DEF Reached, RowsAreAsked, Rows, HasRow, Held
<1> QED BY <1>1, <1>2, <1>3, <1>4

\* What a call makes appear is the next part, and no row is out of date by it:
\* the caller's own, if it has one still, says that it was called for.
LEMMA Landing ==
  ASSUME Reached, NEW w \in Workers, NEW t \in Targets, CallingAt(w, t), Lands(w),
         jobs'[t] = jobs[t], mirror'[t] = mirror[t], posted' = posted, draft' = draft, abandoned' = abandoned
  PROVE  PostsKnown(t)' /\ \A u \in Targets : u # t => live'[u] = live[u]
<1> DEFINE n == attempt[w].from + attempt[w].sent
           id == attempt[w].id
<1>1. TypeOK /\ TargetInv(t) /\ PostsKnown(t)
  BY DEF Reached, PromiseInv, TargetInv
<1>2. attempt[w] \in Attempt /\ attempt[w].target = t /\ ~Idle(w) /\ attempt[w].pc = "publish"
  BY <1>1 DEF CallingAt, InFlight, Idle, TypeOK, Calling
<1>3. n \in Nat /\ id \in JobIds
  BY <1>2 DEF Attempt
<1>4. Undone(live[t], t, n) /\ CallerSees(w, jobs[t], id, posted, t \in abandoned)
  BY <1>1 DEF TargetInv, AttemptsKnow, CallerKnows
<1>5. live' = [live EXCEPT ![t][n + 1] = Copies(@)]
  BY <1>2 DEF Lands, NextPart, PublishedSoFar
<1>6. Once(live'[t], t) /\ live'[t][1] > 0 /\ \A u \in Targets : u # t => live'[u] = live[u]
  BY <1>1, <1>3, <1>4, <1>5, OneMore DEF TypeOK
<1>7. ASSUME NEW i \in JobIds
      PROVE  RowKnows(live'[t], mirror'[t], jobs'[t], t, jobs'[t][i])
  <2>1. jobs[t][i].status \notin Waiting \cup {"skipped"}
    BY <1>4 DEF CallerSees
  <2>2. jobs[t][i].status = "publishing" => MayHaveReachedAudience(jobs[t][i].phase)
    <3>1. jobs[t][i].status = "publishing" => Holds(w) /\ OwnRow(w) = jobs[t][i]
      BY <1>2, <1>4 DEF CallerSees, Holds, OwnRow
    <3> QED BY <1>2, <3>1 DEF Reached, PhaseIsNamed, MayHaveReachedAudience
  <2>3. RowKnows(live[t], mirror[t], jobs[t], t, jobs[t][i])
    BY <1>1 DEF PostsKnown
  <2> QED BY <1>6, <2>1, <2>2, <2>3 DEF RowKnows
<1>8. MirrorKnows(live'[t], mirror'[t])
  BY <1>1, <1>6 DEF PostsKnown, MirrorKnows
<1>9. ClosedKnows(t)'
  BY <1>3, <1>4 DEF ClosedKnows, CallerSees, Over
<1>10. Untouched(t)'
  <2>1. posted \/ draft = "cancelled"
    BY <1>1, <1>2 DEF PostsKnown, Untouched, CallingAt, AtPlatform
  <2> QED BY <2>1 DEF Untouched
<1> QED BY <1>6, <1>7, <1>8, <1>9, <1>10 DEF PostsKnown

\* A settlement keeps the promise if the row and the target row it writes know
\* what is out.
Settles(w, row, image) ==
  LET t == attempt[w].target IN
  /\ row.status \in Waiting \cup {"skipped", "published", "verification_required"}
  /\ MirrorKnows(live'[t], image)
  /\ row.status \in Waiting => Undone(live'[t], t, row.resume)
  /\ row.status = "skipped" => Out(live'[t], t, row.resume)
  /\ (row.status \in Superseded /\ row.resume > 0) => image.ext \/ (Staged(t) /\ live'[t][1] > 0)
  /\ (row.status \in Superseded /\ Staged(t)) => row.progress = row.resume
LEMMA SettleKeeps ==
  ASSUME Reached, NEW w \in Workers, ~Idle(w), NEW row, NEW image, NEW superseding, NEW refreshing, NEW a,
         Settle(w, row, image, superseding, refreshing), posted' = posted, abandoned' = abandoned,
         attempt' = [attempt EXCEPT ![w] = a],
         a = IdleAttempt \/ a = [attempt[w] EXCEPT !.zombie = TRUE],
         live' = live \/ (Lands(w) /\ Calling(w) /\ a = IdleAttempt),
         Holds(w) => Settles(w, row, image),
         (Holds(w) /\ a # IdleAttempt) => row.status \notin Waiting \cup {"skipped"}
  PROVE  PromiseInv'
<1>0. PICK t \in Targets, i \in JobIds : t = attempt[w].target /\ i = attempt[w].id
  BY DEF Reached, TypeOK, Idle, Attempt
<1>1. attempt[w] \in Attempt /\ InFlight(w, t) /\ TypeOK /\ attempt[w] # IdleAttempt
  BY <1>0 DEF Reached, TypeOK, Idle, InFlight
<1>2. \A v \in Workers : attempt'[v] = IF v = w THEN a ELSE attempt[v]
  BY <1>0, <1>1 DEF TypeOK
<1>3. \A u \in Targets : StayOrEnd(u)
  BY <1>0, <1>1, <1>2 DEF StayOrEnd, SameAttempt, InFlight, Idle, Attempt
<1>4. draft' # "cancelled" => draft # "cancelled"
  BY DEF Settle, Refreshed
<1>5. \A u \in Targets : u # t => live'[u] = live[u]
  BY <1>0, <1>1 DEF Lands, TypeOK
<1>6. \A u \in Targets : u # t => jobs'[u] = jobs[u] /\ mirror'[u] = mirror[u]
  BY <1>0, <1>1 DEF Settle, TypeOK
<1>7. ASSUME NEW u \in Targets, u # t PROVE TargetInv(u)'
  <2>1. Aside(u)
    BY <1>0, <1>3, <1>4, <1>5, <1>6, <1>7 DEF Aside, Shelved
  <2> QED BY <1>0, <1>1, <2>1, AsideKept DEF Reached, PromiseInv
<1>8. AttemptsKnow(t) /\ PostsKnown(t)
  BY <1>0, <1>1 DEF Reached, PromiseInv, TargetInv
<1>9. CASE Holds(w)
  <2>1. /\ Held(jobs[t][i], w) /\ posted /\ posted' /\ \A k \in JobIds : k # i => jobs[t][k].status \in Over
        /\ \A v \in Workers : CallingAt(v, t) => v = w
    BY <1>0, <1>9, HolderAlone
  <2>2. jobs'[t] = [jobs[t] EXCEPT ![i] = row] /\ mirror'[t] = image
    <3>1. jobs[t] \in [JobIds -> Row]
      BY <1>0, <1>1 DEF TypeOK
    <3>2. ClearSuperseded([jobs[t] EXCEPT ![i] = row], i) = [jobs[t] EXCEPT ![i] = row]
      BY <2>1, <3>1 DEF ClearSuperseded, Superseded, Over
    <3> QED BY <1>0, <1>1, <1>9, <3>2 DEF Settle, TypeOK
  <2>3. jobs[t] \in [JobIds -> Row] /\ \A k \in JobIds : jobs'[t][k] = IF k = i THEN row ELSE jobs[t][k]
    BY <1>0, <1>1, <2>2 DEF TypeOK
  <2>4. Once(live'[t], t)
    <3>1. CASE live' = live
      BY <1>0, <1>8, <3>1 DEF PostsKnown
    <3>2. CASE Lands(w) /\ Calling(w)
      <4>1. Undone(live[t], t, attempt[w].from + attempt[w].sent) /\ attempt[w].from + attempt[w].sent \in Nat
        BY <1>0, <1>1, <1>8, <3>2 DEF AttemptsKnow, CallerKnows, CallingAt, Attempt
      <4> QED BY <1>0, <1>1, <3>2, <4>1, OneMore DEF Lands, NextPart, PublishedSoFar
    <3> QED BY <3>1, <3>2
  <2>5. PostsKnown(t)'
    <3>1. RowKnows(live'[t], mirror'[t], jobs'[t], t, row) /\ MirrorKnows(live'[t], mirror'[t])
      BY <1>0, <1>9, <2>2 DEF Settles, RowKnows, Waiting, Superseded
    <3>2. row.status \notin {"no_row", "cancelled"}
      BY <1>0, <1>9 DEF Settles, Waiting
    <3> QED BY <1>0, <1>1, <2>1, <2>2, <2>3, <2>4, <3>1, <3>2, RowWritten
  <2>6. \A k \in JobIds : jobs'[t][k].status # "publishing"
    BY <1>0, <1>9, <2>1, <2>3 DEF Settles, Over, Waiting
  <2>7. CASE live' = live
    <3>1. StillHeld(t)
      BY <2>6 DEF StillHeld
    <3>2. Unseen(t)
      <4> SUFFICES ASSUME NEW v \in Workers, CallingAt(v, t), CallingAt(v, t)'
                   PROVE  row.status \notin {"no_row", "cancelled"} \cup Waiting \cup {"skipped"}
        BY <1>0, <1>8, <2>1, <2>3 DEF Unseen, AttemptsKnow, CallerKnows, CallerSees
      <4>1. v = w /\ a # IdleAttempt
        BY <1>0, <1>1, <1>2, <2>1 DEF CallingAt, InFlight, Idle
      <4> QED BY <1>0, <1>9, <4>1 DEF Settles, Waiting
    <3> QED BY <1>0, <1>1, <1>3, <1>7, <1>8, <2>5, <2>7, <3>1, <3>2, AttemptsKept DEF PromiseInv, TargetInv
  <2>8. CASE a = IdleAttempt
    <3>1. \A v \in Workers : ~CallingAt(v, t)'
      BY <1>0, <1>1, <1>2, <2>1, <2>8 DEF CallingAt, InFlight, Calling, Idle
    <3>2. \A v \in Workers : InFlight(v, t)' => ~Held(jobs'[t][attempt'[v].id], v)
      <4>1. \A v \in Workers : InFlight(v, t)' => attempt'[v].id \in JobIds
        BY <1>0, <1>1, <1>2, <2>8 DEF InFlight, Idle, TypeOK, Attempt
      <4> QED BY <2>6, <4>1 DEF Held
    <3> QED BY <1>0, <1>1, <1>7, <2>5, <3>1, <3>2, NobodyLeft DEF PromiseInv, TargetInv
  <2> QED BY <2>7, <2>8
<1>10. CASE ~Holds(w)
  <2>1. jobs' = jobs /\ mirror' = mirror /\ draft' = draft
    BY <1>0, <1>10 DEF Settle
  <2>2. CASE live' = live
    <3>1. Aside(t)
      BY <1>0, <1>3, <2>1, <2>2 DEF Aside, Shelved
    <3> QED BY <1>0, <1>1, <1>7, <3>1, AsideKept DEF Reached, PromiseInv
  <2>3. CASE Lands(w) /\ Calling(w) /\ a = IdleAttempt
    <3>1. CallingAt(w, t)
      BY <1>0, <1>1, <2>3 DEF CallingAt
    <3>2. PostsKnown(t)'
      BY <1>0, <1>1, <2>1, <2>3, <3>1, Landing
    <3>3. \A v \in Workers : ~CallingAt(v, t)'
      <4>1. \A v \in Workers : CallingAt(v, t)' => CallingAt(v, t) /\ v # w
        BY <1>0, <1>1, <1>2, <2>3 DEF CallingAt, InFlight, Calling, Idle
      <4> QED BY <1>0, <1>8, <3>1, <4>1 DEF AttemptsKnow, OneCaller
    <3>4. \A v \in Workers : InFlight(v, t)' => ~Held(jobs'[t][attempt'[v].id], v)
      <4>1. \A v \in Workers : InFlight(v, t)' => v # w /\ attempt'[v].id \in JobIds
        BY <1>0, <1>1, <1>2, <2>3 DEF InFlight, Idle, TypeOK, Attempt
      <4> QED BY <1>0, <1>8, <2>1, <3>1, <4>1 DEF AttemptsKnow, CallerKnows, CallerSees, Held
    <3> QED BY <1>0, <1>1, <1>7, <3>2, <3>3, <3>4, NobodyLeft DEF PromiseInv, TargetInv
  <2> QED BY <2>2, <2>3
<1> QED BY <1>9, <1>10

\* What a holder and a caller know, of the target of their attempt.
LEMMA HolderFacts ==
  ASSUME Reached, NEW w \in Workers, Holds(w)
  PROVE  LET t == attempt[w].target
         IN /\ Out(live[t], t, attempt[w].from + attempt[w].sent)
            /\ OwnRow(w).resume = attempt[w].from /\ ResultKnows(attempt[w])
            /\ RowKnows(live[t], mirror[t], jobs[t], t, OwnRow(w)) /\ MirrorKnows(live[t], OwnMirror(w))
            /\ OwnRow(w).status = "publishing"
<1> DEFINE t == attempt[w].target
           i == attempt[w].id
<1>1. t \in Targets /\ i \in JobIds /\ InFlight(w, t) /\ Held(jobs[t][i], w)
  BY HolderAlone
<1>2. TargetInv(t)
  BY <1>1 DEF Reached, PromiseInv
<1> QED BY <1>1, <1>2 DEF TargetInv, PostsKnown, AttemptsKnow, HolderKnows, OwnRow, OwnMirror, Held

LEMMA CallerFacts ==
  ASSUME Reached, NEW w \in Workers, Calling(w)
  PROVE  LET t == attempt[w].target
         IN /\ t \in Targets /\ CallingAt(w, t) /\ ~Idle(w)
            /\ Undone(live[t], t, attempt[w].from + attempt[w].sent)
            /\ attempt[w].from + attempt[w].sent \in Nat
<1>1. attempt[w] \in Attempt /\ ~Idle(w)
  BY DEF Reached, TypeOK, Calling, Idle, IdleAttempt
<1>2. attempt[w].target \in Targets /\ CallingAt(w, attempt[w].target)
  BY <1>1 DEF Attempt, CallingAt, InFlight
<1> QED BY <1>1, <1>2 DEF Reached, PromiseInv, TargetInv, AttemptsKnow, CallerKnows, Attempt

LEMMA FailKeeps ==
  ASSUME Reached, NEW w \in Workers, ~Idle(w), NEW class, Fail(w, class),
         posted' = posted, abandoned' = abandoned, live' = live, NEW a, attempt' = [attempt EXCEPT ![w] = a],
         a = IdleAttempt \/ (~Holds(w) /\ a = [attempt[w] EXCEPT !.zombie = TRUE]),
         Holds(w) => Undone(live[attempt[w].target], attempt[w].target, OwnRow(w).resume)
  PROVE  PromiseInv'
<1> DEFINE status == AfterFailure(class, OwnRow(w).attempt)
           row == [Settled(OwnRow(w), status) EXCEPT !.attempt = Spend(@)]
           image == [OwnMirror(w) EXCEPT !.status = status]
<1>1. OwnMirror(w) \in MirrorRow /\ OwnRow(w) \in Row
  BY OwnType DEF Reached
<1>2. status \in {"queued", "failed"}
  BY DEF AfterFailure
<1>3. Settle(w, row, image, TRUE, status = "failed")
  BY DEF Fail
<1> HIDE DEF status
<1>4. row.status = status /\ row.resume = OwnRow(w).resume /\ row.progress = OwnRow(w).progress
  BY <1>1, <1>2 DEF Settled, Unlocked, Row
<1>5. image.status = status /\ image.ext = OwnMirror(w).ext
  BY <1>1, <1>2 DEF MirrorRow
<1> HIDE DEF row, image
<1>6. Holds(w) => Settles(w, row, image)
  <2> SUFFICES ASSUME Holds(w) PROVE Settles(w, row, image)
    OBVIOUS
  <2> DEFINE t == attempt[w].target
  <2>1. RowKnows(live[t], mirror[t], jobs[t], t, OwnRow(w)) /\ MirrorKnows(live[t], OwnMirror(w))
        /\ OwnRow(w).status = "publishing"
    BY HolderFacts
  <2>2. /\ OwnRow(w).resume > 0 => OwnMirror(w).ext \/ (Staged(t) /\ live[t][1] > 0)
        /\ Staged(t) => OwnRow(w).progress = OwnRow(w).resume
    BY <2>1 DEF RowKnows, OwnMirror
  <2>3. MirrorKnows(live[t], image)
    BY <1>2, <1>5, <2>1 DEF MirrorKnows
  <2> QED BY <1>2, <1>4, <1>5, <2>2, <2>3 DEF Settles, Waiting
<1>7. a = IdleAttempt \/ a = [attempt[w] EXCEPT !.zombie = TRUE]
  OBVIOUS
<1>8. (Holds(w) /\ a # IdleAttempt) => row.status \notin Waiting \cup {"skipped"}
  OBVIOUS
<1> QED BY <1>3, <1>6, <1>7, <1>8, SettleKeeps

LEMMA VerificationKeeps ==
  ASSUME Reached, NEW w \in Workers, ~Idle(w), NEW ext \in BOOLEAN,
         RequireVerification(w) \/ ForceVerification(w, ext),
         posted' = posted, abandoned' = abandoned, NEW a, attempt' = [attempt EXCEPT ![w] = a],
         a = IdleAttempt \/ a = [attempt[w] EXCEPT !.zombie = TRUE],
         live' = live \/ (Lands(w) /\ Calling(w) /\ a = IdleAttempt),
         RequireVerification(w) \/ live' = live,
         (Holds(w) /\ ~RequireVerification(w)) =>
           /\ ext => live[attempt[w].target][1] > 0
           /\ OwnRow(w).resume > 0 => ext \/ (Staged(attempt[w].target) /\ live[attempt[w].target][1] > 0)
  PROVE  PromiseInv'
<1> DEFINE row == [Settled(OwnRow(w), "verification_required") EXCEPT !.attempt = Spend(@)]
           image == [OwnMirror(w) EXCEPT !.status = "verification_required"]
           forced == [status |-> "verification_required", ext |-> ext]
           t == attempt[w].target
<1>1. OwnMirror(w) \in MirrorRow /\ OwnRow(w) \in Row
  BY OwnType DEF Reached
<1>2. row.status = "verification_required" /\ row.resume = OwnRow(w).resume
      /\ row.progress = OwnRow(w).progress
  BY <1>1 DEF Settled, Unlocked, Row
<1>3. image.status = "verification_required" /\ image.ext = OwnMirror(w).ext
  BY <1>1 DEF MirrorRow
<1>4. forced.status = "verification_required" /\ forced.ext = ext
  OBVIOUS
<1>5. (Holds(w) /\ a # IdleAttempt) => row.status \notin Waiting \cup {"skipped"}
  BY <1>2 DEF Waiting
<1>6. CASE RequireVerification(w)
  <2>1. Settle(w, row, image, TRUE, TRUE)
    BY <1>6 DEF RequireVerification
  <2> HIDE DEF row, image
  <2>2. Holds(w) => Settles(w, row, image)
    <3> SUFFICES ASSUME Holds(w) PROVE Settles(w, row, image)
      OBVIOUS
    <3>1. RowKnows(live[t], mirror[t], jobs[t], t, OwnRow(w)) /\ MirrorKnows(live[t], OwnMirror(w))
          /\ OwnRow(w).status = "publishing"
      BY HolderFacts
    <3>2. /\ OwnRow(w).resume > 0 => OwnMirror(w).ext \/ (Staged(t) /\ live[t][1] > 0)
          /\ Staged(t) => OwnRow(w).progress = OwnRow(w).resume
      BY <3>1 DEF RowKnows, OwnMirror
    <3>3. live'[t][1] > 0 \/ live'[t] = live[t]
      <4>1. CASE Lands(w) /\ Calling(w)
        <5>1. /\ t \in Targets /\ TypeOK /\ attempt[w].from + attempt[w].sent \in Nat
              /\ Undone(live[t], t, attempt[w].from + attempt[w].sent)
          BY <4>1, CallerFacts DEF Reached
        <5> QED BY <4>1, <5>1, OneMore DEF Lands, NextPart, PublishedSoFar
      <4> QED BY <4>1
    <3>4. MirrorKnows(live'[t], image)
      BY <1>3, <3>1, <3>3 DEF MirrorKnows
    <3> QED BY <1>2, <1>3, <3>2, <3>3, <3>4 DEF Settles, Waiting
  <2> QED BY <1>5, <2>1, <2>2, SettleKeeps
<1>7. CASE ForceVerification(w, ext) /\ ~RequireVerification(w)
  <2>1. Settle(w, row, forced, FALSE, TRUE)
    BY <1>7 DEF ForceVerification
  <2> HIDE DEF row, forced
  <2>2. (Holds(w) /\ Staged(t)) => OwnRow(w).progress = OwnRow(w).resume
    BY HolderFacts DEF RowKnows
  <2>3. Holds(w) => Settles(w, row, forced)
    BY <1>2, <1>4, <1>7, <2>2 DEF Settles, Waiting, MirrorKnows
  <2> QED BY <1>5, <2>1, <2>3, SettleKeeps
<1> QED BY <1>6, <1>7

\* An attempt goes on: it learns something, or enters its next phase.
LEMMA AttemptMoves ==
  ASSUME Reached, NEW w \in Workers, NEW t \in Targets, InFlight(w, t), NEW a \in Attempt,
         a.target = t, a.id = attempt[w].id, a.from = attempt[w].from,
         attempt' = [attempt EXCEPT ![w] = a], posted' = posted, abandoned' = abandoned,
         \A k \in JobIds : /\ jobs'[t][k].status = jobs[t][k].status
                           /\ jobs'[t][k].lockedBy = jobs[t][k].lockedBy
                           /\ jobs'[t][k].resume = jobs[t][k].resume,
         live'[t] = live[t] \/ Calling(w),
         Holds(w) => Out(live'[t], t, a.from + a.sent) /\ ResultKnows(a),
         (a.pc = "publish" /\ a.result = "none") =>
           Undone(live'[t], t, a.from + a.sent) /\ (Calling(w) \/ Holds(w))
  PROVE  AttemptsKnow(t)'
<1>1. TypeOK /\ AttemptsKnow(t) /\ attempt[w] \in Attempt /\ attempt[w].target = t /\ ~Idle(w)
  BY DEF Reached, PromiseInv, TargetInv, InFlight, TypeOK, Idle
<1>2. \A v \in Workers : attempt'[v] = IF v = w THEN a ELSE attempt[v]
  BY <1>1 DEF TypeOK
<1>3. a # IdleAttempt /\ a.id \in JobIds
  BY DEF Attempt, IdleAttempt
<1>4. \A v \in Workers : v # w => (InFlight(v, t)' = InFlight(v, t)) /\ (CallingAt(v, t)' = CallingAt(v, t))
  BY <1>2 DEF InFlight, Idle, CallingAt, Calling
<1>5. \A v \in Workers : InFlight(v, t) => attempt[v].id \in JobIds
  BY <1>1 DEF InFlight, Idle, TypeOK, Attempt
<1>6. \A k \in JobIds, v \in Workers : Held(jobs'[t][k], v) <=> Held(jobs[t][k], v)
  BY DEF Held
<1>7. Holds(w) <=> Held(jobs[t][a.id], w)
  BY <1>1 DEF Holds, Held
<1>8. \A v \in Workers : (Calling(w) \/ Holds(w)) /\ CallingAt(v, t) => v = w
  <2>1. Calling(w) => CallingAt(w, t)
    BY DEF CallingAt
  <2> QED BY <1>1, <2>1, HolderAlone DEF AttemptsKnow, OneCaller
<1>9. \A v \in Workers, k \in JobIds : Calling(w) /\ Held(jobs[t][k], v) => v = w
  <2>1. Calling(w) => CallingAt(w, t)
    BY DEF CallingAt
  <2> QED BY <1>1, <2>1 DEF AttemptsKnow, CallerKnows, CallerSees, Held
<1>10. HolderKnows(t)'
  <2> SUFFICES ASSUME NEW v \in Workers, InFlight(v, t)', Held(jobs'[t][attempt'[v].id], v)
               PROVE  /\ Out(live'[t], t, attempt'[v].from + attempt'[v].sent)
                      /\ jobs'[t][attempt'[v].id].resume = attempt'[v].from
                      /\ ResultKnows(attempt'[v])
    BY DEF HolderKnows
  <2>1. CASE v = w
    <3>1. Held(jobs[t][a.id], w)
      BY <1>2, <1>3, <1>6, <2>1
    <3>2. jobs[t][attempt[w].id].resume = attempt[w].from
      BY <1>1, <3>1 DEF AttemptsKnow, HolderKnows
    <3> QED BY <1>2, <1>3, <1>7, <2>1, <3>1, <3>2
  <2>2. CASE v # w
    <3>1. InFlight(v, t) /\ attempt'[v] = attempt[v] /\ attempt[v].id \in JobIds
      BY <1>2, <1>4, <1>5, <2>2
    <3>2. Held(jobs[t][attempt[v].id], v)
      BY <1>6, <3>1
    <3>3. live'[t] = live[t]
      BY <1>9, <2>2, <3>1, <3>2
    <3> QED BY <1>1, <3>1, <3>2, <3>3 DEF AttemptsKnow, HolderKnows
  <2> QED BY <2>1, <2>2
<1>11. CallerKnows(t)'
  <2> SUFFICES ASSUME NEW v \in Workers, CallingAt(v, t)'
               PROVE  /\ Undone(live'[t], t, attempt'[v].from + attempt'[v].sent)
                      /\ CallerSees(v, jobs'[t], attempt'[v].id, posted', t \in abandoned')
    BY DEF CallerKnows
  <2>1. ASSUME NEW x \in Workers, NEW id \in JobIds, CallerSees(x, jobs[t], id, posted, t \in abandoned)
        PROVE  CallerSees(x, jobs'[t], id, posted', t \in abandoned')
    BY <2>1 DEF CallerSees
  <2>2. CASE v = w
    <3>1. a.pc = "publish" /\ a.result = "none"
      BY <1>2, <2>2 DEF CallingAt, Calling
    <3>2. CASE Calling(w)
      <4>1. CallerSees(w, jobs[t], a.id, posted, t \in abandoned)
        BY <1>1, <3>2 DEF AttemptsKnow, CallerKnows, CallingAt
      <4> QED BY <1>2, <1>3, <2>1, <2>2, <3>1, <4>1
    <3>3. CASE Holds(w)
      <4>1. /\ Held(jobs[t][a.id], w) /\ \A k \in JobIds : k # a.id => jobs[t][k].status \in Over
        BY <1>1, <3>3, HolderAlone
      <4>2. CallerSees(w, jobs[t], a.id, posted, t \in abandoned)
        BY <1>3, <4>1 DEF CallerSees, Held, Over, Waiting
      <4> QED BY <1>2, <1>3, <2>1, <2>2, <3>1, <4>2
    <3> QED BY <3>1, <3>2, <3>3
  <2>3. CASE v # w
    <3>1. CallingAt(v, t) /\ attempt'[v] = attempt[v] /\ attempt[v].id \in JobIds
      BY <1>2, <1>4, <1>5, <2>3 DEF CallingAt
    <3>2. live'[t] = live[t]
      BY <1>8, <2>3, <3>1
    <3> QED BY <1>1, <2>1, <3>1, <3>2 DEF AttemptsKnow, CallerKnows
  <2> QED BY <2>2, <2>3
<1>12. OneCaller(t)'
  <2>1. CallingAt(w, t)' => Calling(w) \/ Holds(w)
    BY <1>2 DEF CallingAt, Calling
  <2> QED BY <1>1, <1>4, <1>8, <2>1 DEF AttemptsKnow, OneCaller
<1> QED BY <1>10, <1>11, <1>12 DEF AttemptsKnow

\* Nothing but attempts changes, and those only end.
LEMMA AllAside ==
  ASSUME Reached, \A u \in Targets : Aside(u)
  PROVE  PromiseInv'
BY AsideKept DEF Reached, PromiseInv

LEMMA EnterPhaseKeeps ==
  ASSUME Reached, Kept, NEW w \in Workers, EnterPhase(w)
  PROVE  PromiseInv'
<1>0. PICK t \in Targets, i \in JobIds : t = attempt[w].target /\ i = attempt[w].id
  BY DEF Reached, TypeOK, EnterPhase, Idle, Attempt
<1>1. Holds(w) /\ TypeOK /\ attempt[w] \in Attempt /\ InFlight(w, t) /\ attempt[w].pc \in Pcs \ {"idle", "verify"}
  BY <1>0 DEF Reached, EnterPhase, TypeOK, Idle, InFlight, Attempt
<1> DEFINE pc == NextPc[attempt[w].pc]
           a == [attempt[w] EXCEPT !.pc = pc]
           row == [jobs[t][i] EXCEPT !.phase = pc]
<1>2. pc \in Pcs \ {"idle", "claimed"} /\ (pc \in {"validate", "prepare", "publish"} <=> attempt[w].pc # "publish")
      /\ (pc = "verify" <=> attempt[w].pc = "publish") /\ (pc = "publish" <=> attempt[w].pc = "prepare")
  BY <1>1 DEF NextPc, Pcs
<1>3. /\ attempt' = [attempt EXCEPT ![w] = a] /\ jobs' = [jobs EXCEPT ![t][i] = row]
      /\ mirror' = mirror /\ draft' = draft /\ posted' = posted /\ live' = live /\ abandoned' = abandoned
      /\ (attempt[w].pc = "publish" <=> attempt[w].result # "none")
  BY <1>0 DEF EnterPhase, studio, ghosts
<1>4. jobs[t] \in [JobIds -> Row] /\ jobs[t][i] \in Row /\ jobs'[t] = [jobs[t] EXCEPT ![i] = row]
  BY <1>1, <1>3 DEF TypeOK
<1>5. row.status = "publishing" /\ row.lockedBy = jobs[t][i].lockedBy /\ row.resume = jobs[t][i].resume /\ row.phase = pc
      /\ row.progress = jobs[t][i].progress
  BY <1>0, <1>1, <1>4 DEF Row, Holds
<1>6. a \in Attempt /\ a.target = t /\ a.id = i /\ a.from = attempt[w].from /\ a.sent = attempt[w].sent
      /\ a.result = attempt[w].result /\ a.pc = pc
  BY <1>0, <1>1, <1>2 DEF Attempt
<1>7. /\ Out(live[t], t, attempt[w].from + attempt[w].sent)
      /\ OwnRow(w).resume = attempt[w].from /\ ResultKnows(attempt[w])
      /\ RowKnows(live[t], mirror[t], jobs[t], t, jobs[t][i]) /\ jobs[t][i].status = "publishing"
  BY <1>0, <1>1, HolderFacts DEF OwnRow
<1>8. /\ posted /\ \A k \in JobIds : k # i => jobs[t][k].status \in Over
  BY <1>0, <1>1, HolderAlone
<1>9. PostsKnown(t) /\ AttemptsKnow(t)
  BY <1>0 DEF Reached, PromiseInv, TargetInv
<1>10. attempt[w].pc # "publish" => attempt[w].sent = 0 /\ attempt[w].result = "none"
  BY <1>1, <1>7 DEF ResultKnows, Pcs
<1>11. attempt[w].from \in Nat /\ attempt[w].sent \in Nat
  BY <1>1 DEF Attempt
<1>12. ResultKnows(a)
  BY <1>0, <1>2, <1>3, <1>6, <1>7, <1>10 DEF ResultKnows, Pcs
<1>13. attempt[w].pc # "publish" => Undone(live[t], t, attempt[w].from)
  BY <1>0, <1>7, <1>10, <1>11 DEF ResultKnows, Undone
<1> HIDE DEF a, row, pc
<1>14. AttemptsKnow(t)'
  <2>1. \A k \in JobIds : /\ jobs'[t][k].status = jobs[t][k].status
                          /\ jobs'[t][k].lockedBy = jobs[t][k].lockedBy
                          /\ jobs'[t][k].resume = jobs[t][k].resume
    BY <1>4, <1>5, <1>7
  <2>2. (a.pc = "publish" /\ a.result = "none") => Undone(live'[t], t, a.from + a.sent)
    BY <1>2, <1>3, <1>6, <1>10, <1>11, <1>13
  <2> QED BY <1>0, <1>1, <1>3, <1>6, <1>7, <1>12, <2>1, <2>2, AttemptMoves
<1>15. PostsKnown(t)'
  <2>1. RowKnows(live'[t], mirror'[t], jobs'[t], t, row)
    <3>1. ~MayHaveReachedAudience(pc) => Undone(live[t], t, row.resume)
      BY <1>0, <1>2, <1>5, <1>7, <1>13 DEF MayHaveReachedAudience, OwnRow
    <3> QED BY <1>3, <1>5, <1>7, <3>1 DEF RowKnows, Waiting, Superseded
  <2> QED BY <1>3, <1>4, <1>5, <1>8, <1>9, <2>1, RowWritten DEF PostsKnown
<1>16. ASSUME NEW u \in Targets, u # t PROVE TargetInv(u)'
  <2>1. \A v \in Workers : InFlight(v, u)' => v # w
    BY <1>1, <1>3, <1>6, <1>16 DEF InFlight, TypeOK
  <2>2. StayOrEnd(u)
    BY <1>1, <1>3, <2>1 DEF StayOrEnd, SameAttempt, InFlight, Idle, TypeOK
  <2>3. Aside(u)
    BY <1>1, <1>3, <1>16, <2>2 DEF Aside, TypeOK, Shelved
  <2> QED BY <1>16, <2>3, AsideKept DEF Reached, PromiseInv
<1> QED BY <1>14, <1>15, <1>16 DEF PromiseInv, TargetInv

\* What an attempt learns from an answer it is still waited for with.
LEMMA LearnKeeps ==
  ASSUME Reached, NEW w \in Workers, Calling(w), NEW a \in Attempt,
         a.pc = "publish", a.target = attempt[w].target, a.id = attempt[w].id, a.from = attempt[w].from,
         attempt' = [attempt EXCEPT ![w] = a],
         jobs' = jobs, mirror' = mirror, draft' = draft, posted' = posted, abandoned' = abandoned,
         live' = live \/ Lands(w),
         Out(live'[attempt[w].target], attempt[w].target, a.from + a.sent), ResultKnows(a)
  PROVE  PromiseInv'
<1>0. PICK t \in Targets : t = attempt[w].target
  BY CallerFacts
<1>1. TypeOK /\ CallingAt(w, t) /\ InFlight(w, t) /\ PostsKnown(t) /\ AttemptsKnow(t)
  BY <1>0, CallerFacts DEF Reached, PromiseInv, TargetInv, CallingAt
<1>2. \A v \in Workers : attempt'[v] = IF v = w THEN a ELSE attempt[v]
  BY <1>1 DEF TypeOK
<1>3. PostsKnown(t)'
  <2>1. CASE Lands(w)
    BY <1>1, <2>1, Landing
  <2>2. CASE live' = live
    <3>1. Untouched(t)'
      <4>1. posted \/ draft = "cancelled"
        BY <1>1 DEF PostsKnown, Untouched, CallingAt, AtPlatform, Calling
      <4> QED BY <4>1 DEF Untouched
    <3>2. ClosedKnows(t)'
      BY <1>1, <2>2 DEF PostsKnown, ClosedKnows, TakenBack, Shelved
    <3> QED BY <1>1, <2>2, <3>1, <3>2 DEF PostsKnown
  <2> QED BY <2>1, <2>2
<1>4. AttemptsKnow(t)'
  <2>1. (a.pc = "publish" /\ a.result = "none") => Undone(live'[t], t, a.from + a.sent)
    BY <1>0 DEF ResultKnows, Undone
  <2> QED BY <1>0, <1>1, <2>1, AttemptMoves
<1>5. ASSUME NEW u \in Targets, u # t PROVE TargetInv(u)'
  <2>1. StayOrEnd(u)
    BY <1>0, <1>2, <1>5 DEF StayOrEnd, SameAttempt, InFlight, Idle
  <2>2. live'[u] = live[u]
    BY <1>0, <1>1, <1>5 DEF Lands, TypeOK
  <2>3. Aside(u)
    BY <2>1, <2>2 DEF Aside, Shelved
  <2> QED BY <1>1, <1>5, <2>3, AsideKept DEF Reached, PromiseInv
<1> QED BY <1>3, <1>4, <1>5 DEF PromiseInv, TargetInv

\* A call nobody waits for any more lands, and its attempt ends.
LEMMA LateLanding ==
  ASSUME Reached, NEW w \in Workers, Calling(w), Lands(w), Retire(w),
         jobs' = jobs, mirror' = mirror, draft' = draft, posted' = posted, abandoned' = abandoned
  PROVE  PromiseInv'
<1>0. PICK t \in Targets : t = attempt[w].target
  BY CallerFacts
<1>1. TypeOK /\ CallingAt(w, t) /\ InFlight(w, t) /\ PostsKnown(t) /\ AttemptsKnow(t)
  BY <1>0, CallerFacts DEF Reached, PromiseInv, TargetInv, CallingAt
<1>2. \A v \in Workers : attempt'[v] = IF v = w THEN IdleAttempt ELSE attempt[v]
  BY <1>1 DEF TypeOK, Retire
<1>3. PostsKnown(t)'
  BY <1>1, Landing
<1>4. \A v \in Workers : InFlight(v, t)' => InFlight(v, t) /\ v # w /\ attempt'[v] = attempt[v]
  BY <1>2 DEF InFlight, Idle
<1>5. \A v \in Workers : ~CallingAt(v, t)'
  BY <1>1, <1>4 DEF CallingAt, Calling, AttemptsKnow, OneCaller
<1>6. \A v \in Workers : InFlight(v, t)' => ~Held(jobs'[t][attempt'[v].id], v)
  <2>1. \A v \in Workers : InFlight(v, t) => attempt[v].id \in JobIds
    BY <1>1 DEF InFlight, Idle, TypeOK, Attempt
  <2> QED BY <1>1, <1>4, <2>1 DEF AttemptsKnow, CallerKnows, CallerSees, Held
<1>7. ASSUME NEW u \in Targets, u # t PROVE TargetInv(u)'
  <2>1. StayOrEnd(u)
    BY <1>2 DEF StayOrEnd, SameAttempt, InFlight, Idle
  <2>2. live'[u] = live[u]
    BY <1>0, <1>1, <1>7 DEF Lands, TypeOK
  <2>3. Aside(u)
    BY <2>1, <2>2 DEF Aside, Shelved
  <2> QED BY <1>1, <1>7, <2>3, AsideKept DEF Reached, PromiseInv
<1> QED BY <1>3, <1>5, <1>6, <1>7, NobodyLeft DEF PromiseInv, TargetInv

LEMMA CallAcceptedKeeps ==
  ASSUME Reached, Kept, NEW w \in Workers, CallAccepted(w)
  PROVE  PromiseInv'
<1> DEFINE t == attempt[w].target
           n == attempt[w].from + attempt[w].sent
           last == NextPart(w) = Parts[t]
           result == IF last THEN "ok" ELSE IF Adapter[t] = "staged" THEN "deferred" ELSE "none"
           a == [attempt[w] EXCEPT !.sent = @ + 1, !.result = result]
<1>1. /\ Calling(w) /\ NextPart(w) <= Parts[t] /\ Lands(w)
      /\ jobs' = jobs /\ mirror' = mirror /\ draft' = draft /\ posted' = posted /\ abandoned' = abandoned
      /\ attempt' = [attempt EXCEPT ![w] =
           IF attempt[w].zombie /\ result # "none" THEN IdleAttempt ELSE a]
  BY DEF CallAccepted, queue, studio, ghosts
<1>2. CASE attempt[w].zombie /\ result # "none"
  BY <1>1, <1>2, LateLanding DEF Retire
<1>3. CASE ~(attempt[w].zombie /\ result # "none")
  <2>1. t \in Targets /\ Undone(live[t], t, n) /\ n \in Nat /\ TypeOK /\ attempt[w] \in Attempt /\ Parts[t] \in Nat
    BY <1>1, CallerFacts, PartsType DEF Reached, TypeOK, Idle
  <2>2. Out(live'[t], t, n + 1)
    BY <1>1, <2>1, OneMore DEF Lands, NextPart, PublishedSoFar
  <2>3. result = IF last THEN "ok" ELSE IF Staged(t) THEN "deferred" ELSE "none"
    BY DEF Staged
  <2> HIDE DEF result, last
  <2>4. a \in Attempt /\ a.pc = "publish" /\ a.target = t /\ a.id = attempt[w].id /\ a.from = attempt[w].from
        /\ a.from + a.sent = n + 1 /\ a.result = IF last THEN "ok" ELSE IF Staged(t) THEN "deferred" ELSE "none"
    <3>1. result \in Results
      BY <2>3 DEF Results
    <3>2. attempt[w].sent + 1 \in Nat /\ attempt[w].from + (attempt[w].sent + 1) = n + 1
      BY <2>1 DEF Attempt
    <3>3. a \in Attempt /\ a.pc = attempt[w].pc /\ a.target = t /\ a.id = attempt[w].id /\ a.from = attempt[w].from
          /\ a.sent = attempt[w].sent + 1 /\ a.result = result
      BY <2>1, <3>1, <3>2 DEF Attempt
    <3> HIDE DEF a, n
    <3> QED BY <1>1, <2>3, <3>2, <3>3 DEF Calling
  <2>5. ResultKnows(a)
    BY <1>1, <2>1, <2>4 DEF ResultKnows, NextPart, PublishedSoFar, Refusals, last
  <2>6. attempt' = [attempt EXCEPT ![w] = a]
    BY <1>1, <1>3
  <2> HIDE DEF a, result, last, n
  <2> QED BY <1>1, <2>2, <2>4, <2>5, <2>6, LearnKeeps
<1> QED BY <1>2, <1>3

LEMMA CallDeclinedKeeps ==
  ASSUME Reached, Kept, NEW w \in Workers, NEW refusal \in Refusals, CallDeclined(w, refusal)
  PROVE  PromiseInv'
<1> DEFINE t == attempt[w].target
           a == [attempt[w] EXCEPT !.result = refusal]
<1>1. /\ Calling(w) /\ attempt[w].sent = 0 /\ (Adapter[t] = "chain" => attempt[w].from = 0)
      /\ jobs' = jobs /\ mirror' = mirror /\ draft' = draft /\ posted' = posted /\ abandoned' = abandoned
      /\ live' = live /\ attempt' = [attempt EXCEPT ![w] = a]
  BY DEF CallDeclined, queue, studio, ghosts
<1>2. t \in Targets /\ Undone(live[t], t, attempt[w].from + attempt[w].sent) /\ attempt[w] \in Attempt
  BY <1>1, CallerFacts DEF Reached, TypeOK, Idle
<1>3. a \in Attempt /\ a.pc = "publish" /\ a.target = t /\ a.id = attempt[w].id /\ a.from = attempt[w].from
      /\ a.sent = attempt[w].sent /\ a.result = refusal
  BY <1>1, <1>2 DEF Attempt, Results, Refusals, Calling
<1>4. a.from \in Nat /\ a.from + a.sent = a.from /\ a.from < Parts[t]
  BY <1>1, <1>2, <1>3 DEF Attempt, Undone
<1>5. a.from = 0 \/ Staged(t)
  <2>1. CASE Adapter[t] = "chain"
    BY <1>1, <1>3, <2>1
  <2>2. CASE Parts[t] = 1
    BY <1>4, <2>2
  <2> QED BY <1>2, <2>1, <2>2 DEF Kept
<1>6. ResultKnows(a)
  BY <1>1, <1>2, <1>3, <1>4, <1>5 DEF ResultKnows, Refusals, Staged, Attempt
<1> HIDE DEF a
<1> QED BY <1>1, <1>2, <1>3, <1>6, LearnKeeps DEF Undone

LEMMA CallRejectedKeeps ==
  ASSUME Reached, Kept, NEW w \in Workers, NEW class \in ErrorClasses, CallRejected(w, class)
  PROVE  PromiseInv'
<1> DEFINE t == attempt[w].target
           n == attempt[w].from + attempt[w].sent
<1>1. Calling(w) /\ Refused(w, class) /\ posted' = posted /\ abandoned' = abandoned /\ live' = live
  BY DEF CallRejected, SettleFrame, ghosts
<1>2. t \in Targets /\ Undone(live[t], t, n) /\ n \in Nat /\ attempt[w] \in Attempt /\ ~Idle(w) /\ TypeOK
  BY <1>1, CallerFacts DEF Reached, TypeOK, Idle
<1>3. CASE attempt[w].zombie
  <2>1. Retire(w) /\ jobs' = jobs /\ mirror' = mirror /\ draft' = draft
    BY <1>1, <1>3 DEF Refused
  <2>2. \A u \in Targets : StayOrEnd(u)
    BY <1>2, <2>1 DEF StayOrEnd, SameAttempt, InFlight, Idle, Retire, TypeOK
  <2> QED BY <1>1, <2>1, <2>2, AllAside DEF Aside, Shelved
<1>4. CASE ~attempt[w].zombie /\ Adapter[t] = "chain" /\ PublishedSoFar(w) > 0
  <2> DEFINE a == [attempt[w] EXCEPT !.result = "partial"]
  <2>1. attempt' = [attempt EXCEPT ![w] = a] /\ jobs' = jobs /\ mirror' = mirror /\ draft' = draft
    BY <1>1, <1>4 DEF Refused
  <2>2. a \in Attempt /\ a.pc = "publish" /\ a.target = t /\ a.id = attempt[w].id /\ a.from = attempt[w].from
        /\ a.sent = attempt[w].sent /\ a.result = "partial"
    BY <1>1, <1>2 DEF Attempt, Results, Calling
  <2>3. ResultKnows(a)
    BY <1>2, <1>4, <2>2 DEF ResultKnows, Refusals, PublishedSoFar, Undone, Staged
  <2> HIDE DEF a
  <2> QED BY <1>1, <1>2, <2>1, <2>2, <2>3, LearnKeeps DEF Undone
<1>5. CASE ~attempt[w].zombie /\ ~(Adapter[t] = "chain" /\ PublishedSoFar(w) > 0)
  <2>1. Fail(w, class) /\ attempt' = [attempt EXCEPT ![w] = IdleAttempt]
    BY <1>1, <1>5 DEF Refused, Retire
  <2>2. n = 0 \/ Staged(t)
    BY <1>2, <1>5 DEF Kept, PublishedSoFar, Undone
  <2>3. Holds(w) => attempt[w].from = n
    <3>1. (Holds(w) /\ Staged(t)) => attempt[w].sent = 0
      BY <1>1, HolderFacts DEF ResultKnows, Calling
    <3> QED BY <1>2, <2>2, <3>1 DEF Attempt
  <2>4. Holds(w) => Undone(live[t], t, OwnRow(w).resume)
    BY <1>2, <2>3, HolderFacts
  <2> QED BY <1>1, <1>2, <2>1, <2>4, FailKeeps
<1> QED BY <1>3, <1>4, <1>5

\* The attempts that end with a failure or in doubt.
LEMMA FailureKeeps ==
  ASSUME Reached, Kept, NEW w \in Workers,
         \/ \E class \in ErrorClasses : FailBeforeCall(w, class)
         \/ \E landed \in BOOLEAN : CallLost(w, landed)
         \/ Timeout(w) \/ FailureUnrecorded(w)
  PROVE  PromiseInv'
<1> DEFINE t == attempt[w].target
<1>0. TypeOK /\ PhaseIsNamed
  BY DEF Reached
\* Before the call nothing of the row is out but what it says.
<1>1. ASSUME Holds(w), attempt[w].pc \in {"claimed", "validate", "prepare"}
      PROVE  Undone(live[t], t, OwnRow(w).resume)
  <2>1. /\ Out(live[t], t, attempt[w].from + attempt[w].sent)
        /\ OwnRow(w).resume = attempt[w].from /\ ResultKnows(attempt[w])
    BY <1>1, HolderFacts
  <2>2. attempt[w] \in Attempt
    BY <1>0, <1>1 DEF TypeOK, Holds, Idle
  <2>3. attempt[w].sent = 0 /\ attempt[w].result = "none" /\ attempt[w].from \in Nat
    BY <1>1, <2>1, <2>2 DEF ResultKnows, Attempt
  <2> QED BY <2>1, <2>3 DEF ResultKnows, Undone
<1>2. ASSUME NEW class \in ErrorClasses, FailBeforeCall(w, class)
      PROVE  PromiseInv'
  <2>1. /\ ~Idle(w) /\ Fail(w, class) /\ attempt' = [attempt EXCEPT ![w] = IdleAttempt]
        /\ posted' = posted /\ abandoned' = abandoned /\ live' = live
        /\ attempt[w].pc \in {"claimed", "validate", "prepare"}
    BY <1>2 DEF FailBeforeCall, Idle, IdleAttempt, Retire, SettleFrame, ghosts
  <2> QED BY <1>1, <2>1, FailKeeps
<1>3. ASSUME NEW landed \in BOOLEAN, CallLost(w, landed)
      PROVE  PromiseInv'
  <2>1. /\ Calling(w) /\ posted' = posted /\ abandoned' = abandoned
        /\ attempt' = [attempt EXCEPT ![w] = IdleAttempt] /\ (Lands(w) \/ live' = live)
    BY <1>3 DEF CallLost, Retire, ghosts
  <2>2. ~Idle(w)
    BY <2>1, CallerFacts
  <2>3. CASE attempt[w].zombie
    <3>1. jobs' = jobs /\ mirror' = mirror /\ draft' = draft
      BY <1>3, <2>3 DEF CallLost
    <3>2. CASE Lands(w)
      BY <2>1, <3>1, <3>2, LateLanding DEF Retire
    <3>3. CASE live' = live
      <4>1. \A u \in Targets : StayOrEnd(u)
        BY <1>0, <2>1 DEF StayOrEnd, SameAttempt, InFlight, Idle, TypeOK
      <4> QED BY <2>1, <3>1, <3>3, <4>1, AllAside DEF Aside, Shelved
    <3> QED BY <2>1, <3>2, <3>3
  <2>4. CASE ~attempt[w].zombie
    <3>1. RequireVerification(w) /\ TRUE \in BOOLEAN
      BY <1>3, <2>4 DEF CallLost
    <3>2. live' = live \/ (Lands(w) /\ Calling(w) /\ IdleAttempt = IdleAttempt)
      BY <2>1
    <3> QED BY <2>1, <2>2, <3>1, <3>2, VerificationKeeps
  <2> QED BY <2>3, <2>4
<1>4. CASE Timeout(w)
  <2> DEFINE a == IF attempt[w].pc = "publish" /\ attempt[w].result = "none"
                  THEN [attempt[w] EXCEPT !.zombie = TRUE] ELSE IdleAttempt
  <2>1. /\ ~Idle(w) /\ attempt[w].pc # "claimed" /\ posted' = posted /\ abandoned' = abandoned
        /\ live' = live /\ attempt' = [attempt EXCEPT ![w] = a]
    BY <1>4 DEF Timeout, SettleFrame, ghosts
  <2>2. a = IdleAttempt \/ a = [attempt[w] EXCEPT !.zombie = TRUE]
    OBVIOUS
  <2>3. CASE Holds(w) /\ MayHaveReachedAudience(OwnRow(w).phase)
    <3>1. RequireVerification(w) /\ TRUE \in BOOLEAN
      BY <1>4, <2>3 DEF Timeout
    <3> HIDE DEF a
    <3> QED BY <2>1, <2>2, <3>1, VerificationKeeps
  <2>4. CASE ~(Holds(w) /\ MayHaveReachedAudience(OwnRow(w).phase))
    <3>1. Fail(w, "permanent")
      BY <1>4, <2>4 DEF Timeout
    <3>2. Holds(w) => attempt[w].pc \in {"claimed", "validate", "prepare"}
      <4>1. attempt[w].pc \in Pcs \ {"idle"}
        BY <1>0, <2>1, OwnType DEF Attempt
      <4> QED BY <1>0, <2>4, <4>1 DEF PhaseIsNamed, MayHaveReachedAudience, Pcs
    <3>3. Holds(w) => Undone(live[t], t, OwnRow(w).resume)
      BY <1>1, <3>2
    <3>4. a = IdleAttempt \/ (~Holds(w) /\ a = [attempt[w] EXCEPT !.zombie = TRUE])
      BY <3>2
    <3> HIDE DEF a
    <3> QED BY <2>1, <3>1, <3>3, <3>4, FailKeeps
  <2> QED BY <2>3, <2>4
<1>5. CASE FailureUnrecorded(w)
  <2>1. /\ ~Idle(w) /\ ForceVerification(w, OwnMirror(w).ext) /\ attempt' = [attempt EXCEPT ![w] = IdleAttempt]
        /\ posted' = posted /\ abandoned' = abandoned /\ live' = live
    BY <1>5 DEF FailureUnrecorded, Idle, IdleAttempt, Retire, SettleFrame, ghosts
  <2>2. OwnMirror(w).ext \in BOOLEAN
    BY <1>0, <2>1, OwnType DEF MirrorRow
  <2>3. Holds(w) => /\ OwnMirror(w).ext => live[t][1] > 0
                    /\ OwnRow(w).resume > 0 => OwnMirror(w).ext \/ (Staged(t) /\ live[t][1] > 0)
    <3>1. Holds(w) => RowKnows(live[t], mirror[t], jobs[t], t, OwnRow(w)) /\ MirrorKnows(live[t], OwnMirror(w))
                      /\ OwnRow(w).status = "publishing"
      BY HolderFacts
    <3> QED BY <3>1 DEF RowKnows, MirrorKnows, OwnMirror
  <2> QED BY <2>1, <2>2, <2>3, VerificationKeeps
<1> QED BY <1>2, <1>3, <1>4, <1>5

\* The attempts that end with a result.
LEMMA CompletionKeeps ==
  ASSUME Reached, Kept, NEW w \in Workers,
         \/ CompleteDeferred(w) \/ CompleteFinal(w) \/ FinalizationFails(w)
         \/ \E answered \in BOOLEAN : CompletePartial(w, answered)
  PROVE  PromiseInv'
<1> DEFINE t == attempt[w].target
           n == attempt[w].from + attempt[w].sent
<1>0. /\ TypeOK /\ attempt[w].pc = "verify" /\ posted' = posted /\ abandoned' = abandoned /\ live' = live
      /\ attempt' = [attempt EXCEPT ![w] = IdleAttempt]
  BY DEF Reached, CompleteDeferred, CompleteFinal, FinalizationFails, CompletePartial, Retire, SettleFrame,
     ghosts
<1>1. ~Idle(w)
  BY <1>0 DEF Idle, IdleAttempt
<1>2. /\ OwnRow(w) \in Row /\ OwnMirror(w) \in MirrorRow /\ t \in Targets /\ n \in Nat
      /\ attempt[w].from \in Nat /\ attempt[w].sent \in Nat /\ attempt[w].result \in Results
  BY <1>0, <1>1, OwnType DEF Attempt
<1>3. Holds(w) => /\ Out(live[t], t, n) /\ OwnRow(w).resume = attempt[w].from /\ ResultKnows(attempt[w])
                  /\ RowKnows(live[t], mirror[t], jobs[t], t, OwnRow(w)) /\ OwnRow(w).status = "publishing"
  BY HolderFacts
<1>4. Holds(w) /\ n > 0 => live[t][1] > 0
  BY <1>2, <1>3, SomethingOut
<1>5. CASE CompleteDeferred(w)
  <2> DEFINE row == [Settled(OwnRow(w), "queued") EXCEPT !.progress = PublishedSoFar(w),
                                                          !.resume = PublishedSoFar(w)]
             image == [OwnMirror(w) EXCEPT !.status = "queued"]
  <2>1. Settle(w, row, image, FALSE, FALSE) /\ attempt[w].result = "deferred"
    BY <1>5 DEF CompleteDeferred
  <2>2. row.status = "queued" /\ row.resume = n /\ row.progress = n
    BY <1>2 DEF Settled, Unlocked, Row, PublishedSoFar
  <2>3. image.status = "queued" /\ image.ext = OwnMirror(w).ext
    BY <1>2 DEF MirrorRow
  <2> HIDE DEF row, image
  <2>4. Holds(w) => Settles(w, row, image)
    <3> SUFFICES ASSUME Holds(w) PROVE Settles(w, row, image)
      OBVIOUS
    <3>1. Undone(live[t], t, n) /\ Staged(t) /\ n > 0 /\ live[t][1] > 0
      BY <1>2, <1>3, <1>4, <2>1 DEF ResultKnows, Undone
    <3>2. MirrorKnows(live[t], image)
      BY <2>3, <3>1 DEF MirrorKnows
    <3> QED BY <1>0, <2>2, <3>1, <3>2 DEF Settles, Waiting
  <2> QED BY <1>0, <1>1, <2>1, <2>4, SettleKeeps
<1>6. CASE CompleteFinal(w)
  <2> DEFINE status == IF attempt[w].result = "ok" THEN "published" ELSE attempt[w].result
             row == Settled(OwnRow(w), status)
             image == [status |-> status, ext |-> status = "published"]
  <2>1. Settle(w, row, image, TRUE, TRUE) /\ attempt[w].result \in {"ok", "failed", "skipped"}
    BY <1>6 DEF CompleteFinal, Refusals
  <2>2. status \in {"published", "failed", "skipped"}
    BY <2>1
  <2>3. (status = "published") <=> (attempt[w].result = "ok")
    BY <2>1
  <2> HIDE DEF status
  <2>4. row.status = status /\ row.resume = OwnRow(w).resume /\ row.progress = OwnRow(w).progress
        /\ image.status = status /\ (image.ext <=> status = "published")
    BY <1>2 DEF Settled, Unlocked, Row
  <2> HIDE DEF row, image
  <2>5. Holds(w) => Settles(w, row, image)
    <3> SUFFICES ASSUME Holds(w) PROVE Settles(w, row, image)
      OBVIOUS
    <3>1. CASE attempt[w].result = "ok"
      <4>1. n > 0
        BY <1>2, <1>3, <3>1, PartsType DEF ResultKnows
      <4> QED BY <1>0, <1>4, <2>2, <2>3, <2>4, <3>1, <4>1 DEF Settles, MirrorKnows, Waiting, Superseded
    <3>2. CASE attempt[w].result # "ok"
      <4>1. OwnRow(w).resume = n /\ n < Parts[t] /\ (n = 0 \/ Staged(t))
        BY <1>2, <1>3, <2>1, <3>2 DEF ResultKnows, Refusals
      <4>2. Undone(live[t], t, n) /\ (n > 0 => live[t][1] > 0)
        BY <1>2, <1>3, <1>4, <4>1 DEF Undone
      <4>3. Staged(t) => OwnRow(w).progress = OwnRow(w).resume
        BY <1>3 DEF RowKnows
      <4> QED BY <1>0, <1>2, <2>2, <2>3, <2>4, <3>2, <4>1, <4>2, <4>3
              DEF Settles, MirrorKnows, Waiting, Undone
    <3> QED BY <3>1, <3>2
  <2> QED BY <1>0, <1>1, <2>1, <2>5, SettleKeeps
<1>7. ASSUME NEW answered \in BOOLEAN, CompletePartial(w, answered)
      PROVE  PromiseInv'
  <2> DEFINE status == IF OwnRow(w).attempt + 1 < PartialMaxAttempts /\ ~answered
                       THEN "queued" ELSE "failed"
             row == [Settled(OwnRow(w), status) EXCEPT !.attempt = Spend(@), !.resume = PublishedSoFar(w)]
             image == [status |-> status, ext |-> TRUE]
  <2>1. Settle(w, row, image, TRUE, status = "failed") /\ attempt[w].result = "partial"
    BY <1>7 DEF CompletePartial
  <2>2. status \in {"queued", "failed"}
    OBVIOUS
  <2> HIDE DEF status
  <2>3. row.status = status /\ row.resume = n /\ image.status = status /\ image.ext
    BY <1>2 DEF Settled, Unlocked, Row, PublishedSoFar
  <2> HIDE DEF row, image
  <2>4. Holds(w) => Settles(w, row, image)
    <3> SUFFICES ASSUME Holds(w) PROVE Settles(w, row, image)
      OBVIOUS
    <3>1. n > 0 /\ Undone(live[t], t, n) /\ ~Staged(t)
      BY <1>3, <2>1 DEF ResultKnows, Undone
    <3> QED BY <1>0, <1>4, <2>2, <2>3, <3>1 DEF Settles, MirrorKnows, Waiting
  <2> QED BY <1>0, <1>1, <2>1, <2>4, SettleKeeps
<1>8. CASE FinalizationFails(w)
  <2> DEFINE ext == NamesPost(attempt[w].result)
  <2>1. ForceVerification(w, ext) /\ ext \in BOOLEAN
    BY <1>8 DEF FinalizationFails, NamesPost
  <2>2. Holds(w) => /\ ext => live[t][1] > 0
                    /\ OwnRow(w).resume > 0 => ext \/ (Staged(t) /\ live[t][1] > 0)
    <3> SUFFICES ASSUME Holds(w) PROVE (ext => n > 0) /\ (OwnRow(w).resume > 0 => n > 0 /\ (ext \/ Staged(t)))
      BY <1>4
    <3>1. ResultKnows(attempt[w]) /\ OwnRow(w).resume = attempt[w].from
      BY <1>3
    <3>2. attempt[w].result = "ok" => n > 0
      BY <1>2, <3>1, PartsType DEF ResultKnows
    <3>3. attempt[w].result \in Refusals => attempt[w].from = 0 \/ Staged(t)
      BY <1>2, <3>1 DEF ResultKnows
    <3> QED BY <1>0, <1>2, <3>1, <3>2, <3>3 DEF ResultKnows, NamesPost, Refusals, Results
  <2> HIDE DEF ext
  <2> QED BY <1>0, <1>1, <2>1, <2>2, VerificationKeeps
<1> QED BY <1>5, <1>6, <1>7, <1>8

LEMMA DeliverKeeps ==
  ASSUME Reached, Kept, NEW w \in Workers, Deliver(w)
  PROVE  PromiseInv'
<1>1. CASE LeaseLost(w)
  <2>1. /\ jobs' = jobs /\ mirror' = mirror /\ draft' = draft /\ posted' = posted /\ abandoned' = abandoned
        /\ live' = live /\ attempt' = [attempt EXCEPT ![w] = IdleAttempt]
    BY <1>1 DEF LeaseLost, queue, studio, ghosts, Retire
  <2>2. \A u \in Targets : StayOrEnd(u)
    BY <2>1 DEF StayOrEnd, SameAttempt, InFlight, Idle, Reached, TypeOK
  <2> QED BY <2>1, <2>2, AllAside DEF Aside, Shelved
<1>2. ~\E class \in ErrorClasses : CallUnreadable(w, class)
  BY DEF Kept, CallUnreadable
<1> QED BY <1>1, <1>2, EnterPhaseKeeps, CallAcceptedKeeps, CallDeclinedKeeps, CallRejectedKeeps, FailureKeeps,
           CompletionKeeps DEF Deliver

-----------------------------------------------------------------------------
(* The shapes of the other steps *)

\* Locks are taken, renewed or age, and rows stay what they are.
LEMMA LocksKeep ==
  ASSUME Reached, mirror' = mirror, live' = live, posted' = posted, draft' = draft, abandoned' = abandoned,
         attempt' = attempt,
         \A t \in Targets, k \in JobIds :
           /\ jobs'[t][k].status = jobs[t][k].status /\ jobs'[t][k].resume = jobs[t][k].resume
           /\ jobs'[t][k].phase = jobs[t][k].phase /\ jobs'[t][k].progress = jobs[t][k].progress
           /\ jobs[t][k].status = "publishing" => jobs'[t][k].lockedBy = jobs[t][k].lockedBy
  PROVE  PromiseInv'
<1> SUFFICES ASSUME NEW t \in Targets PROVE TargetInv(t)'
  BY DEF PromiseInv
<1>1. PostsKnown(t) /\ AttemptsKnow(t) /\ TypeOK
  BY DEF Reached, PromiseInv, TargetInv
<1>2. \A i \in JobIds : RowKnows(live'[t], mirror'[t], jobs'[t], t, jobs'[t][i])
  <2>1. GivenUp(mirror[t], jobs'[t]) <=> GivenUp(mirror[t], jobs[t])
    BY DEF GivenUp
  <2> QED BY <1>1, <2>1 DEF PostsKnown, RowKnows
<1>3. ClosedKnows(t)' /\ Untouched(t)'
  BY <1>1 DEF PostsKnown, ClosedKnows, Untouched, GivenUp, TakenBack, Shelved, AtPlatform, InFlight, Idle
<1>4. StayOrEnd(t)
  BY DEF StayOrEnd, SameAttempt, InFlight, Idle
<1>5. StillHeld(t) /\ Unseen(t)
  BY DEF StillHeld, Unseen
<1>6. AttemptsKnow(t)'
  BY <1>1, <1>4, <1>5, AttemptsKept
<1> QED BY <1>1, <1>2, <1>3, <1>6 DEF TargetInv, PostsKnown

\* One row of a target is settled or taken up again, and no attempt moves.
LEMMA OneRowKeeps ==
  ASSUME Reached, NEW t \in Targets, NEW i \in JobIds, NEW row, NEW image,
         jobs' = [jobs EXCEPT ![t][i] = row], mirror' = [mirror EXCEPT ![t] = image],
         attempt' = attempt, live' = live, posted, posted' = posted,
         \A u \in Targets : u # t => (u \in abandoned' <=> u \in abandoned),
         \A k \in JobIds : k # i => jobs[t][k].status \in Over,
         row.status \notin {"no_row", "publishing"}, MirrorKnows(live[t], image),
         RowKnows(live[t], image, jobs'[t], t, row),
         row.status = "cancelled" => Out(live[t], t, 0) \/ image.ext \/ t \in abandoned',
         \A u \in Targets : Shelved(u) => Shelved(u)',
         (\E v \in Workers : CallingAt(v, t)) =>
           /\ row.status \notin Waiting \cup {"skipped"}
           /\ row.status = "cancelled" => t \in abandoned'
           /\ t \in abandoned => t \in abandoned'
  PROVE  PromiseInv'
<1>1. PostsKnown(t) /\ AttemptsKnow(t) /\ TypeOK
  BY DEF Reached, PromiseInv, TargetInv
<1>2. jobs[t] \in [JobIds -> Row] /\ jobs'[t] = [jobs[t] EXCEPT ![i] = row] /\ mirror'[t] = image
      /\ \A u \in Targets : u # t => jobs'[u] = jobs[u] /\ mirror'[u] = mirror[u]
  BY <1>1 DEF TypeOK
<1>3. \A u \in Targets : StayOrEnd(u)
  BY DEF StayOrEnd, SameAttempt, InFlight, Idle
<1>4. \A k \in JobIds : jobs'[t][k] = IF k = i THEN row ELSE jobs[t][k]
  BY <1>2
<1>5. PostsKnown(t)'
  <2>1. Once(live'[t], t) /\ posted'
    BY <1>1 DEF PostsKnown
  <2> QED BY <1>2, <2>1, RowWritten
<1>6. StillHeld(t) /\ Unseen(t)
  BY <1>4 DEF StillHeld, Unseen, Over, Waiting
<1>7. AttemptsKnow(t)'
  BY <1>1, <1>3, <1>6, AttemptsKept
<1>8. ASSUME NEW u \in Targets, u # t PROVE TargetInv(u)'
  <2>1. Aside(u)
    BY <1>2, <1>3, <1>8 DEF Aside
  <2> QED BY <1>1, <1>8, <2>1, AsideKept DEF Reached, PromiseInv
<1> QED BY <1>5, <1>7, <1>8 DEF PromiseInv, TargetInv

\* What the newest row of a target knows, and who may be at the platform.
LEMMA LatestFacts ==
  ASSUME Reached, NEW t \in Targets, NEW i \in JobIds, Latest(t, i) \/ jobs[t][i].status \notin Over
  PROVE  /\ posted /\ \A k \in JobIds : k # i => jobs[t][k].status \in Over
         /\ RowKnows(live[t], mirror[t], jobs[t], t, jobs[t][i]) /\ MirrorKnows(live[t], mirror[t])
         /\ jobs[t][i] \in Row /\ mirror[t] \in MirrorRow
         /\ (\E v \in Workers : CallingAt(v, t)) => jobs[t][i].status \notin Waiting \cup {"skipped"}
<1>1. PostsKnown(t) /\ AttemptsKnow(t) /\ TypeOK
  BY DEF Reached, PromiseInv, TargetInv
<1>2. jobs[t][i].status # "no_row"
  BY DEF Latest, HasRow, Over
<1>3. posted
  BY <1>2 DEF Reached, RowsAreAsked, Rows, HasRow
<1>4. ASSUME NEW k \in JobIds, k # i PROVE jobs[t][k].status \in Over
  <2>1. SUFFICES ASSUME jobs[t][k].status \notin Over PROVE FALSE
    OBVIOUS
  <2>2. CASE Latest(t, i)
    <3>1. k \in Rows(t) /\ i \in Rows(t)
      BY <2>1, <2>2 DEF Rows, HasRow, Over, Latest
    <3>2. k <= i /\ i <= k
      BY <2>1, <2>2, <3>1 DEF Reached, RowsInv, NewestOpen, Latest, Over
    <3>3. i \in Nat /\ k \in Nat
      BY BoundsAssumption DEF JobIds
    <3> QED BY <1>4, <3>2, <3>3
  <2>3. CASE jobs[t][i].status \notin Over
    BY <1>4, <2>1, <2>3, OneOpen DEF Reached
  <2> QED BY <2>2, <2>3
<1>5. (\E v \in Workers : CallingAt(v, t)) => jobs[t][i].status \notin Waiting \cup {"skipped"}
  BY <1>1 DEF AttemptsKnow, CallerKnows, CallerSees
<1> QED BY <1>1, <1>3, <1>4, <1>5 DEF PostsKnown, TypeOK

-----------------------------------------------------------------------------
(* Claims, leases, recovery and the sweep *)

\* A claim takes what the row says is out for what is out: it refuses a row that
\* would begin again on a target that names a post.
LEMMA ClaimKeeps ==
  ASSUME Reached, Kept, NEW w \in Workers, NEW t \in Targets, NEW i \in JobIds, Claim(w, t, i)
  PROVE  PromiseInv'
<1> DEFINE row == [jobs[t][i] EXCEPT !.status = "publishing", !.lockedBy = w, !.stale = FALSE, !.phase = "none"]
           image == [mirror[t] EXCEPT !.status = "publishing"]
           a == [pc |-> "claimed", target |-> t, id |-> i,
                 from |-> IF Adapter[t] = "staged" THEN jobs[t][i].progress ELSE jobs[t][i].resume,
                 sent |-> 0, result |-> "none", zombie |-> FALSE]
<1>1. jobs[t][i].status = "queued" /\ ~AlreadyDelivered(t, jobs[t][i]) /\ Idle(w)
  BY DEF Claim
<1>2. /\ posted /\ \A k \in JobIds : k # i => jobs[t][k].status \in Over
      /\ RowKnows(live[t], mirror[t], jobs[t], t, jobs[t][i]) /\ MirrorKnows(live[t], mirror[t])
      /\ jobs[t][i] \in Row /\ mirror[t] \in MirrorRow /\ \A v \in Workers : ~CallingAt(v, t)
  BY <1>1, LatestFacts DEF Over, Waiting
<1>3. PostsKnown(t) /\ TypeOK /\ jobs[t] \in [JobIds -> Row]
  BY DEF Reached, PromiseInv, TargetInv, TypeOK
<1>4. /\ jobs' = [jobs EXCEPT ![t][i] = row] /\ mirror' = [mirror EXCEPT ![t] = image]
      /\ attempt' = [attempt EXCEPT ![w] = a]
      /\ draft' = draft /\ posted' = posted /\ live' = live /\ abandoned' = abandoned
  BY DEF Claim, studio, ghosts
<1>5. row.status = "publishing" /\ row.lockedBy = w /\ row.phase = "none" /\ row.resume = jobs[t][i].resume
      /\ row.progress = jobs[t][i].progress
  BY <1>2 DEF Row
<1>6. image.status = "publishing" /\ image.ext = mirror[t].ext
  BY <1>2 DEF MirrorRow
<1>7. a.pc = "claimed" /\ a.target = t /\ a.id = i /\ a.from = jobs[t][i].resume /\ a.sent = 0 /\ a.result = "none"
      /\ a # IdleAttempt
  BY <1>1, <1>2 DEF RowKnows, Superseded, Staged, IdleAttempt
<1>8. /\ Undone(live[t], t, jobs[t][i].resume) /\ jobs[t][i].resume \in Nat
      /\ jobs[t][i].resume > 0 => mirror[t].ext \/ (Staged(t) /\ live[t][1] > 0)
      /\ Staged(t) => jobs[t][i].progress = jobs[t][i].resume
  BY <1>1, <1>2 DEF RowKnows, Waiting, GivenUp, AlreadyDelivered, Superseded, Row
<1> HIDE DEF row, image, a
<1>9. jobs'[t] = [jobs[t] EXCEPT ![i] = row] /\ mirror'[t] = image
      /\ \A u \in Targets : u # t => jobs'[u] = jobs[u] /\ mirror'[u] = mirror[u]
  BY <1>3, <1>4 DEF TypeOK
<1>10. \A v \in Workers : attempt'[v] = IF v = w THEN a ELSE attempt[v]
  BY <1>3, <1>4 DEF TypeOK
<1>11. PostsKnown(t)'
  <2>1. RowKnows(live'[t], mirror'[t], jobs'[t], t, row)
    BY <1>4, <1>5, <1>6, <1>8, <1>9 DEF RowKnows, Waiting, Superseded
  <2>2. MirrorKnows(live'[t], mirror'[t])
    BY <1>2, <1>4, <1>6, <1>9 DEF MirrorKnows
  <2>3. Once(live'[t], t) /\ posted'
    BY <1>2, <1>3, <1>4 DEF PostsKnown
  <2> QED BY <1>2, <1>3, <1>5, <1>9, <2>1, <2>2, <2>3, RowWritten
<1>12. AttemptsKnow(t)'
  <2>1. \A v \in Workers : ~CallingAt(v, t)'
    BY <1>2, <1>7, <1>10 DEF CallingAt, Calling, InFlight, Idle
  <2>2. \A k \in JobIds : jobs'[t][k] = IF k = i THEN row ELSE jobs[t][k]
    BY <1>3, <1>9
  <2>3. ASSUME NEW v \in Workers, InFlight(v, t)', Held(jobs'[t][attempt'[v].id], v)
        PROVE  /\ Out(live'[t], t, attempt'[v].from + attempt'[v].sent)
               /\ jobs'[t][attempt'[v].id].resume = attempt'[v].from
               /\ ResultKnows(attempt'[v])
    <3>1. attempt'[v].id \in JobIds
      BY <1>3, <1>7, <1>10, <2>3 DEF InFlight, Idle, TypeOK, Attempt
    <3>2. v = w
      BY <1>2, <1>5, <2>2, <2>3, <3>1 DEF Held, Over
    <3>3. attempt'[v] = a /\ a.from + a.sent = jobs[t][i].resume
      BY <1>7, <1>8, <1>10, <3>2
    <3>4. ResultKnows(a)
      BY <1>7, <1>8, <3>3 DEF ResultKnows, Undone, Refusals
    <3> QED BY <1>4, <1>5, <1>7, <1>8, <2>2, <3>3, <3>4 DEF Undone
  <2> QED BY <2>1, <2>3 DEF AttemptsKnow, HolderKnows, CallerKnows, OneCaller
<1>13. ASSUME NEW u \in Targets, u # t PROVE TargetInv(u)'
  <2>1. StayOrEnd(u)
    BY <1>7, <1>10, <1>13 DEF StayOrEnd, SameAttempt, InFlight, Idle
  <2>2. Aside(u)
    BY <1>4, <1>9, <1>13, <2>1 DEF Aside, Shelved
  <2> QED BY <1>3, <1>13, <2>2, AsideKept DEF Reached, PromiseInv
<1> QED BY <1>11, <1>12, <1>13 DEF PromiseInv, TargetInv

LEMMA ClaimRefusedKeeps ==
  ASSUME Reached, NEW t \in Targets, NEW i \in JobIds, ClaimRefuseDuplicate(t, i) \/ ClaimStopCancelled(t, i)
  PROVE  PromiseInv'
<1>1. /\ jobs[t][i].status = "queued" /\ attempt' = attempt /\ live' = live /\ posted' = posted
      /\ abandoned' = abandoned /\ draft' = draft
  BY DEF ClaimRefuseDuplicate, ClaimStopCancelled, studio, ghosts
<1>2. /\ posted /\ \A k \in JobIds : k # i => jobs[t][k].status \in Over
      /\ RowKnows(live[t], mirror[t], jobs[t], t, jobs[t][i]) /\ MirrorKnows(live[t], mirror[t])
      /\ jobs[t][i] \in Row /\ mirror[t] \in MirrorRow /\ \A v \in Workers : ~CallingAt(v, t)
  BY <1>1, LatestFacts DEF Over, Waiting
<1>3. CASE ClaimRefuseDuplicate(t, i)
  <2> DEFINE row == [Unlocked(jobs[t][i]) EXCEPT !.status = "verification_required"]
             image == [mirror[t] EXCEPT !.status = "verification_required"]
  <2>1. jobs' = [jobs EXCEPT ![t][i] = row] /\ mirror' = [mirror EXCEPT ![t] = image]
        /\ AlreadyDelivered(t, jobs[t][i])
    BY <1>3 DEF ClaimRefuseDuplicate
  <2>2. row.status = "verification_required" /\ row.resume = 0 /\ row.progress = jobs[t][i].progress
        /\ jobs[t][i].resume = 0
    BY <1>2, <2>1 DEF Unlocked, Row, AlreadyDelivered
  <2>3. image.status = "verification_required" /\ image.ext = mirror[t].ext
    BY <1>2 DEF MirrorRow
  <2> HIDE DEF row, image
  <2>4. RowKnows(live[t], image, jobs'[t], t, row) /\ MirrorKnows(live[t], image)
    BY <1>1, <1>2, <2>2, <2>3 DEF RowKnows, MirrorKnows, Waiting, Superseded
  <2> QED BY <1>1, <1>2, <2>1, <2>2, <2>4, OneRowKeeps DEF Shelved
<1>4. CASE ClaimStopCancelled(t, i)
  <2> DEFINE row == Settled(jobs[t][i], "cancelled")
             image == [mirror[t] EXCEPT !.status = "cancelled"]
  <2>1. jobs' = [jobs EXCEPT ![t][i] = row] /\ mirror' = [mirror EXCEPT ![t] = image]
        /\ ~AlreadyDelivered(t, jobs[t][i]) /\ ~NotCancelled(jobs[t][i])
    BY <1>4 DEF ClaimStopCancelled
  <2>2. row.status = "cancelled"
    BY <1>2 DEF Settled, Unlocked, Row
  <2>3. image.status = "cancelled" /\ image.ext = mirror[t].ext
    BY <1>2 DEF MirrorRow
  <2>4. jobs[t][i].resume = 0 /\ ~mirror[t].ext
    BY <1>2, <2>1 DEF Row, NotCancelled, AlreadyDelivered
  <2>5. Out(live[t], t, 0)
    BY <1>1, <1>2, <2>4 DEF RowKnows, Waiting, Undone, GivenUp
  <2> HIDE DEF row, image
  <2>6. RowKnows(live[t], image, jobs'[t], t, row) /\ MirrorKnows(live[t], image)
    BY <1>2, <2>2, <2>3 DEF RowKnows, MirrorKnows, Waiting, Superseded
  <2> QED BY <1>1, <1>2, <2>1, <2>2, <2>5, <2>6, OneRowKeeps DEF Shelved
<1> QED BY <1>3, <1>4

\* One row's lock changes.
LEMMA LockWritten ==
  ASSUME Reached, NEW t \in Targets, NEW i \in JobIds, NEW row, jobs' = [jobs EXCEPT ![t][i] = row],
         row.status = jobs[t][i].status, row.resume = jobs[t][i].resume, row.phase = jobs[t][i].phase,
         row.progress = jobs[t][i].progress,
         row.status = "publishing" => row.lockedBy = jobs[t][i].lockedBy,
         mirror' = mirror, live' = live, posted' = posted, draft' = draft, abandoned' = abandoned,
         attempt' = attempt
  PROVE  PromiseInv'
<1>1. \A u \in Targets, k \in JobIds : jobs'[u][k] = IF u = t /\ k = i THEN row ELSE jobs[u][k]
  BY DEF Reached, TypeOK
<1> QED BY <1>1, LocksKeep

LEMMA LeasesKeep ==
  ASSUME Reached, \/ \E w \in Workers : Heartbeat(w)
                  \/ \E t \in Targets, i \in JobIds : LeaseExpires(t, i) \/ ReconcileClaim(t, i)
  PROVE  PromiseInv'
<1>1. /\ mirror' = mirror /\ live' = live /\ posted' = posted /\ draft' = draft /\ abandoned' = abandoned
      /\ attempt' = attempt
  BY DEF Heartbeat, LeaseExpires, ReconcileClaim, studio, ghosts
<1>2. ASSUME NEW w \in Workers, Heartbeat(w) PROVE PromiseInv'
  <2>1. PICK t \in Targets, i \in JobIds : t = attempt[w].target /\ i = attempt[w].id
    BY <1>2 DEF Heartbeat, Holds, Idle, Reached, TypeOK, Attempt
  <2> DEFINE row == [jobs[t][i] EXCEPT !.stale = FALSE]
  <2>2. jobs' = [jobs EXCEPT ![t][i] = row] /\ jobs[t][i] \in Row
    BY <1>2, <2>1 DEF Heartbeat, Reached, TypeOK
  <2>3. /\ row.status = jobs[t][i].status /\ row.resume = jobs[t][i].resume
        /\ row.phase = jobs[t][i].phase /\ row.lockedBy = jobs[t][i].lockedBy
        /\ row.progress = jobs[t][i].progress
    BY <2>2 DEF Row
  <2> HIDE DEF row
  <2> QED BY <1>1, <2>2, <2>3, LockWritten
<1>3. ASSUME NEW t \in Targets, NEW i \in JobIds, LeaseExpires(t, i) PROVE PromiseInv'
  <2> DEFINE row == [jobs[t][i] EXCEPT !.stale = TRUE]
  <2>1. jobs' = [jobs EXCEPT ![t][i] = row] /\ jobs[t][i] \in Row
    BY <1>3 DEF LeaseExpires, Reached, TypeOK
  <2>2. /\ row.status = jobs[t][i].status /\ row.resume = jobs[t][i].resume
        /\ row.phase = jobs[t][i].phase /\ row.lockedBy = jobs[t][i].lockedBy
        /\ row.progress = jobs[t][i].progress
    BY <2>1 DEF Row
  <2> HIDE DEF row
  <2> QED BY <1>1, <2>1, <2>2, LockWritten
<1>4. ASSUME NEW t \in Targets, NEW i \in JobIds, ReconcileClaim(t, i) PROVE PromiseInv'
  <2> DEFINE row == [jobs[t][i] EXCEPT !.lockedBy = "recon", !.stale = FALSE]
  <2>0. jobs[t][i] \in Row /\ jobs[t][i].status # "publishing"
    <3>1. jobs[t][i] \in Row
      BY DEF Reached, TypeOK
    <3>2. InDoubt(jobs[t][i])
      BY <1>4 DEF ReconcileClaim
    <3> QED BY <3>1, <3>2 DEF InDoubt
  <2>1. jobs' = [jobs EXCEPT ![t][i] = row]
    BY <1>4 DEF ReconcileClaim
  <2>2. row.status = jobs[t][i].status /\ row.resume = jobs[t][i].resume /\ row.phase = jobs[t][i].phase
        /\ row.status # "publishing" /\ row.progress = jobs[t][i].progress
    BY <2>0 DEF Row
  <2> HIDE DEF row
  <2> QED BY <1>1, <2>1, <2>2, LockWritten
<1> QED BY <1>2, <1>3, <1>4

\* The sweep records what the target already names, or asks again later.
LEMMA ReconcileKeeps ==
  ASSUME Reached, Reconcile, NEW t \in Targets, NEW i \in JobIds, t = recon.target, i = recon.id
  PROVE  PromiseInv'
<1>1. attempt' = attempt /\ live' = live /\ posted' = posted /\ abandoned' = abandoned /\ jobs[t][i] \in Row
  BY DEF Reconcile, ReconcileConfirm, ReconcileDefer, studio, ghosts, Reached, TypeOK
<1>2. CASE ReconcileConfirm /\ ReconHolds
  <2> DEFINE row == Settled(jobs[t][i], "published")
             image == [status |-> "published", ext |-> TRUE]
  <2>1. /\ jobs' = [jobs EXCEPT ![t][i] = row] /\ mirror' = [mirror EXCEPT ![t] = image]
        /\ jobs[t][i].status = "verification_required" /\ live[t][1] > 0
    BY <1>2 DEF ReconcileConfirm, ReconHolds
  <2>2. row.status = "published" /\ image.ext /\ image.status = "published"
    BY <1>1 DEF Settled, Unlocked, Row
  <2> HIDE DEF row, image
  <2>3. RowKnows(live[t], image, jobs'[t], t, row) /\ MirrorKnows(live[t], image)
    BY <2>1, <2>2 DEF RowKnows, MirrorKnows, Waiting, Superseded
  <2>4. posted /\ \A k \in JobIds : k # i => jobs[t][k].status \in Over
    BY <2>1, LatestFacts DEF Over
  <2>5. \A u \in Targets : Shelved(u) => Shelved(u)'
    BY <1>2 DEF ReconcileConfirm, Refreshed, Shelved
  <2> QED BY <1>1, <2>1, <2>2, <2>3, <2>4, <2>5, OneRowKeeps DEF Waiting
<1>3. CASE ReconcileDefer /\ ReconHolds
  <2> DEFINE row == Polled(jobs[t][i])
  <2>1. /\ jobs' = [jobs EXCEPT ![t][i] = row] /\ mirror' = mirror /\ draft' = draft
        /\ jobs[t][i].status = "verification_required"
    BY <1>3 DEF ReconcileDefer, ReconHolds, studio
  <2>2. row.status = jobs[t][i].status /\ row.resume = jobs[t][i].resume /\ row.phase = jobs[t][i].phase
        /\ row.progress = jobs[t][i].progress
    BY <1>1 DEF Polled, Unlocked, Row
  <2> HIDE DEF row
  <2> QED BY <1>1, <2>1, <2>2, LockWritten
<1>4. CASE ~ReconHolds
  <2>1. jobs' = jobs /\ mirror' = mirror /\ draft' = draft
    BY <1>4 DEF Reconcile, ReconcileConfirm, ReconcileDefer, studio
  <2>2. \A u \in Targets : StayOrEnd(u)
    BY <1>1 DEF StayOrEnd, SameAttempt, InFlight, Idle
  <2> QED BY <1>1, <2>1, <2>2, AllAside DEF Aside, Shelved
<1> QED BY <1>2, <1>3, <1>4 DEF Reconcile

\* A row is put back in the queue only when its phase says that it was never
\* called for, so no attempt that lost it is at the platform for it.
LEMMA RecoverKeeps ==
  ASSUME Reached, RecoverStale
  PROVE  PromiseInv'
<1> DEFINE Stale(t) == {i \in JobIds : LeftBehind(t, i)}
<1>1. /\ \A t \in Targets : jobs'[t] = [i \in JobIds |->
           IF i \in Stale(t) THEN Recovered(jobs[t][i])
           ELSE IF Stale(t) # {} /\ jobs[t][i].status \in Superseded THEN NoJob ELSE jobs[t][i]]
      /\ \A t \in Targets : mirror'[t] =
           IF Stale(t) = {} THEN mirror[t]
           ELSE [mirror[t] EXCEPT !.status = jobs'[t][CHOOSE i \in Stale(t) : TRUE].status]
  BY DEF RecoverStale
<1>2. /\ attempt' = attempt /\ live' = live /\ posted' = posted /\ abandoned' = abandoned
      /\ \E t \in Targets : Stale(t) # {}
  BY DEF RecoverStale, ghosts
<1>3. posted /\ \A u \in Targets : StayOrEnd(u) /\ (Shelved(u) => Shelved(u)')
  <2>1. posted
    BY <1>2 DEF LeftBehind, Reached, RowsAreAsked, Rows, HasRow
  <2>2. draft = "cancelled" => draft' = "cancelled"
    BY DEF RecoverStale, Refreshed
  <2> QED BY <1>2, <2>1, <2>2 DEF Shelved, StayOrEnd, SameAttempt, InFlight, Idle
<1>4. ASSUME NEW t \in Targets, Stale(t) = {} PROVE TargetInv(t)'
  <2>1. jobs[t] \in [JobIds -> Row] /\ mirror'[t] = mirror[t]
    BY <1>1, <1>4 DEF Reached, TypeOK
  <2>2. jobs'[t] = jobs[t]
    <3> HIDE DEF Stale
    <3> QED BY <1>1, <1>4, <2>1
  <2> QED BY <1>2, <1>3, <2>1, <2>2, AsideKept DEF Aside, Reached, PromiseInv
<1>5. ASSUME NEW t \in Targets, NEW s \in Stale(t) PROVE TargetInv(t)'
  <2> DEFINE row == Recovered(jobs[t][s])
             image == [mirror[t] EXCEPT !.status = row.status]
  <2>1. s \in JobIds /\ jobs[t][s].status = "publishing" /\ jobs[t][s] \in Row /\ jobs[t] \in [JobIds -> Row]
        /\ mirror[t] \in MirrorRow /\ PostsKnown(t) /\ AttemptsKnow(t) /\ TypeOK
    BY <1>5 DEF LeftBehind, Reached, TypeOK, PromiseInv, TargetInv
  <2>2. \A k \in JobIds : k # s => jobs[t][k].status \in Over /\ k \notin Stale(t)
    BY <2>1, OneOpen DEF Reached, LeftBehind, Over
  <2>3. /\ row.status = IF MayHaveReachedAudience(jobs[t][s].phase) THEN "verification_required" ELSE "queued"
        /\ row.resume = jobs[t][s].resume /\ row.progress = jobs[t][s].progress
    BY <2>1 DEF Recovered, Settled, Unlocked, Row
  <2> HIDE DEF row
  <2>4. jobs'[t] = [jobs[t] EXCEPT ![s] = row]
    <3>1. \A k \in JobIds : k # s => jobs[t][k].status \notin Superseded
      BY <2>2 DEF Over, Superseded
    <3>2. \A k \in JobIds : (IF k \in Stale(t) THEN Recovered(jobs[t][k])
           ELSE IF Stale(t) # {} /\ jobs[t][k].status \in Superseded THEN NoJob ELSE jobs[t][k])
           = IF k = s THEN row ELSE jobs[t][k]
      BY <1>5, <2>2, <3>1 DEF row
    <3> HIDE DEF Stale
    <3> QED BY <1>1, <2>1, <3>2
  <2>5. mirror'[t] = image
    <3>1. (CHOOSE i \in Stale(t) : TRUE) = s
      <4>1. Stale(t) = {s}
        BY <1>5, <2>1, <2>2
      <4> HIDE DEF Stale
      <4> QED BY <4>1
    <3>2. Stale(t) # {} /\ jobs'[t][s] = row
      BY <1>5, <2>1, <2>4
    <3> HIDE DEF Stale
    <3> QED BY <1>1, <3>1, <3>2
  <2>6. image.status = row.status /\ image.ext = mirror[t].ext
    BY <2>1, <2>3 DEF MirrorRow
  <2> HIDE DEF image
  <2>7. RowKnows(live[t], mirror[t], jobs[t], t, jobs[t][s]) /\ MirrorKnows(live[t], mirror[t])
    BY <2>1 DEF PostsKnown
  <2>8. PostsKnown(t)'
    <3>1. RowKnows(live'[t], mirror'[t], jobs'[t], t, row)
      BY <1>2, <2>1, <2>3, <2>5, <2>6, <2>7 DEF RowKnows, Waiting, Superseded
    <3>2. MirrorKnows(live'[t], mirror'[t]) /\ Once(live'[t], t) /\ posted'
      BY <1>2, <1>3, <2>1, <2>3, <2>5, <2>6, <2>7 DEF MirrorKnows, PostsKnown
    <3> QED BY <2>1, <2>2, <2>3, <2>4, <3>1, <3>2, RowWritten
  <2>9. \A k \in JobIds : jobs'[t][k] = IF k = s THEN row ELSE jobs[t][k]
    BY <2>1, <2>4
  <2>10. StillHeld(t)
    BY <2>2, <2>3, <2>9 DEF StillHeld, Over
  <2>11. ASSUME NEW v \in Workers, CallingAt(v, t)
         PROVE  row.status = "verification_required"
    <3>1. attempt[v].id = s /\ jobs[t][s].lockedBy = v
      BY <2>1, <2>11 DEF AttemptsKnow, CallerKnows, CallerSees
    <3>2. Holds(v) /\ attempt[v].pc = "publish" /\ OwnRow(v) = jobs[t][s]
      BY <2>1, <2>11, <3>1 DEF CallingAt, Calling, InFlight, Holds, OwnRow
    <3>3. jobs[t][s].phase = "publish"
      BY <3>2 DEF Reached, PhaseIsNamed
    <3> QED BY <2>3, <3>3 DEF MayHaveReachedAudience
  <2>12. Unseen(t)
    BY <1>2, <1>3, <2>1, <2>2, <2>9, <2>11 DEF Unseen, Over, Waiting
  <2> QED BY <1>2, <1>3, <2>1, <2>8, <2>10, <2>12, AttemptsKept DEF TargetInv
<1> QED BY <1>4, <1>5 DEF PromiseInv

LEMMA CrashKeeps ==
  ASSUME Reached, Crash
  PROVE  PromiseInv'
<1>1. \A v \in Workers : attempt'[v] = IdleAttempt
  BY DEF Crash
<1>2. \A u \in Targets : StayOrEnd(u)
  BY <1>1 DEF StayOrEnd, InFlight, Idle
<1>3. \A u \in Targets : Aside(u)
  BY <1>2 DEF Aside, Shelved, Crash, queue, studio, ghosts
<1> QED BY <1>3, AllAside

-----------------------------------------------------------------------------
(* Operators *)

\* With nobody at the platform, attempts know what they knew while their rows
\* are left alone.
LEMMA QuietKeeps ==
  ASSUME Reached, NEW t \in Targets, \A v \in Workers : ~CallingAt(v, t), attempt' = attempt,
         live'[t] = live[t],
         \A k \in JobIds : jobs'[t][k].status = "publishing" => jobs'[t][k] = jobs[t][k]
  PROVE  AttemptsKnow(t)'
<1>1. StayOrEnd(t) /\ StillHeld(t) /\ Unseen(t)
  BY DEF StayOrEnd, SameAttempt, InFlight, Idle, StillHeld, Unseen
<1> QED BY <1>1, AttemptsKept DEF Reached, PromiseInv, TargetInv

\* A row that waited is given up, and what it had out the target still names,
\* or the row does and its draft is given up with it.
LEMMA GivingUp ==
  ASSUME Reached, NEW t \in Targets, NEW i \in JobIds, NEW row, jobs'[t] = [jobs[t] EXCEPT ![i] = row],
         row.status = "cancelled", jobs[t][i].status \in Waiting, mirror'[t].ext = mirror[t].ext,
         mirror'[t].status \in {"cancelled", mirror[t].status},
         attempt' = attempt, live' = live, posted' = posted,
         Staged(t) => jobs[t][i].resume = 0 \/ (Shelved(t)' /\ row.resume = jobs[t][i].resume)
  PROVE  TargetInv(t)'
<1>1. PostsKnown(t) /\ jobs[t] \in [JobIds -> Row]
  BY DEF Reached, TypeOK, PromiseInv, TargetInv
<1>2. /\ posted /\ \A k \in JobIds : k # i => jobs[t][k].status \in Over
      /\ RowKnows(live[t], mirror[t], jobs[t], t, jobs[t][i]) /\ MirrorKnows(live[t], mirror[t])
      /\ jobs[t][i] \in Row /\ \A v \in Workers : ~CallingAt(v, t)
  BY LatestFacts DEF Over, Waiting
<1>3. \A k \in JobIds : jobs'[t][k] = IF k = i THEN row ELSE jobs[t][k]
  BY <1>1
<1>4. PostsKnown(t)'
  <2>1. Out(live[t], t, 0) \/ mirror[t].ext \/ (Shelved(t)' /\ row.resume > 0)
    BY <1>2 DEF RowKnows, Undone, GivenUp, Waiting, Superseded, Row
  <2>2. RowKnows(live'[t], mirror'[t], jobs'[t], t, row) /\ MirrorKnows(live'[t], mirror'[t])
    BY <1>2 DEF RowKnows, MirrorKnows, Waiting, Superseded
  <2>3. Once(live'[t], t) /\ posted'
    BY <1>1, <1>2 DEF PostsKnown
  <2> QED BY <1>1, <1>2, <2>1, <2>2, <2>3, RowWritten
<1>5. AttemptsKnow(t)'
  BY <1>2, <1>3, QuietKeeps DEF Over
<1> QED BY <1>4, <1>5 DEF TargetInv

LEMMA CancelRestKeeps ==
  ASSUME Reached, CancelRest
  PROVE  PromiseInv'
<1>1. /\ \A t \in Targets : jobs'[t] = [i \in JobIds |->
           IF Replaceable(jobs[t][i]) THEN Settled(jobs[t][i], "cancelled") ELSE jobs[t][i]]
      /\ \A t \in Targets : mirror'[t] =
           IF mirror[t].status # "absent" /\ \E i \in Rows(t) : Replaceable(jobs[t][i])
           THEN [mirror[t] EXCEPT !.status = "cancelled"] ELSE mirror[t]
  BY DEF CancelRest
<1>2. attempt' = attempt /\ live' = live /\ posted' = posted /\ abandoned' = abandoned /\ draft' = draft
  BY DEF CancelRest
<1>3. ASSUME NEW t \in Targets PROVE TargetInv(t)'
  <2>1. jobs[t] \in [JobIds -> Row] /\ mirror[t] \in MirrorRow
    BY DEF Reached, TypeOK
  <2>2. CASE \A i \in JobIds : ~Replaceable(jobs[t][i])
    <3>1. jobs'[t] = jobs[t] /\ mirror'[t] = mirror[t]
      BY <1>1, <2>1, <2>2 DEF Rows
    <3>2. StayOrEnd(t)
      BY <1>2 DEF StayOrEnd, SameAttempt, InFlight, Idle
    <3> QED BY <1>2, <3>1, <3>2, AsideKept DEF Aside, Shelved, Reached, PromiseInv
  <2>3. CASE \E i \in JobIds : Replaceable(jobs[t][i])
    <3>1. PICK i \in JobIds : Replaceable(jobs[t][i])
      BY <2>3
    <3> DEFINE row == Settled(jobs[t][i], "cancelled")
    <3>2. row.status = "cancelled" /\ jobs[t][i].status \in Waiting /\ jobs[t][i].resume = 0
      BY <2>1, <3>1 DEF Settled, Unlocked, Row, Replaceable, Waiting
    <3>3. \A k \in JobIds : k # i => ~Replaceable(jobs[t][k])
      BY <3>2, LatestFacts DEF Replaceable, Over, Waiting
    <3>4. jobs'[t] = [jobs[t] EXCEPT ![i] = row]
      BY <1>1, <2>1, <3>1, <3>3
    <3>5. mirror'[t].ext = mirror[t].ext /\ mirror'[t].status \in {"cancelled", mirror[t].status}
      BY <1>1, <2>1 DEF MirrorRow
    <3> HIDE DEF row
    <3> QED BY <1>2, <3>2, <3>4, <3>5, GivingUp
  <2> QED BY <2>2, <2>3
<1> QED BY <1>3 DEF PromiseInv

LEMMA CancelDraftKeeps ==
  ASSUME Reached, Kept, CancelDraft
  PROVE  PromiseInv'
<1>1. /\ attempt' = attempt /\ live' = live /\ abandoned' = abandoned /\ draft' = "cancelled"
      /\ \A t \in Targets : mirror'[t] = mirror[t]
      /\ \/ posted' = posted /\ \A t \in Targets : jobs'[t] = [i \in JobIds |->
              IF jobs[t][i].status \in {"queued", "failed"}
              THEN [jobs[t][i] EXCEPT !.status = "cancelled"] ELSE jobs[t][i]]
         \/ ~posted' /\ \A t \in Targets, i \in JobIds : jobs'[t][i] = NoJob
  BY DEF CancelDraft
<1>2. ASSUME NEW t \in Targets PROVE TargetInv(t)'
  <2>1. jobs[t] \in [JobIds -> Row] /\ PostsKnown(t) /\ TypeOK /\ TargetInv(t)
    BY DEF Reached, TypeOK, PromiseInv, TargetInv
  <2>2. StayOrEnd(t)
    BY <1>1 DEF StayOrEnd, SameAttempt, InFlight, Idle
  <2>3. CASE /\ posted'= posted
             /\ jobs'[t] = [i \in JobIds |-> IF jobs[t][i].status \in {"queued", "failed"}
                  THEN [jobs[t][i] EXCEPT !.status = "cancelled"] ELSE jobs[t][i]]
    <3>1. CASE \A i \in JobIds : jobs[t][i].status \notin Waiting
      <4>1. jobs'[t] = jobs[t]
        BY <2>1, <2>3, <3>1 DEF Waiting
      <4> QED BY <1>1, <2>1, <2>2, <2>3, <4>1, AsideKept DEF Aside, Shelved
    <3>2. CASE \E i \in JobIds : jobs[t][i].status \in Waiting
      <4>1. PICK i \in JobIds : jobs[t][i].status \in Waiting
        BY <3>2
      <4> DEFINE row == [jobs[t][i] EXCEPT !.status = "cancelled"]
      <4>2. row.status = "cancelled" /\ row.resume = jobs[t][i].resume
        BY <2>1 DEF Row
      <4>3. \A k \in JobIds : k # i => jobs[t][k].status \notin Waiting
        BY <4>1, LatestFacts DEF Over, Waiting
      <4>4. jobs'[t] = [jobs[t] EXCEPT ![i] = row]
        BY <2>1, <2>3, <4>1, <4>3 DEF Waiting
      <4>5. Staged(t) => jobs[t][i].resume = 0 \/ Shelved(t)'
        <5>1. CASE Parts[t] = 1
          <6>1. RowKnows(live[t], mirror[t], jobs[t], t, jobs[t][i]) /\ jobs[t][i].resume \in Nat
            BY <2>1 DEF PostsKnown, Row
          <6> QED BY <4>1, <5>1, <6>1 DEF RowKnows, Undone
        <5>2. CASE Parts[t] # 1
          BY <1>1, <5>2 DEF Kept, LeftAlone, Staged, Shelved, CancelDraft, Command
        <5> QED BY <5>1, <5>2
      <4> HIDE DEF row
      <4> QED BY <1>1, <2>3, <4>1, <4>2, <4>4, <4>5, GivingUp
    <3> QED BY <3>1, <3>2
  <2>4. CASE ~posted' /\ \A i \in JobIds : jobs'[t][i] = NoJob
    <3>1. \A i \in JobIds : jobs'[t][i].status = "no_row"
      BY <2>4 DEF NoJob, NewRow
    <3>2. PostsKnown(t)'
      BY <1>1, <2>1, <2>4, <3>1 DEF PostsKnown, RowKnows, ClosedKnows, Untouched, Waiting, Superseded
    <3>3. StillHeld(t) /\ Unseen(t)
      BY <2>4, <3>1 DEF StillHeld, Unseen, Waiting
    <3> QED BY <1>1, <2>1, <2>2, <3>2, <3>3, AttemptsKept DEF TargetInv
  <2> QED BY <1>1, <2>3, <2>4
<1> QED BY <1>2 DEF PromiseInv

\* Where every row is given up, gone, or waits for its first post.
LEMMA BeginningFacts ==
  ASSUME Reached, NEW t \in Targets, draft # "cancelled", posted => t \notin abandoned,
         \A i \in JobIds : jobs[t][i].status \in Over \/ Replaceable(jobs[t][i])
  PROVE  /\ Undone(live[t], t, 0) \/ GivenUp(mirror[t], jobs[t])
         /\ \A v \in Workers : ~CallingAt(v, t)
<1>1. PostsKnown(t) /\ AttemptsKnow(t) /\ TypeOK
  BY DEF Reached, PromiseInv, TargetInv
<1>2. CASE ~posted
  <2>1. Out(live[t], t, 0) /\ \A w \in Workers : ~AtPlatform(w, t)
    BY <1>1, <1>2 DEF PostsKnown, Untouched
  <2> QED BY <2>1, PartsType DEF Undone, CallingAt, Calling, AtPlatform
<1>3. CASE posted /\ \E i \in JobIds : Replaceable(jobs[t][i])
  <2>1. PICK i \in JobIds : Replaceable(jobs[t][i])
    BY <1>3
  <2>2. jobs[t][i].status \in Waiting /\ jobs[t][i].resume = 0
    BY <2>1 DEF Replaceable, Waiting
  <2>3. RowKnows(live[t], mirror[t], jobs[t], t, jobs[t][i]) /\ \A v \in Workers : ~CallingAt(v, t)
    BY <2>2, LatestFacts DEF Over, Waiting
  <2> QED BY <2>2, <2>3 DEF RowKnows
<1>4. CASE posted /\ \A i \in JobIds : ~Replaceable(jobs[t][i])
  <2>1. \A i \in JobIds : jobs[t][i].status \in Over
    BY <1>4
  <2>2. Out(live[t], t, 0) \/ GivenUp(mirror[t], jobs[t])
    BY <1>1, <1>4, <2>1 DEF PostsKnown, ClosedKnows, TakenBack, Shelved
  <2>3. ASSUME NEW v \in Workers, CallingAt(v, t) PROVE FALSE
    <3>1. attempt[v].id \in JobIds
      BY <1>1, <2>3 DEF CallingAt, InFlight, Idle, TypeOK, Attempt
    <3>2. CallerSees(v, jobs[t], attempt[v].id, posted, t \in abandoned)
      BY <1>1, <2>3 DEF AttemptsKnow, CallerKnows
    <3> QED BY <1>4, <2>1, <3>1, <3>2 DEF CallerSees, Over
  <2> QED BY <2>2, <2>3, PartsType DEF Undone
<1> QED BY <1>2, <1>3, <1>4

\* A plan begins again only what has nothing out: everything else is final, in
\* flight or part-way out, or an operator has given it up.
LEMMA PlanKeeps ==
  ASSUME Reached, Kept, NEW enabled \in SUBSET Targets, Plan(enabled)
  PROVE  PromiseInv'
<1> DEFINE fresh == {t \in enabled : ~FinalTarget(t)}
<1>1. NoJob.status = "no_row" /\ NewRow.status = "queued" /\ NewRow.resume = 0 /\ NewRow.progress = 0
  BY DEF NoJob, NewRow
<1>2. /\ \A t \in Targets : jobs'[t] =
           IF t \in fresh THEN [KeptRows(t) EXCEPT ![nextJob[t]] = NewRow] ELSE KeptRows(t)
      /\ draft # "cancelled" /\ posted' /\ mirror' = mirror /\ attempt' = attempt /\ live' = live
      /\ abandoned' = abandoned /\ \A t \in fresh : nextJob[t] <= MaxJobs
  BY DEF Plan
<1>3. enabled \cap abandoned = {}
  BY DEF Plan, Kept
<1>4. \A t \in Targets, i \in JobIds :
        KeptRows(t)[i] = IF Replaceable(jobs[t][i]) THEN NoJob ELSE jobs[t][i]
  BY DEF KeptRows
<1>5. ASSUME NEW t \in fresh PROVE TargetInv(t)'
  <2>1. t \in Targets /\ PostsKnown(t) /\ TypeOK /\ \A i \in JobIds : jobs[t][i] \in Row
    BY DEF Reached, PromiseInv, TargetInv, TypeOK
  <2>2. nextJob[t] \in JobIds /\ jobs[t][nextJob[t]].status = "no_row"
    <3>1. nextJob[t] \in JobIds /\ nextJob[t] \in Nat
      BY <1>2, <2>1, BoundsAssumption DEF TypeOK, JobIds
    <3>2. nextJob[t] \notin Rows(t)
      BY <2>1, <3>1 DEF Reached, RowsInv, IdsOnlyGrow
    <3> QED BY <3>1, <3>2 DEF Rows, HasRow
  <2>3. \A i \in JobIds : jobs[t][i].status \in Over \/ Replaceable(jobs[t][i])
    <3> SUFFICES ASSUME NEW i \in JobIds PROVE jobs[t][i].status \in Over \/ Replaceable(jobs[t][i])
      OBVIOUS
    <3>1. i \in Rows(t) => \/ jobs[t][i].status \in {"failed", "queued"} /\ ~(jobs[t][i].resume > 0)
                           \/ jobs[t][i].status = "cancelled"
      BY <2>1, <1>5 DEF FinalTarget, Row, JobStatus, Rows, HasRow
    <3>2. jobs[t][i].resume \in Nat
      BY <2>1 DEF Row
    <3> QED BY <3>1, <3>2 DEF Rows, HasRow, Over, Replaceable
  <2>4. /\ Undone(live[t], t, 0) \/ GivenUp(mirror[t], jobs[t])
        /\ \A v \in Workers : ~CallingAt(v, t)
    BY <1>2, <1>3, <1>5, <2>1, <2>3, BeginningFacts
  <2>5. \A i \in JobIds : jobs'[t][i] = IF i = nextJob[t] THEN NewRow
                                        ELSE IF Replaceable(jobs[t][i]) THEN NoJob ELSE jobs[t][i]
    BY <1>2, <1>5, <2>1, <2>2 DEF KeptRows
  <2>6. GivenUp(mirror[t], jobs[t]) => GivenUp(mirror'[t], jobs'[t])
    BY <1>2, <2>2, <2>5 DEF GivenUp, Replaceable
  <2>7. RowKnows(live'[t], mirror'[t], jobs'[t], t, NewRow)
    BY <1>1, <1>2, <2>4, <2>6 DEF RowKnows, Waiting, Superseded
  <2>8. \A i \in JobIds : RowKnows(live'[t], mirror'[t], jobs'[t], t, jobs'[t][i])
    <3> SUFFICES ASSUME NEW i \in JobIds, i # nextJob[t]
                 PROVE  RowKnows(live'[t], mirror'[t], jobs'[t], t, jobs'[t][i])
      BY <2>2, <2>5, <2>7
    <3>1. jobs'[t][i].status \in Over
      BY <1>1, <2>3, <2>5 DEF Over
    <3> QED BY <3>1 DEF RowKnows, Over, Waiting, Superseded
  <2>9. ClosedKnows(t)' /\ Untouched(t)'
    BY <1>1, <1>2, <2>2, <2>5 DEF ClosedKnows, Untouched, Over
  <2>10. AttemptsKnow(t)'
    BY <1>1, <1>2, <2>1, <2>3, <2>4, <2>5, QuietKeeps DEF Over
  <2> QED BY <1>2, <2>1, <2>8, <2>9, <2>10 DEF PostsKnown, TargetInv
<1>6. ASSUME NEW t \in Targets, t \notin fresh PROVE TargetInv(t)'
  <2>1. PostsKnown(t) /\ TypeOK /\ TargetInv(t) /\ jobs[t] \in [JobIds -> Row]
    BY DEF Reached, PromiseInv, TargetInv, TypeOK
  <2>2. jobs'[t] = KeptRows(t)
    BY <1>2, <1>6
  <2>3. CASE posted /\ \A i \in JobIds : ~Replaceable(jobs[t][i])
    <3>1. jobs'[t] = jobs[t]
      BY <2>1, <2>2, <2>3 DEF KeptRows
    <3>2. StayOrEnd(t)
      BY <1>2 DEF StayOrEnd, SameAttempt, InFlight, Idle
    <3> QED BY <1>2, <2>1, <2>3, <3>1, <3>2, AsideKept DEF Aside, Shelved
  <2>4. CASE posted /\ \E i \in JobIds : Replaceable(jobs[t][i])
    <3>1. PICK i \in JobIds : Replaceable(jobs[t][i])
      BY <2>4
    <3>2. jobs[t][i].status \in Waiting /\ jobs[t][i].resume = 0
      BY <3>1 DEF Replaceable, Waiting
    <3>3. /\ RowKnows(live[t], mirror[t], jobs[t], t, jobs[t][i]) /\ \A v \in Workers : ~CallingAt(v, t)
          /\ \A k \in JobIds : k # i => jobs[t][k].status \in Over
      BY <3>2, LatestFacts DEF Over, Waiting
    <3>4. \A k \in JobIds : jobs'[t][k] = IF k = i THEN NoJob ELSE jobs[t][k]
      BY <1>4, <2>2, <3>1, <3>3 DEF Replaceable, Over
    <3>5. Out(live[t], t, 0) \/ GivenUp(mirror[t], jobs[t])
      BY <3>2, <3>3 DEF RowKnows, Undone
    <3>6. GivenUp(mirror[t], jobs[t]) => GivenUp(mirror'[t], jobs'[t])
      BY <1>2, <3>2, <3>4 DEF GivenUp, Waiting
    <3>7. \A k \in JobIds : jobs'[t][k].status \in Over
      BY <1>1, <3>3, <3>4 DEF Over
    <3>8. \A k \in JobIds : RowKnows(live'[t], mirror'[t], jobs'[t], t, jobs'[t][k])
      BY <3>7 DEF RowKnows, Over, Waiting, Superseded
    <3>9. ClosedKnows(t)' /\ Untouched(t)'
      BY <1>2, <3>5, <3>6 DEF ClosedKnows, Untouched, GivenUp
    <3>10. AttemptsKnow(t)'
      BY <1>2, <3>3, <3>7, QuietKeeps DEF Over
    <3> QED BY <1>2, <2>1, <3>8, <3>9, <3>10 DEF PostsKnown, TargetInv
  <2>5. CASE ~posted
    <3>1. \A i \in JobIds : jobs[t][i].status = "no_row"
      BY <2>5 DEF Reached, RowsAreAsked, Rows, HasRow
    <3>2. Out(live[t], t, 0) /\ \A w \in Workers : ~AtPlatform(w, t)
      BY <1>2, <2>1, <2>5 DEF PostsKnown, Untouched
    <3>3. \A i \in JobIds : jobs'[t][i].status = "no_row"
      BY <1>1, <1>4, <2>2, <3>1
    <3>4. \A i \in JobIds : RowKnows(live'[t], mirror'[t], jobs'[t], t, jobs'[t][i])
      BY <3>3 DEF RowKnows, Waiting, Superseded
    <3>5. ClosedKnows(t)' /\ Untouched(t)'
      BY <1>2, <3>2 DEF ClosedKnows, Untouched
    <3>6. AttemptsKnow(t)'
      BY <1>2, <3>2, <3>3, QuietKeeps DEF CallingAt, Calling, AtPlatform
    <3> QED BY <1>2, <2>1, <3>4, <3>5, <3>6 DEF PostsKnown, TargetInv
  <2> QED BY <2>3, <2>4, <2>5
<1> QED BY <1>5, <1>6 DEF PromiseInv

\* What a command of these asks for again, Kept lets it ask for.
AskedFor == Operations \cap {"retry", "resend"} # {}

\* A row that failed goes on after the posts it says are out; a row that would
\* begin again on a target that names a post is refused.
LEMMA ResumeKeeps ==
  ASSUME Reached, Kept, AskedFor, NEW t \in Targets, NEW i \in JobIds, ResumeFailed(t, i), AskedAgain(t),
         live' = live
  PROVE  PromiseInv'
<1> DEFINE row == [Settled(jobs[t][i], "queued") EXCEPT !.attempt = 0, !.resume = jobs[t][i].resume, !.progress = 0]
           image == [status |-> "queued", ext |-> mirror[t].ext /\ jobs[t][i].resume > 0]
<1>1. /\ Latest(t, i) /\ jobs[t][i].status = "failed" /\ ~AlreadyDelivered(t, jobs[t][i])
      /\ attempt' = attempt /\ posted' = posted /\ abandoned' = abandoned \ {t}
  BY DEF ResumeFailed, AskedAgain
<1>2. /\ posted /\ \A k \in JobIds : k # i => jobs[t][k].status \in Over
      /\ RowKnows(live[t], mirror[t], jobs[t], t, jobs[t][i]) /\ MirrorKnows(live[t], mirror[t])
      /\ jobs[t][i] \in Row /\ mirror[t] \in MirrorRow /\ \A v \in Workers : ~CallingAt(v, t)
  BY <1>1, LatestFacts DEF Waiting
<1>3. jobs' = [jobs EXCEPT ![t][i] = row] /\ mirror' = [mirror EXCEPT ![t] = image]
  BY DEF ResumeFailed, Requeue, Reached, TypeOK
<1>4. row.status = "queued" /\ row.resume = jobs[t][i].resume /\ row.progress = 0 /\ jobs[t][i].resume \in Nat
  BY <1>2 DEF Settled, Unlocked, Row
<1>5. image.status = "queued" /\ (image.ext <=> mirror[t].ext /\ jobs[t][i].resume > 0)
  OBVIOUS
<1> HIDE DEF row, image
<1>6. Undone(live[t], t, jobs[t][i].resume)
  BY <1>1, <1>2 DEF RowKnows, Waiting, AlreadyDelivered, GivenUp
\* A staged row that may be asked for again has nothing out.
<1>7. Staged(t) => jobs[t][i].resume = 0
  BY <1>4, <1>6 DEF Kept, LeftAlone, AskedFor, Staged, Undone
<1>8. RowKnows(live[t], image, jobs'[t], t, row) /\ MirrorKnows(live[t], image)
  BY <1>1, <1>2, <1>4, <1>5, <1>6, <1>7 DEF RowKnows, MirrorKnows, Waiting, Superseded
<1>9. \A u \in Targets : Shelved(u) => Shelved(u)'
  BY DEF Shelved, AskedFor
<1> QED BY <1>1, <1>2, <1>3, <1>4, <1>8, <1>9, OneRowKeeps

LEMMA FirstJob ==
  ASSUME Reached, NEW t \in Targets, CreateMissing(t)
  PROVE  nextJob[t] \in JobIds /\ \A k \in JobIds : jobs[t][k].status = "no_row"
<1>1. nextJob[t] \in 1 .. MaxJobs + 1 /\ nextJob[t] <= MaxJobs
  BY DEF CreateMissing, Reached, TypeOK
<1>2. \A k \in JobIds : jobs[t][k].status = "no_row"
  BY DEF CreateMissing, Rows, HasRow
<1> QED BY <1>1, <1>2, BoundsAssumption DEF JobIds

\* A target without a row begins, for it has nothing out.
LEMMA MissingKeeps ==
  ASSUME Reached, AskedFor, NEW t \in Targets, CreateMissing(t), AskedAgain(t), live' = live
  PROVE  PromiseInv'
<1>1. attempt' = attempt /\ posted /\ posted' = posted /\ abandoned' = abandoned \ {t}
      /\ jobs' = [jobs EXCEPT ![t][nextJob[t]] = NewRow]
      /\ mirror' = [mirror EXCEPT ![t] = [status |-> "queued", ext |-> FALSE]]
  BY DEF CreateMissing, AskedAgain
<1>2. nextJob[t] \in JobIds /\ \A k \in JobIds : jobs[t][k].status = "no_row"
  BY FirstJob
<1>3. Undone(live[t], t, 0)
  BY <1>1, <1>2, PartsType DEF Reached, PromiseInv, TargetInv, PostsKnown, ClosedKnows, Undone
<1>4. ASSUME NEW v \in Workers, CallingAt(v, t) PROVE FALSE
  <2>1. attempt[v].id \in JobIds
    BY <1>4 DEF CallingAt, InFlight, Idle, Reached, TypeOK, Attempt
  <2>2. CallerSees(v, jobs[t], attempt[v].id, posted, t \in abandoned)
    BY <1>4 DEF Reached, PromiseInv, TargetInv, AttemptsKnow, CallerKnows
  <2> QED BY <1>1, <1>2, <2>1, <2>2 DEF CallerSees
<1>5. NewRow.status = "queued" /\ NewRow.resume = 0 /\ NewRow.progress = 0
  BY DEF NewRow
<1> DEFINE image == [status |-> "queued", ext |-> FALSE]
<1>6. RowKnows(live[t], image, jobs'[t], t, NewRow) /\ MirrorKnows(live[t], image)
  BY <1>3, <1>5 DEF RowKnows, MirrorKnows, Waiting, Superseded
<1>7. \A k \in JobIds : k # nextJob[t] => jobs[t][k].status \in Over
  BY <1>2 DEF Over
<1>8. mirror' = [mirror EXCEPT ![t] = image]
  BY <1>1
<1> HIDE DEF image
<1>9. \A u \in Targets : Shelved(u) => Shelved(u)'
  BY DEF Shelved, AskedFor
<1> QED BY <1>1, <1>2, <1>4, <1>5, <1>6, <1>7, <1>8, <1>9, OneRowKeeps

LEMMA RetryKeeps ==
  ASSUME Reached, Kept, NEW t \in Targets, Retry(t) \/ Resend(t)
  PROVE  PromiseInv'
<1>1. AskedFor
  BY DEF Retry, Resend, Command, AskedFor
<1> QED BY <1>1, ResumeKeeps, MissingKeeps DEF Retry, Resend

\* Everything again, once what is out has been taken down.
LEMMA RepublishKeeps ==
  ASSUME Reached, NEW t \in Targets, Republish(t)
  PROVE  PromiseInv'
<1>1. /\ \A w \in Workers : ~AtPlatform(w, t)
      /\ posted' /\ posted' = posted /\ attempt' = attempt /\ abandoned' = abandoned \ {t}
      /\ live' = [live EXCEPT ![t] = [p \in DOMAIN @ |-> 0]]
  BY DEF Republish, AskedAgain
<1>2. TypeOK /\ jobs[t] \in [JobIds -> Row] /\ mirror[t] \in MirrorRow
      /\ DOMAIN live = Targets /\ live[t] \in [1 .. Parts[t] -> 0 .. 2]
  BY DEF Reached, TypeOK
<1>3. /\ \A p \in 1 .. Parts[t] : live'[t][p] = 0
      /\ \A u \in Targets : u # t => live'[u] = live[u]
  BY <1>1, <1>2
<1> DEFINE Written(i, row) ==
             /\ row.status = "queued" /\ row.resume = 0 /\ row.progress = 0 /\ jobs' = [jobs EXCEPT ![t][i] = row]
             /\ \A k \in JobIds : k # i => jobs[t][k].status \in Over
             /\ mirror' = [mirror EXCEPT ![t] = [status |-> "queued", ext |-> FALSE]]
<1>4. \E i \in JobIds : \E row : Written(i, row)
  <2>1. CASE CreateMissing(t)
    <3>1. nextJob[t] \in JobIds /\ \A k \in JobIds : jobs[t][k].status \in Over
      BY <2>1, FirstJob DEF Over
    <3>2. NewRow.status = "queued" /\ NewRow.resume = 0 /\ NewRow.progress = 0
      BY DEF NewRow
    <3> QED BY <2>1, <3>1, <3>2 DEF CreateMissing
  <2>2. ASSUME NEW i \in JobIds, Latest(t, i), Requeue(t, i, 0)
        PROVE  \E row : Written(i, row)
    <3> DEFINE row == [Settled(jobs[t][i], "queued") EXCEPT !.attempt = 0, !.resume = 0, !.progress = 0]
    <3>1. jobs' = [jobs EXCEPT ![t][i] = row]
      BY <2>2 DEF Requeue
    <3>2. row.status = "queued" /\ row.resume = 0 /\ row.progress = 0
      BY <1>2 DEF Settled, Unlocked, Row
    <3>3. mirror' = [mirror EXCEPT ![t] = [status |-> "queued", ext |-> FALSE]]
      <4>1. mirror' = [mirror EXCEPT ![t] = [status |-> "queued", ext |-> mirror[t].ext /\ 0 > 0]]
        BY <2>2 DEF Requeue
      <4>2. (mirror[t].ext /\ 0 > 0) = FALSE
        OBVIOUS
      <4> QED BY <4>1, <4>2
    <3>4. \A k \in JobIds : k # i => jobs[t][k].status \in Over
      BY <2>2, LatestFacts
    <3> HIDE DEF row
    <3> QED BY <3>1, <3>2, <3>3, <3>4
  <2> QED BY <2>1, <2>2 DEF Republish
<1>4a. PICK i \in JobIds : \E row : Written(i, row)
  BY <1>4
<1>4b. PICK row : Written(i, row)
  BY <1>4a
<1> DEFINE image == [status |-> "queued", ext |-> FALSE]
<1>5. jobs'[t] = [jobs[t] EXCEPT ![i] = row] /\ mirror'[t] = image
      /\ \A u \in Targets : u # t => jobs'[u] = jobs[u] /\ mirror'[u] = mirror[u]
  BY <1>2, <1>4b DEF TypeOK
<1>6. \A k \in JobIds : jobs'[t][k] = IF k = i THEN row ELSE jobs[t][k]
  BY <1>2, <1>5
<1>7. image.status = "queued" /\ ~image.ext
  OBVIOUS
<1> HIDE DEF image
<1>8. PostsKnown(t)'
  <2>1. Out(live'[t], t, 0) /\ Once(live'[t], t)
    BY <1>3, NothingOut
  <2>2. RowKnows(live'[t], mirror'[t], jobs'[t], t, row) /\ MirrorKnows(live'[t], mirror'[t])
    BY <1>4b, <1>5, <1>7, <2>1, PartsType DEF RowKnows, MirrorKnows, Waiting, Superseded, Undone
  <2> QED BY <1>1, <1>2, <1>4b, <1>5, <2>1, <2>2, RowWritten
<1>9. AttemptsKnow(t)'
  <2>1. \A v \in Workers : ~CallingAt(v, t)'
    BY <1>1 DEF CallingAt, Calling, AtPlatform, InFlight, Idle
  <2>2. \A v \in Workers : InFlight(v, t)' => attempt'[v].id \in JobIds
    BY <1>1, <1>2 DEF InFlight, Idle, TypeOK, Attempt
  <2>3. \A v \in Workers : InFlight(v, t)' => ~Held(jobs'[t][attempt'[v].id], v)
    BY <1>4b, <1>6, <2>2 DEF Held, Over
  <2> QED BY <2>1, <2>3, NobodyLeft
<1>10. ASSUME NEW u \in Targets, u # t PROVE TargetInv(u)'
  <2>1. StayOrEnd(u)
    BY <1>1 DEF StayOrEnd, SameAttempt, InFlight, Idle
  <2>2. Aside(u)
    BY <1>1, <1>3, <1>5, <1>10, <2>1 DEF Aside, Shelved, Republish, Command
  <2> QED BY <1>2, <1>10, <2>2, AsideKept DEF Reached, PromiseInv
<1> QED BY <1>8, <1>9, <1>10 DEF PromiseInv, TargetInv

LEMMA SkipKeeps ==
  ASSUME Reached, NEW t \in Targets, Skip(t)
  PROVE  PromiseInv'
<1>1. PICK i \in JobIds :
        /\ Latest(t, i) /\ jobs[t][i].status \in {"failed", "verification_required"}
        /\ jobs' = [jobs EXCEPT ![t][i] = Settled(@, "cancelled")]
  BY DEF Skip
<1>2. /\ attempt' = attempt /\ live' = live /\ posted' = posted /\ abandoned' = abandoned \cup {t}
      /\ mirror' = [mirror EXCEPT ![t].status = "cancelled"]
  BY DEF Skip
<1> DEFINE row == Settled(jobs[t][i], "cancelled")
           image == [mirror[t] EXCEPT !.status = "cancelled"]
<1>3. /\ posted /\ \A k \in JobIds : k # i => jobs[t][k].status \in Over
      /\ MirrorKnows(live[t], mirror[t]) /\ jobs[t][i] \in Row /\ mirror[t] \in MirrorRow
  BY <1>1, LatestFacts
<1>4. jobs' = [jobs EXCEPT ![t][i] = row] /\ mirror' = [mirror EXCEPT ![t] = image]
  BY <1>1, <1>2
<1>5. row.status = "cancelled"
  BY <1>3 DEF Settled, Unlocked, Row
<1>6. image.status = "cancelled" /\ image.ext = mirror[t].ext
  BY <1>3 DEF MirrorRow
<1> HIDE DEF row, image
<1>7. RowKnows(live[t], image, jobs'[t], t, row) /\ MirrorKnows(live[t], image)
  BY <1>3, <1>5, <1>6 DEF RowKnows, MirrorKnows, Waiting, Superseded
<1>8. \A u \in Targets : Shelved(u) => Shelved(u)'
  BY DEF Skip, Refreshed, Shelved
<1> QED BY <1>2, <1>3, <1>4, <1>5, <1>7, <1>8, OneRowKeeps DEF Waiting

\* What the operator found on the platform settles the doubt: with nothing there
\* the row said of nothing that it was out.
LEMMA SettleAmbiguousKeeps ==
  ASSUME Reached, NEW t \in Targets, NEW found \in BOOLEAN, SettleAmbiguous(t, found)
  PROVE  PromiseInv'
<1> DEFINE status == IF found THEN "published" ELSE "queued"
<1>1. PICK i \in JobIds :
        /\ Latest(t, i) /\ jobs[t][i].status = "verification_required"
        /\ jobs' = [jobs EXCEPT ![t][i] = [Settled(@, status) EXCEPT !.attempt = 0]]
  BY DEF SettleAmbiguous
<1>2. /\ attempt' = attempt /\ live' = live /\ posted' = posted /\ abandoned' = abandoned
      /\ \A w \in Workers : ~AtPlatform(w, t)
      /\ mirror' = [mirror EXCEPT ![t] = [status |-> status, ext |-> found]]
  BY DEF SettleAmbiguous, ghosts
<1> DEFINE row == [Settled(jobs[t][i], status) EXCEPT !.attempt = 0]
           image == [status |-> status, ext |-> found]
<1>3. /\ posted /\ \A k \in JobIds : k # i => jobs[t][k].status \in Over
      /\ RowKnows(live[t], mirror[t], jobs[t], t, jobs[t][i]) /\ MirrorKnows(live[t], mirror[t])
      /\ jobs[t][i] \in Row /\ mirror[t] \in MirrorRow
  BY <1>1, LatestFacts
<1>4. jobs' = [jobs EXCEPT ![t][i] = row] /\ mirror' = [mirror EXCEPT ![t] = image]
  BY <1>1, <1>2
<1>5. row.status = status /\ row.resume = jobs[t][i].resume /\ jobs[t][i].resume \in Nat
      /\ row.progress = jobs[t][i].progress /\ (Staged(t) => jobs[t][i].progress = jobs[t][i].resume)
  BY <1>1, <1>3 DEF Settled, Unlocked, Row, RowKnows, Superseded
<1>6. image.status = status /\ image.ext = found
  OBVIOUS
<1>7. live[t] \in [1 .. Parts[t] -> 0 .. 2] /\ Once(live[t], t)
  BY DEF Reached, TypeOK, PromiseInv, TargetInv, PostsKnown
<1>7a. found <=> \E p \in 1 .. Parts[t] : live[t][p] > 0
  <2>1. found <=> \E p \in DOMAIN live[t] : live[t][p] > 0
    BY DEF SettleAmbiguous
  <2> QED BY <1>7, <2>1
<1>8. found => live[t][1] > 0
  BY <1>7, <1>7a DEF Once
<1>9. ~found => Undone(live[t], t, 0) /\ jobs[t][i].resume = 0
  <2> SUFFICES ASSUME ~found PROVE Undone(live[t], t, 0) /\ jobs[t][i].resume = 0
    OBVIOUS
  <2>1. \A p \in 1 .. Parts[t] : live[t][p] = 0
    <3>1. \A p \in 1 .. Parts[t] : live[t][p] \in 0 .. 2 /\ ~(live[t][p] > 0)
      BY <1>7, <1>7a
    <3> QED BY <3>1
  <2>2. ~mirror[t].ext
    BY <1>3, <2>1, PartsType DEF MirrorKnows
  <2> QED BY <1>1, <1>3, <1>5, <2>1, <2>2, NothingOut, PartsType DEF RowKnows, Undone, Superseded
<1>10. status \in {"published", "queued"} /\ (status = "queued" <=> ~found)
  OBVIOUS
<1> HIDE DEF row, image, status
<1>11. RowKnows(live[t], image, jobs'[t], t, row) /\ MirrorKnows(live[t], image)
  BY <1>5, <1>6, <1>8, <1>9, <1>10 DEF RowKnows, MirrorKnows, Waiting, Superseded
<1>12. \A v \in Workers : ~CallingAt(v, t)
  BY <1>2 DEF CallingAt, Calling, AtPlatform
<1>13. \A u \in Targets : Shelved(u) => Shelved(u)'
  BY DEF SettleAmbiguous, Refreshed, Shelved
<1> QED BY <1>2, <1>3, <1>4, <1>5, <1>10, <1>11, <1>12, <1>13, OneRowKeeps

-----------------------------------------------------------------------------
(* The invariant *)

LEMMA PromiseStep ==
  ASSUME Reached, Kept, [Next]_vars
  PROVE  PromiseInv'
<1>1. CASE UNCHANGED vars
  <2>1. \A u \in Targets : StayOrEnd(u)
    BY <1>1 DEF vars, StayOrEnd, SameAttempt, InFlight, Idle
  <2>2. \A u \in Targets : Aside(u)
    BY <1>1, <2>1 DEF vars, Aside, Shelved
  <2> QED BY <2>2, AllAside
<1>2. CASE \E w \in Workers : Deliver(w) \/ Heartbeat(w)
  BY <1>2, DeliverKeeps, LeasesKeep
<1>3. CASE \E t \in Targets, i \in JobIds : ClaimStep(t, i) \/ LeaseExpires(t, i) \/ ReconcileClaim(t, i)
  BY <1>3, ClaimKeeps, ClaimRefusedKeeps, LeasesKeep DEF ClaimStep
<1>4. CASE RecoverStale \/ Reconcile \/ Crash
  <2>1. CASE Reconcile
    <3>1. PICK t \in Targets, i \in JobIds : t = recon.target /\ i = recon.id
      BY <2>1, AskingPlace DEF Reconcile, ReconcileConfirm, ReconcileDefer, Reached
    <3> QED BY <2>1, <3>1, ReconcileKeeps
  <2> QED BY <1>4, <2>1, RecoverKeeps, CrashKeeps
<1>5. CASE Operator
  <2>1. ~\E t \in Targets : ResumeFrom(t)
    BY DEF Kept, ResumeFrom, Command
  <2> QED BY <1>5, <2>1, PlanKeeps, CancelRestKeeps, CancelDraftKeeps, RetryKeeps, RepublishKeeps, SkipKeeps,
             SettleAmbiguousKeeps DEF Operator
<1> QED BY <1>1, <1>2, <1>3, <1>4, <1>5 DEF Next

LEMMA PromiseStarts == Init => PromiseInv
<1> SUFFICES ASSUME Init, NEW t \in Targets PROVE TargetInv(t)
  BY DEF PromiseInv
<1>1. /\ \A i \in JobIds : jobs[t][i] = NoJob
      /\ mirror[t] = [status |-> "absent", ext |-> FALSE]
      /\ \A w \in Workers : attempt[w] = IdleAttempt
      /\ \A p \in 1 .. Parts[t] : live[t][p] = 0
      /\ ~posted
  BY DEF Init
<1>2. Out(live[t], t, 0) /\ Once(live[t], t)
  BY <1>1, NothingOut
<1>3. \A i \in JobIds : jobs[t][i].status = "no_row"
  BY <1>1 DEF NoJob, NewRow
<1>4. \A i \in JobIds : RowKnows(live[t], mirror[t], jobs[t], t, jobs[t][i])
  BY <1>3 DEF RowKnows, Waiting, Superseded
<1>5. MirrorKnows(live[t], mirror[t])
  BY <1>1 DEF MirrorKnows
<1>6. \A w \in Workers : ~InFlight(w, t)
  BY <1>1 DEF InFlight, Idle
<1>7. ClosedKnows(t) /\ Untouched(t)
  BY <1>1, <1>2, <1>6 DEF ClosedKnows, Untouched, AtPlatform
<1>8. AttemptsKnow(t)
  BY <1>6 DEF AttemptsKnow, HolderKnows, CallerKnows, OneCaller, CallingAt
<1> QED BY <1>2, <1>4, <1>5, <1>7, <1>8 DEF TargetInv, PostsKnown

\* Where every adapter hands back what went out and every answer can be read,
\* whoever publishes next knows what is out: in every reachable state, whatever
\* crashes, timeouts, lost answers, lost leases and commands came in between.
THEOREM PostsAreKnown ==
  ASSUME Kept
  PROVE  Spec => []PromiseInv
<1>1. IndInv /\ RowsInv /\ PromiseInv => Reached
  BY DEF IndInv, Reached
<1>2. Reached /\ [Next]_vars => PromiseInv'
  BY PromiseStep
<1> QED BY <1>1, <1>2, PromiseStarts, Inductive, RowsAreOrdered, PTL DEF Spec

\* No reader of a target sees a post of the publication twice.
THEOREM NothingTwice ==
  ASSUME Kept
  PROVE  Spec => []NoDuplicate
<1>1. IndInv /\ PromiseInv => NoDuplicate
  BY DEF IndInv, TypeOK, PromiseInv, TargetInv, PostsKnown, Once, NoDuplicate
<1> QED BY <1>1, PostsAreKnown, Inductive, PTL

\* What Studio says is published names a post, and what it names is out.
THEOREM NamesAreLive ==
  ASSUME Kept
  PROVE  Spec => []PublishedIsLive
<1>1. PromiseInv => PublishedIsLive
  BY DEF PromiseInv, TargetInv, PostsKnown, MirrorKnows, PublishedIsLive
<1> QED BY <1>1, PostsAreKnown, PTL

\* A post that is out stays accounted for once nothing is under way on its target.
THEOREM NothingIsForgotten ==
  ASSUME Kept
  PROVE  Spec => []NothingForgotten
<1>1. IndInv /\ RowsInv /\ PromiseInv => NothingForgotten
  <2> SUFFICES ASSUME IndInv, RowsInv, PromiseInv, NEW t \in Targets, ~mirror[t].ext, t \notin abandoned,
                      posted,
                      \A i \in Rows(t) : /\ ~(jobs[t][i].resume > 0)
                                         /\ jobs[t][i].status \notin {"publishing", "verification_required"}
               PROVE  \A p \in DOMAIN live[t] : live[t][p] = 0
    BY DEF NothingForgotten
  <2>1. PostsKnown(t) /\ live[t] \in [1 .. Parts[t] -> 0 .. 2] /\ jobs[t] \in [JobIds -> Row]
    BY DEF IndInv, TypeOK, PromiseInv, TargetInv
  <2>2. (\A i \in JobIds : jobs[t][i].status \in Over) => Out(live[t], t, 0)
    BY <2>1 DEF PostsKnown, ClosedKnows, GivenUp, TakenBack, Rows, HasRow
  <2>3. ASSUME NEW i \in JobIds, jobs[t][i].status \notin Over
        PROVE  Out(live[t], t, 0)
    <3>1. RowKnows(live[t], mirror[t], jobs[t], t, jobs[t][i]) /\ MirrorKnows(live[t], mirror[t])
      BY <2>1 DEF PostsKnown
    <3>2. i \in Rows(t) /\ jobs[t][i].resume \in Nat /\ jobs[t][i].status \in JobStatus
      BY <2>1, <2>3 DEF Rows, HasRow, Over, Row
    <3>3. jobs[t][i].resume = 0
      BY <3>2
    <3>4. jobs[t][i].status # "published"
      BY <3>1, <3>2 DEF RowsInv, MirrorAgrees, MirrorKnows
    <3>5. jobs[t][i].status \in Waiting \cup {"skipped"}
      BY <2>3, <3>2, <3>4 DEF JobStatus, Waiting, Over
    <3> QED BY <3>1, <3>3, <3>5 DEF RowKnows, Undone, GivenUp
  <2>4. Out(live[t], t, 0) => \A p \in 1 .. Parts[t] : live[t][p] = 0
    BY PartsType DEF Out
  <2> QED BY <2>1, <2>2, <2>3, <2>4
<1> QED BY <1>1, PostsAreKnown, Inductive, RowsAreOrdered, PTL

-----------------------------------------------------------------------------
(* The refinement *)

\* A call that is accepted shows the next part of its target; if a cancellation
\* stands, the target had begun before it.
LEMMA DeliverShows ==
  ASSUME Reached, Kept, FinishedOnly, NEW w \in Workers, Deliver(w)
  PROVE  Promise!Next \/ (live' = live /\ declared' = declared /\ begun' = begun)
<1>1. declared' = declared /\ begun' = begun /\ ~Idle(w) /\ TypeOK
  BY DeliverElsewhere DEF Reached
<1>2. live' = live \/ (Lands(w) /\ Calling(w))
  <2>1. (\E class \in ErrorClasses : FailBeforeCall(w, class) \/ CallRejected(w, class)) => live' = live
    BY DEF FailBeforeCall, CallRejected, SettleFrame
  <2>2. ~\E class \in ErrorClasses : CallUnreadable(w, class)
    BY DEF Kept, CallUnreadable
  <2>3. (Timeout(w) \/ FinalizationFails(w) \/ FailureUnrecorded(w) \/ CompleteDeferred(w)
         \/ CompleteFinal(w) \/ \E answered \in BOOLEAN : CompletePartial(w, answered)) => live' = live
    BY DEF Timeout, FinalizationFails, FailureUnrecorded, CompleteDeferred, CompleteFinal, CompletePartial,
           SettleFrame
  <2>4. (EnterPhase(w) \/ LeaseLost(w) \/ \E refusal \in Refusals : CallDeclined(w, refusal)) => live' = live
    BY DEF EnterPhase, LeaseLost, CallDeclined
  <2>5. (CallAccepted(w) \/ \E landed \in BOOLEAN : CallLost(w, landed)) => live' = live \/ (Lands(w) /\ Calling(w))
    BY DEF CallAccepted, CallLost
  <2> QED BY <2>1, <2>2, <2>3, <2>4, <2>5 DEF Deliver
<1>3. CASE Lands(w) /\ Calling(w)
  <2>1. PICK t \in Targets : t = attempt[w].target
    BY <1>1 DEF TypeOK, Idle, Attempt
  <2> DEFINE n == attempt[w].from + attempt[w].sent
  <2>2. n \in Nat
    BY <1>1 DEF TypeOK, Idle, Attempt
  <2>3. CallingAt(w, t) /\ InFlight(w, t)
    BY <1>1, <1>3, <2>1 DEF CallingAt, InFlight
  <2>4. Undone(live[t], t, n)
    BY <2>3 DEF Reached, PromiseInv, TargetInv, AttemptsKnow, CallerKnows
  <2>5. live' = [live EXCEPT ![t][n + 1] = Copies(@)]
    BY <1>3, <2>1 DEF Lands, NextPart, PublishedSoFar
  <2>6. declared => t \in begun
    BY <2>3 DEF FinishedOnly, PartWay
  <2> HIDE DEF n
  <2>7. /\ n + 1 \in 1 .. Parts[t] /\ live[t][n + 1] = 0 /\ (n > 0 => live[t][n] = 1)
        /\ live' = [live EXCEPT ![t][n + 1] = 1]
    BY <1>1, <2>2, <2>4, <2>5, OneMore
  <2>8. Promise!Show(t, n + 1)
    <3>1. (n + 1) - 1 = n /\ (n + 1 > 1 => n > 0)
      BY <2>2
    <3> QED BY <1>1, <2>6, <2>7, <3>1 DEF Promise!Show
  <2> QED BY <2>7, <2>8 DEF Promise!Next
<1> QED BY <1>1, <1>2, <1>3

\* What a command means to the audience.
LEMMA CommandAsks ==
  ASSUME TypeOK, Kept, Operator
  PROVE  Promise!Next \/ (live' = live /\ declared' = declared /\ begun' = begun)
<1>1. CASE (\E enabled \in SUBSET Targets : Plan(enabled)) \/ \E t \in Targets : Retry(t) \/ Resend(t)
  <2>1. live' = live /\ declared' = FALSE /\ begun' = {}
    BY <1>1 DEF Plan, Retry, Resend, AskedAgain
  <2> QED BY <2>1 DEF Promise!Next, Promise!Ask
<1>2. ASSUME NEW t \in Targets, Republish(t)
      PROVE  Promise!Next
  <2>1. live' = [live EXCEPT ![t] = [p \in DOMAIN live[t] |-> 0]] /\ declared' = FALSE /\ begun' = {}
    BY <1>2 DEF Republish, AskedAgain
  <2>2. DOMAIN live[t] = 1 .. Parts[t]
    BY DEF TypeOK
  <2>3. live' = Promise!TakenDown(t)
    BY <2>1, <2>2 DEF Promise!TakenDown
  <2> QED BY <2>1, <2>3 DEF Promise!Next, Promise!Ask
<1>3. CASE CancelRest \/ CancelDraft
  <2>1. live' = live /\ (Declare \/ (declared' = declared /\ begun' = begun))
    BY <1>3 DEF CancelRest, CancelDraft
  <2>2. CASE Declare /\ declared
    BY <2>1, <2>2 DEF Declare, TypeOK
  <2>3. CASE Declare /\ ~declared
    <3>1. declared' = TRUE /\ begun' \in SUBSET Targets
      BY <2>3 DEF Declare
    <3> QED BY <2>1, <2>3, <3>1 DEF Promise!Next, Promise!Stop
  <2> QED BY <2>1, <2>2, <2>3
<1>4. ASSUME NEW t \in Targets, Skip(t) \/ \E found \in BOOLEAN : SettleAmbiguous(t, found)
      PROVE  live' = live /\ declared' = declared /\ begun' = begun
  BY <1>4 DEF Skip, SettleAmbiguous, ghosts
<1>5. ~\E t \in Targets : ResumeFrom(t)
  BY DEF Kept, ResumeFrom, Command
<1> QED BY <1>1, <1>2, <1>3, <1>4, <1>5 DEF Operator

LEMMA StepIsPromised ==
  ASSUME Reached, Kept, FinishedOnly, [Next]_vars
  PROVE  [Promise!Next]_(Promise!promiseVars)
<1> DEFINE Stutters == live' = live /\ declared' = declared /\ begun' = begun
<1>1. Stutters => UNCHANGED Promise!promiseVars
  BY DEF Promise!promiseVars
<1>2. CASE UNCHANGED vars
  BY <1>1, <1>2 DEF vars
<1>3. CASE \E w \in Workers : Deliver(w) \/ Heartbeat(w)
  <2>1. (\E w \in Workers : Heartbeat(w)) => Stutters
    BY DEF Heartbeat, studio, ghosts
  <2> QED BY <1>1, <1>3, <2>1, DeliverShows
<1>4. ASSUME NEW t \in Targets, NEW i \in JobIds,
             ClaimStep(t, i) \/ LeaseExpires(t, i) \/ ReconcileClaim(t, i)
      PROVE  Stutters
  <2>1. ClaimStep(t, i) => Stutters
    BY DEF ClaimStep, Claim, ClaimRefuseDuplicate, ClaimStopCancelled, studio, ghosts
  <2>2. LeaseExpires(t, i) \/ ReconcileClaim(t, i) => Stutters
    BY DEF LeaseExpires, ReconcileClaim, studio, ghosts
  <2> QED BY <1>4, <2>1, <2>2
<1>5. CASE RecoverStale \/ Reconcile \/ Crash
  <2>1. Stutters
    BY <1>5 DEF RecoverStale, Reconcile, ReconcileConfirm, ReconcileDefer, Crash, studio, ghosts
  <2> QED BY <1>1, <2>1
<1>6. CASE Operator
  BY <1>1, <1>6, CommandAsks DEF Reached
<1> QED BY <1>1, <1>2, <1>3, <1>4, <1>5, <1>6 DEF Next

\* The queue implements DeliveryPromise: the audience of each target sees its
\* posts in order and once each, and a cancellation lets only what had begun grow.
THEOREM PromiseIsKept ==
  ASSUME Kept
  PROVE  Spec => KeepsPromise
<1>1. Init => Promise!Init
  BY DEF Init, Promise!Init
<1>2. IndInv /\ RowsInv /\ PromiseInv => Reached
  BY DEF IndInv, Reached
<1>3. Reached /\ FinishedOnly /\ [Next]_vars => [Promise!Next]_(Promise!promiseVars)
  BY StepIsPromised
<1>4. Init => FinishedOnly
  BY DEF Init, FinishedOnly
<1>5. TypeOK /\ FinishedOnly /\ [Next]_vars => FinishedOnly'
  BY FinishedStep
<1>6. Reached => TypeOK
  BY DEF Reached
<1> QED BY <1>1, <1>2, <1>3, <1>4, <1>5, <1>6, PostsAreKnown, Inductive, RowsAreOrdered, PTL
        DEF Spec, KeepsPromise, Promise!Spec
=============================================================================
