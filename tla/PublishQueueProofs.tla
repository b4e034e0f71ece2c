------------------------- MODULE PublishQueueProofs -------------------------
(***************************************************************************)
(* Theorems of PublishQueue, for every set of targets and workers, every   *)
(* adapter, number of parts and budget.                                    *)
(*                                                                         *)
(* The argument is one induction.  StepEffect says what any step may do to *)
(* a row (RowEffect), to an attempt (AttemptEffect) and to the types of    *)
(* the rest; one lemma per action shows that the action keeps to it, and   *)
(* the invariants follow from StepEffect without looking at actions again. *)
(* What the rows of a target say taken together needs more of the actions, *)
(* and is argued in the same way from OrderEffect in the last part.        *)
(***************************************************************************)
EXTENDS PublishQueue, TLAPS

-----------------------------------------------------------------------------
(* Types of the values the actions build *)

LEMMA CapType == AttemptCap \in Nat /\ \A n \in Nat : Spend(n) \in 0 .. AttemptCap
BY BoundsAssumption DEF AttemptCap, Spend, Most, Least

LEMMA SettledType ==
  ASSUME NEW row \in Row, NEW status \in JobStatus
  PROVE  /\ Settled(row, status) \in Row /\ Unlocked(row) \in Row
         /\ Settled(row, status).status = status /\ Settled(row, status).lockedBy = "none"
         /\ Unlocked(row).status = row.status /\ Unlocked(row).lockedBy = "none"
BY DEF Settled, Unlocked, Row, Phases

LEMMA NewRowType == NewRow \in Row /\ NoJob \in Row
<1>1. 0 \in 0 .. AttemptCap /\ 0 \in 0 .. ReconcileMax
  BY CapType, BoundsAssumption
<1>2. NewRow \in Row
  BY <1>1 DEF NewRow, Row, JobStatus, Phases
<1> QED BY <1>2 DEF NoJob, Row

LEMMA RefreshedType ==
  ASSUME NEW js, NEW d \in DraftStatus
  PROVE  Refreshed(js, d) \in DraftStatus
BY DEF Refreshed, DraftStatus

-----------------------------------------------------------------------------
(* What a step does to a row, said once for every action *)

\* The sweep's own lock: while it asks, a step leaves the row in question as it
\* was, or takes the lock away.
QuestionKept(old, new) ==
  (new.status = "verification_required" /\ new.lockedBy = "recon" /\ recon # IdleRecon)
    => /\ old.status = "verification_required" /\ old.lockedBy = "recon"
       /\ new.reconcile = old.reconcile

\* An attempt's lock: it stays with its phase, ages out, or its holder moves.
HoldKept(old, new) ==
  old.status = "publishing" =>
    \/ new.status = "publishing" /\ new.lockedBy = old.lockedBy /\ new.phase = old.phase
    \/ new.status # "publishing" /\ old.stale
    \/ \E w \in Workers : /\ old.lockedBy = w /\ attempt'[w] # attempt[w]
                          /\ new.status = "publishing" => new.lockedBy = w

\* A lock is new only to the attempt that claims.
HoldTaken(old, new) ==
  (new.status = "publishing" /\ old.status # "publishing")
    => \E w \in Workers : new.lockedBy = w /\ attempt'[w].pc = "claimed"

\* A row appears only in a publication that was asked for.
RowAsked(old, new) == (old.status = "no_row" /\ new.status # "no_row") => posted'

RowEffect(old, new) ==
  /\ new \in Row
  /\ QuestionKept(old, new) /\ HoldKept(old, new) /\ HoldTaken(old, new) /\ RowAsked(old, new)

JobsEffect ==
  /\ jobs' \in [Targets -> [JobIds -> Row]]
  /\ \A t \in Targets, i \in JobIds : RowEffect(jobs[t][i], jobs'[t][i])

LEMMA SameRow ==
  ASSUME NEW row \in Row
  PROVE  RowEffect(row, row)
BY DEF RowEffect, QuestionKept, HoldKept, HoldTaken, RowAsked

LEMMA SameJobs ==
  ASSUME TypeOK, jobs' = jobs
  PROVE  JobsEffect
BY SameRow DEF TypeOK, JobsEffect

LEMMA OneRow ==
  ASSUME TypeOK, NEW t \in Targets, NEW i \in JobIds, NEW row,
         jobs' = [jobs EXCEPT ![t][i] = row], RowEffect(jobs[t][i], row)
  PROVE  JobsEffect
<1>1. row \in Row
  BY DEF RowEffect
<1>2. jobs' \in [Targets -> [JobIds -> Row]]
  BY <1>1 DEF TypeOK
<1>3. ASSUME NEW u \in Targets, NEW k \in JobIds
      PROVE  RowEffect(jobs[u][k], jobs'[u][k])
  <2>1. jobs[u][k] \in Row
    BY DEF TypeOK
  <2>2. CASE u = t /\ k = i
    BY <2>2 DEF TypeOK
  <2>3. CASE ~(u = t /\ k = i)
    <3>1. jobs'[u][k] = jobs[u][k]
      BY <2>3 DEF TypeOK
    <3> QED BY <3>1, <2>1, SameRow
  <2> QED BY <2>2, <2>3
<1> QED BY <1>2, <1>3 DEF JobsEffect

\* A row nobody delivers may be dropped, and so may be settled.
LEMMA LetGo ==
  ASSUME NEW row \in Row, NEW new \in Row, row.status # "publishing",
         row.status # "no_row" \/ new.status = "no_row" \/ posted',
         new.status # "publishing", new.lockedBy # "recon"
  PROVE  RowEffect(row, new)
BY DEF RowEffect, QuestionKept, HoldKept, HoldTaken, RowAsked

LEMMA ClearEffect ==
  ASSUME NEW row \in Row, row.status \in Superseded
  PROVE  RowEffect(row, NoJob)
<1>1. NoJob.status = "no_row" /\ NoJob.lockedBy = "none"
  BY DEF NoJob, NewRow
<1> QED BY <1>1, LetGo, NewRowType DEF Superseded

-----------------------------------------------------------------------------
(* A worker's settlements *)

\* What a settlement leaves in the row of its attempt, lease held or lost.
OwnEffect(w, row) ==
  /\ jobs' = jobs \/ jobs'[attempt[w].target][attempt[w].id] = row
  /\ ~Holds(w) => jobs' = jobs

LEMMA SettleEffect ==
  ASSUME TypeOK, NEW w \in Workers, ~Idle(w), NEW row \in Row, NEW image \in MirrorRow,
         NEW superseding \in BOOLEAN, NEW refreshing \in BOOLEAN,
         row.status # "publishing", row.lockedBy = "none", attempt'[w] # attempt[w],
         Settle(w, row, image, superseding, refreshing)
  PROVE  /\ JobsEffect
         /\ mirror' \in [Targets -> MirrorRow] /\ draft' \in DraftStatus
         /\ OwnEffect(w, row)
<1> DEFINE t == attempt[w].target
           i == attempt[w].id
           written == [jobs[t] EXCEPT ![i] = row]
           rows == IF superseding THEN ClearSuperseded(written, i) ELSE written
<1>1. t \in Targets /\ i \in JobIds
  BY DEF TypeOK, Idle, Attempt
<1>2. CASE Holds(w)
  <2>1. jobs' = [jobs EXCEPT ![t] = rows]
    BY <1>2 DEF Settle
  <2>2. jobs[t] \in [JobIds -> Row] /\ jobs[t][i].status = "publishing" /\ jobs[t][i].lockedBy = w
    BY <1>1, <1>2 DEF TypeOK, Holds
  <2>3. RowEffect(jobs[t][i], row)
    BY <2>2 DEF RowEffect, QuestionKept, HoldKept, HoldTaken, RowAsked
  <2>4. \A k \in JobIds : RowEffect(jobs[t][k], rows[k])
    <3> SUFFICES ASSUME NEW k \in JobIds PROVE RowEffect(jobs[t][k], rows[k])
      OBVIOUS
    <3>1. jobs[t][k] \in Row
      BY <2>2
    <3>2. CASE k = i
      <4>1. rows[k] = row
        BY <3>2, <2>2 DEF ClearSuperseded
      <4> QED BY <4>1, <2>3, <3>2
    <3>3. CASE k # i /\ rows[k] = jobs[t][k]
      BY <3>1, <3>3, SameRow
    <3>4. CASE k # i /\ rows[k] # jobs[t][k]
      <4>1. rows[k] = NoJob /\ jobs[t][k].status \in Superseded
        BY <3>4, <2>2 DEF ClearSuperseded
      <4> QED BY <4>1, <3>1, ClearEffect
    <3> QED BY <3>2, <3>3, <3>4
  <2>5. rows \in [JobIds -> Row] /\ rows[i] = row
    <3>1. rows = [k \in JobIds |-> rows[k]]
      BY <2>2 DEF ClearSuperseded
    <3>2. \A k \in JobIds : rows[k] \in Row
      BY <2>4 DEF RowEffect
    <3>3. rows[i] = row
      BY <2>2, <1>1 DEF ClearSuperseded
    <3> HIDE DEF rows
    <3> QED BY <3>1, <3>2, <3>3
  <2>6. JobsEffect /\ jobs'[t][i] = row
    <3> HIDE DEF rows
    <3>1. jobs' \in [Targets -> [JobIds -> Row]] /\ jobs'[t] = rows
      BY <2>1, <2>5, <1>1 DEF TypeOK
    <3>2. ASSUME NEW u \in Targets, NEW k \in JobIds PROVE RowEffect(jobs[u][k], jobs'[u][k])
      <4>1. CASE u = t
        BY <4>1, <3>1, <2>4
      <4>2. CASE u # t
        <5>1. jobs'[u] = jobs[u] /\ jobs[u][k] \in Row
          BY <4>2, <2>1 DEF TypeOK
        <5> QED BY <5>1, SameRow
      <4> QED BY <4>1, <4>2
    <3> QED BY <3>1, <3>2, <2>5 DEF JobsEffect
  <2>7. mirror' \in [Targets -> MirrorRow]
    BY <1>1, <1>2 DEF Settle, TypeOK
  <2>8. draft' = IF refreshing THEN Refreshed(jobs', draft) ELSE draft
    BY <1>2 DEF Settle
  <2>9. draft' \in DraftStatus
    BY <2>8, RefreshedType DEF TypeOK
  <2> QED BY <2>6, <2>7, <2>9, <1>2 DEF OwnEffect
<1>3. CASE ~Holds(w)
  BY <1>3, SameJobs DEF Settle, TypeOK, OwnEffect
<1> QED BY <1>2, <1>3

-----------------------------------------------------------------------------
(* What a step does to an attempt, and to everything else *)

SamePlace(w) ==
  /\ attempt[w] \in Attempt /\ attempt'[w] \in Attempt
  /\ attempt'[w].target = attempt[w].target /\ attempt'[w].id = attempt[w].id

AttemptEffect(w) ==
  \/ attempt'[w] = attempt[w]
  \/ attempt'[w] = IdleAttempt
  \/ attempt'[w] \in Attempt /\ attempt'[w].pc = "claimed"
  \/ SamePlace(w) /\ attempt'[w].pc = attempt[w].pc /\ jobs' = jobs
  \/ SamePlace(w) /\ jobs'[attempt[w].target][attempt[w].id].status # "publishing"
  \/ SamePlace(w) /\ ~Holds(w) /\ jobs' = jobs
  \/ SamePlace(w) /\ jobs'[attempt[w].target][attempt[w].id].phase = attempt'[w].pc

StepEffect ==
  /\ TypeOK' /\ JobsEffect
  /\ \A w \in Workers : AttemptEffect(w)
  /\ recon' = recon \/ recon' = IdleRecon \/ PollsLeft'
  /\ posted' = posted \/ posted' \/ \A t \in Targets, i \in JobIds : jobs'[t][i] = NoJob

LEMMA OwnType ==
  ASSUME TypeOK, NEW w \in Workers, ~Idle(w)
  PROVE  attempt[w] \in Attempt /\ OwnRow(w) \in Row /\ OwnMirror(w) \in MirrorRow
<1>1. attempt[w] \in Attempt
  BY DEF TypeOK, Idle
<1> QED BY <1>1 DEF Attempt, TypeOK, OwnRow, OwnMirror

LEMMA SpentType ==
  ASSUME NEW row \in Row, NEW status \in JobStatus
  PROVE  LET spent == [Settled(row, status) EXCEPT !.attempt = Spend(@)]
         IN  spent \in Row /\ spent.status = status /\ spent.lockedBy = "none"
<1>1. row.attempt \in Nat
  BY CapType DEF Row
<1>2. Spend(row.attempt) \in 0 .. AttemptCap
  BY <1>1, CapType
<1>3. Settled(row, status) \in Row
  BY SettledType
<1>4. Settled(row, status).attempt = row.attempt /\ Settled(row, status).status = status
      /\ Settled(row, status).lockedBy = "none"
  BY DEF Settled, Unlocked, Row
<1> QED BY <1>2, <1>3, <1>4 DEF Row

LEMMA OthersStay ==
  ASSUME TypeOK, NEW w \in Workers, NEW a, attempt' = [attempt EXCEPT ![w] = a],
         a \in Attempt \cup {IdleAttempt}, AttemptEffect(w)
  PROVE  /\ attempt' \in [Workers -> Attempt \cup {IdleAttempt}]
         /\ \A v \in Workers : AttemptEffect(v)
BY DEF TypeOK, AttemptEffect

\* An attempt that settles its row and ends.
LEMMA SettleAndRetire ==
  ASSUME TypeOK, NEW w \in Workers, ~Idle(w), NEW row \in Row, NEW image \in MirrorRow,
         NEW superseding \in BOOLEAN, NEW refreshing \in BOOLEAN,
         row.status # "publishing", row.lockedBy = "none",
         Settle(w, row, image, superseding, refreshing), Retire(w),
         UNCHANGED <<nextJob, declared, posted, recon, ghosts, ops, crashes>>,
         DOMAIN live' = Targets /\ \A t \in Targets : live'[t] \in [1 .. Parts[t] -> 0 .. 2]
  PROVE  StepEffect
<1>1. attempt'[w] = IdleAttempt /\ attempt'[w] # attempt[w]
  BY DEF Retire, TypeOK, Idle
<1>2. AttemptEffect(w)
  BY <1>1 DEF AttemptEffect
<1>3. /\ attempt' \in [Workers -> Attempt \cup {IdleAttempt}]
      /\ \A v \in Workers : AttemptEffect(v)
  BY <1>2, OthersStay DEF Retire
<1>4. /\ JobsEffect /\ mirror' \in [Targets -> MirrorRow] /\ draft' \in DraftStatus
  BY <1>1, SettleEffect
<1> QED BY <1>3, <1>4 DEF StepEffect, TypeOK, JobsEffect, ghosts

LEMMA FailBy ==
  ASSUME TypeOK, NEW w \in Workers, ~Idle(w), NEW class, Fail(w, class)
  PROVE  \E row \in Row, image \in MirrorRow, refreshing \in BOOLEAN :
           /\ row.status # "publishing" /\ row.lockedBy = "none"
           /\ Settle(w, row, image, TRUE, refreshing)
<1> DEFINE status == AfterFailure(class, OwnRow(w).attempt)
           row == [Settled(OwnRow(w), status) EXCEPT !.attempt = Spend(@)]
           image == [OwnMirror(w) EXCEPT !.status = status]
<1>1. status \in {"queued", "failed"}
  BY DEF AfterFailure
<1>2. row \in Row /\ row.status # "publishing" /\ row.lockedBy = "none"
  <2>1. status \in JobStatus
    BY <1>1 DEF JobStatus
  <2> HIDE DEF status
  <2> QED BY <2>1, <1>1, SpentType, OwnType
<1>3. image \in MirrorRow
  <2> HIDE DEF status
  <2> QED BY <1>1, OwnType DEF MirrorRow, JobStatus
<1>4. Settle(w, row, image, TRUE, status = "failed")
  BY DEF Fail
<1> HIDE DEF row, image, status
<1> QED BY <1>2, <1>3, <1>4

LEMMA VerificationBy ==
  ASSUME TypeOK, NEW w \in Workers, ~Idle(w), RequireVerification(w)
  PROVE  \E row \in Row, image \in MirrorRow :
           /\ row.status = "verification_required" /\ row.lockedBy = "none"
           /\ Settle(w, row, image, TRUE, TRUE)
<1> DEFINE row == [Settled(OwnRow(w), "verification_required") EXCEPT !.attempt = Spend(@)]
           image == [OwnMirror(w) EXCEPT !.status = "verification_required"]
<1>1. row \in Row /\ row.status = "verification_required" /\ row.lockedBy = "none"
  BY SpentType, OwnType DEF JobStatus
<1>2. image \in MirrorRow
  BY OwnType DEF MirrorRow, JobStatus
<1>3. Settle(w, row, image, TRUE, TRUE)
  BY DEF RequireVerification
<1> HIDE DEF row, image
<1> QED BY <1>1, <1>2, <1>3

-----------------------------------------------------------------------------
(* The steps of an attempt *)

LEMMA LandsType ==
  ASSUME TypeOK, NEW w \in Workers, Lands(w)
  PROVE  DOMAIN live' = Targets /\ \A t \in Targets : live'[t] \in [1 .. Parts[t] -> 0 .. 2]
<1>1. \A n \in 0 .. 2 : Copies(n) \in 0 .. 2
  BY DEF Copies, Least
<1> QED BY <1>1 DEF Lands, TypeOK

LEMMA EnterPhaseStep ==
  ASSUME TypeOK, NEW w \in Workers, EnterPhase(w)
  PROVE  StepEffect
<1> DEFINE a == attempt[w]
           row == [jobs[a.target][a.id] EXCEPT !.phase = NextPc[a.pc]]
           moved == [a EXCEPT !.pc = NextPc[a.pc]]
<1>1. a \in Attempt /\ a.pc \in {"claimed", "validate", "prepare", "publish"}
  BY OwnType DEF EnterPhase, Attempt, Pcs
<1>2. NextPc[a.pc] \in {"validate", "prepare", "publish", "verify"} /\ NextPc[a.pc] # a.pc
  BY <1>1 DEF NextPc
<1>3. moved \in Attempt /\ moved # a /\ moved.target = a.target /\ moved.id = a.id
      /\ moved.pc = NextPc[a.pc]
  BY <1>1, <1>2 DEF Attempt, Pcs
<1>4. attempt' = [attempt EXCEPT ![w] = moved]
  BY DEF EnterPhase
<1>5. a.target \in Targets /\ a.id \in JobIds /\ jobs[a.target][a.id] \in Row
  BY <1>1 DEF Attempt, TypeOK
<1>6. jobs' = [jobs EXCEPT ![a.target][a.id] = row]
  BY DEF EnterPhase
<1>7. row \in Row /\ row.status = "publishing" /\ row.lockedBy = w /\ row.phase = NextPc[a.pc]
  BY <1>2, <1>5 DEF EnterPhase, Holds, Row, Phases
<1>8. attempt'[w] = moved
  BY <1>4 DEF TypeOK
<1>9. jobs[a.target][a.id].lockedBy = w /\ jobs[a.target][a.id].status = "publishing"
  BY DEF EnterPhase, Holds
<1> HIDE DEF row, moved
<1>10. RowEffect(jobs[a.target][a.id], row)
  BY <1>3, <1>7, <1>8, <1>9 DEF RowEffect, QuestionKept, HoldKept, HoldTaken, RowAsked
<1>11. JobsEffect
  BY <1>5, <1>6, <1>10, OneRow
<1>12. jobs'[a.target][a.id] = row
  BY <1>5, <1>6 DEF TypeOK
<1>13. AttemptEffect(w)
  BY <1>1, <1>3, <1>7, <1>8, <1>12 DEF AttemptEffect, SamePlace
<1>14. /\ attempt' \in [Workers -> Attempt \cup {IdleAttempt}]
       /\ \A v \in Workers : AttemptEffect(v)
  BY <1>3, <1>4, <1>13, OthersStay
<1> QED BY <1>11, <1>14 DEF EnterPhase, StepEffect, TypeOK, JobsEffect, ghosts, studio

LEMMA LeaseLostStep ==
  ASSUME TypeOK, NEW w \in Workers, LeaseLost(w)
  PROVE  StepEffect
<1>1. AttemptEffect(w)
  BY DEF LeaseLost, Retire, AttemptEffect, TypeOK
<1>2. /\ attempt' \in [Workers -> Attempt \cup {IdleAttempt}]
      /\ \A v \in Workers : AttemptEffect(v)
  BY <1>1, OthersStay DEF LeaseLost, Retire
<1>3. JobsEffect
  BY SameJobs DEF LeaseLost, queue
<1> QED BY <1>2, <1>3 DEF LeaseLost, StepEffect, TypeOK, ghosts, studio, queue

LEMMA FailBeforeCallStep ==
  ASSUME TypeOK, NEW w \in Workers, NEW class \in ErrorClasses, FailBeforeCall(w, class)
  PROVE  StepEffect
<1>1. ~Idle(w)
  BY DEF FailBeforeCall, Idle, IdleAttempt
<1>2. PICK row \in Row, image \in MirrorRow, refreshing \in BOOLEAN :
        /\ row.status # "publishing" /\ row.lockedBy = "none"
        /\ Settle(w, row, image, TRUE, refreshing)
  BY <1>1, FailBy DEF FailBeforeCall
<1> QED BY <1>1, <1>2, SettleAndRetire DEF FailBeforeCall, SettleFrame, TypeOK

\* An attempt that only learns something of its call.
LEMMA LearnStep ==
  ASSUME TypeOK, NEW w \in Workers, NEW a, attempt' = [attempt EXCEPT ![w] = a],
         a = IdleAttempt \/ (/\ a \in Attempt /\ attempt[w] \in Attempt
                             /\ a.target = attempt[w].target /\ a.id = attempt[w].id
                             /\ a.pc = attempt[w].pc),
         UNCHANGED <<queue, studio, recon, ghosts, ops, crashes>>,
         DOMAIN live' = Targets /\ \A t \in Targets : live'[t] \in [1 .. Parts[t] -> 0 .. 2]
  PROVE  StepEffect
<1>1. JobsEffect /\ jobs' = jobs
  BY SameJobs DEF queue
<1>2. AttemptEffect(w)
  <2>1. attempt'[w] = a
    BY DEF TypeOK
  <2> QED BY <1>1, <2>1 DEF AttemptEffect, SamePlace
<1>3. /\ attempt' \in [Workers -> Attempt \cup {IdleAttempt}]
      /\ \A v \in Workers : AttemptEffect(v)
  BY <1>2, OthersStay
<1> QED BY <1>1, <1>3 DEF StepEffect, TypeOK, ghosts, studio, queue

LEMMA CallAcceptedStep ==
  ASSUME TypeOK, NEW w \in Workers, CallAccepted(w)
  PROVE  StepEffect
<1> DEFINE a == attempt[w]
           last == NextPart(w) = Parts[a.target]
           result == IF last THEN "ok" ELSE IF Adapter[a.target] = "staged" THEN "deferred" ELSE "none"
           told == [a EXCEPT !.sent = @ + 1, !.result = result]
           learnt == IF a.zombie /\ result # "none" THEN IdleAttempt ELSE told
<1>1. ~Idle(w)
  BY DEF CallAccepted, Calling, Idle, IdleAttempt
<1>2. a \in Attempt
  BY <1>1, OwnType
<1>3. attempt' = [attempt EXCEPT ![w] = learnt]
  BY DEF CallAccepted
<1>4. result \in Results
  BY DEF Results
<1>5. told \in Attempt /\ told.target = a.target /\ told.id = a.id /\ told.pc = a.pc
  <2>1. a.sent \in Nat /\ a.sent + 1 \in Nat
    BY <1>2 DEF Attempt
  <2> HIDE DEF result, a
  <2> QED BY <1>2, <1>4, <2>1 DEF Attempt
<1>6. DOMAIN live' = Targets /\ \A t \in Targets : live'[t] \in [1 .. Parts[t] -> 0 .. 2]
  BY LandsType DEF CallAccepted
<1>7. UNCHANGED <<queue, studio, recon, ghosts, ops, crashes>>
  BY DEF CallAccepted
<1>8. learnt = IdleAttempt \/ learnt = told
  OBVIOUS
<1> HIDE DEF told, learnt
<1> QED BY <1>2, <1>3, <1>5, <1>6, <1>7, <1>8, LearnStep

LEMMA CallDeclinedStep ==
  ASSUME TypeOK, NEW w \in Workers, NEW refusal \in Refusals, CallDeclined(w, refusal)
  PROVE  StepEffect
<1> DEFINE learnt == [attempt[w] EXCEPT !.result = refusal]
<1>1. ~Idle(w)
  BY DEF CallDeclined, Calling, Idle, IdleAttempt
<1>2. attempt[w] \in Attempt
  BY <1>1, OwnType
<1>3. attempt' = [attempt EXCEPT ![w] = learnt]
  BY DEF CallDeclined
<1>4. learnt \in Attempt /\ learnt.target = attempt[w].target /\ learnt.id = attempt[w].id
      /\ learnt.pc = attempt[w].pc
  BY <1>2 DEF Attempt, Results, Refusals
<1> HIDE DEF learnt
<1> QED BY <1>2, <1>3, <1>4, LearnStep DEF CallDeclined, TypeOK

LEMMA RefusedStep ==
  ASSUME TypeOK, NEW w \in Workers, NEW class \in ErrorClasses, Calling(w), Refused(w, class),
         UNCHANGED <<nextJob, declared, posted, recon, ghosts, ops, crashes>>,
         DOMAIN live' = Targets /\ \A t \in Targets : live'[t] \in [1 .. Parts[t] -> 0 .. 2]
  PROVE  StepEffect
<1>1. ~Idle(w)
  BY DEF Calling, Idle, IdleAttempt
<1>2. attempt[w] \in Attempt
  BY <1>1, OwnType
<1>3. CASE attempt[w].zombie
  BY <1>3, LearnStep DEF Refused, Retire, queue, studio
<1>4. CASE ~attempt[w].zombie /\ Adapter[attempt[w].target] = "chain" /\ PublishedSoFar(w) > 0
  <2> DEFINE learnt == [attempt[w] EXCEPT !.result = "partial"]
  <2>1. attempt' = [attempt EXCEPT ![w] = learnt] /\ UNCHANGED <<jobs, mirror, draft>>
    BY <1>4 DEF Refused
  <2>2. learnt \in Attempt /\ learnt.target = attempt[w].target /\ learnt.id = attempt[w].id
        /\ learnt.pc = attempt[w].pc
    BY <1>2 DEF Attempt, Results
  <2> HIDE DEF learnt
  <2> QED BY <1>2, <2>1, <2>2, LearnStep DEF queue, studio
<1>5. CASE ~attempt[w].zombie /\ ~(Adapter[attempt[w].target] = "chain" /\ PublishedSoFar(w) > 0)
  <2>1. Fail(w, class) /\ Retire(w)
    BY <1>5 DEF Refused
  <2>2. PICK row \in Row, image \in MirrorRow, refreshing \in BOOLEAN :
          /\ row.status # "publishing" /\ row.lockedBy = "none"
          /\ Settle(w, row, image, TRUE, refreshing)
    BY <1>1, <2>1, FailBy
  <2> QED BY <1>1, <2>1, <2>2, SettleAndRetire
<1> QED BY <1>3, <1>4, <1>5

LEMMA CallLostStep ==
  ASSUME TypeOK, NEW w \in Workers, NEW landed \in BOOLEAN, CallLost(w, landed)
  PROVE  StepEffect
<1>1. ~Idle(w)
  BY DEF CallLost, Calling, Idle, IdleAttempt
<1>2. DOMAIN live' = Targets /\ \A t \in Targets : live'[t] \in [1 .. Parts[t] -> 0 .. 2]
  BY LandsType DEF CallLost, TypeOK
<1>3. CASE attempt[w].zombie
  BY <1>2, <1>3, LearnStep DEF CallLost, Retire, queue, studio
<1>4. CASE ~attempt[w].zombie
  <2>1. PICK row \in Row, image \in MirrorRow :
          /\ row.status = "verification_required" /\ row.lockedBy = "none"
          /\ Settle(w, row, image, TRUE, TRUE)
    BY <1>1, <1>4, VerificationBy DEF CallLost
  <2> QED BY <1>1, <1>2, <2>1, SettleAndRetire DEF CallLost
<1> QED BY <1>3, <1>4

LEMMA CallRejectedStep ==
  ASSUME TypeOK, NEW w \in Workers, NEW class \in ErrorClasses, CallRejected(w, class)
  PROVE  StepEffect
BY RefusedStep DEF CallRejected, SettleFrame, TypeOK

LEMMA CallUnreadableStep ==
  ASSUME TypeOK, NEW w \in Workers, NEW class \in ErrorClasses, CallUnreadable(w, class)
  PROVE  StepEffect
BY RefusedStep, LandsType DEF CallUnreadable

LEMMA TimeoutStep ==
  ASSUME TypeOK, NEW w \in Workers, Timeout(w)
  PROVE  StepEffect
<1> DEFINE a == attempt[w]
           waits == a.pc = "publish" /\ a.result = "none"
           zombie == [a EXCEPT !.zombie = TRUE]
<1>1. ~Idle(w) /\ ~a.zombie /\ attempt' = [attempt EXCEPT ![w] = IF waits THEN zombie ELSE IdleAttempt]
  BY DEF Timeout
<1>2. a \in Attempt
  BY <1>1, OwnType
<1>3. UNCHANGED <<nextJob, declared, posted, recon, live, ghosts, ops, crashes>>
  BY DEF Timeout, SettleFrame
<1>4. PICK row \in Row, image \in MirrorRow, refreshing \in BOOLEAN :
        /\ row.status # "publishing" /\ row.lockedBy = "none"
        /\ Settle(w, row, image, TRUE, refreshing)
  <2>1. CASE RequireVerification(w)
    BY <1>1, <2>1, VerificationBy
  <2>2. CASE Fail(w, "permanent")
    BY <1>1, <2>2, FailBy
  <2> QED BY <2>1, <2>2 DEF Timeout
<1>5. CASE ~waits
  <2>1. Retire(w)
    BY <1>1, <1>5 DEF Retire
  <2> QED BY <1>1, <1>3, <1>4, <2>1, SettleAndRetire DEF TypeOK
<1>6. CASE waits
  <2>1. zombie \in Attempt /\ zombie # a /\ zombie.target = a.target /\ zombie.id = a.id /\ zombie.pc = a.pc
    <3>1. zombie.zombie = TRUE
      BY <1>2 DEF Attempt
    <3> QED BY <1>1, <1>2, <3>1 DEF Attempt
  <2> HIDE DEF zombie
  <2>2. attempt' = [attempt EXCEPT ![w] = zombie] /\ attempt'[w] = zombie
    BY <1>1, <1>6 DEF TypeOK
  <2>3. /\ JobsEffect /\ mirror' \in [Targets -> MirrorRow] /\ draft' \in DraftStatus
        /\ OwnEffect(w, row)
    <3>1. attempt'[w] # attempt[w] /\ ~Idle(w)
      BY <1>1, <2>1, <2>2
    <3> QED BY <1>4, <3>1, SettleEffect
  <2>4. AttemptEffect(w)
    BY <1>2, <1>4, <2>1, <2>2, <2>3 DEF AttemptEffect, SamePlace, OwnEffect
  <2>5. /\ attempt' \in [Workers -> Attempt \cup {IdleAttempt}]
        /\ \A v \in Workers : AttemptEffect(v)
    BY <2>1, <2>2, <2>4, OthersStay
  <2> QED BY <1>3, <2>3, <2>5 DEF StepEffect, TypeOK, JobsEffect, ghosts
<1> QED BY <1>5, <1>6

LEMMA CompleteDeferredStep ==
  ASSUME TypeOK, NEW w \in Workers, CompleteDeferred(w)
  PROVE  StepEffect
<1> DEFINE row == [Settled(OwnRow(w), "queued") EXCEPT !.progress = PublishedSoFar(w),
                                                       !.resume = PublishedSoFar(w)]
           image == [OwnMirror(w) EXCEPT !.status = "queued"]
<1>1. ~Idle(w)
  BY DEF CompleteDeferred, Idle, IdleAttempt
<1>2. PublishedSoFar(w) \in Nat
  BY <1>1, OwnType DEF PublishedSoFar, Attempt
<1>3. row \in Row /\ row.status = "queued" /\ row.lockedBy = "none"
  <2> DEFINE settled == Settled(OwnRow(w), "queued")
  <2>1. settled \in Row /\ settled.status = "queued" /\ settled.lockedBy = "none"
    BY <1>1, OwnType, SettledType DEF JobStatus
  <2>2. row = [settled EXCEPT !.progress = PublishedSoFar(w), !.resume = PublishedSoFar(w)]
    OBVIOUS
  <2> HIDE DEF settled, row
  <2> QED BY <1>2, <2>1, <2>2 DEF Row
<1>4. image \in MirrorRow
  BY <1>1, OwnType DEF MirrorRow, JobStatus
<1>5. Settle(w, row, image, FALSE, FALSE) /\ Retire(w) /\ SettleFrame
  BY DEF CompleteDeferred
<1> HIDE DEF row, image
<1> QED BY <1>1, <1>3, <1>4, <1>5, SettleAndRetire DEF SettleFrame, TypeOK

LEMMA CompletePartialStep ==
  ASSUME TypeOK, NEW w \in Workers, NEW answered \in BOOLEAN, CompletePartial(w, answered)
  PROVE  StepEffect
<1> DEFINE status == IF OwnRow(w).attempt + 1 < PartialMaxAttempts /\ ~answered
                     THEN "queued" ELSE "failed"
           spent == [Settled(OwnRow(w), status) EXCEPT !.attempt = Spend(@)]
           row == [Settled(OwnRow(w), status) EXCEPT !.attempt = Spend(@),
                                                    !.resume = PublishedSoFar(w)]
           image == [status |-> status, ext |-> TRUE]
<1>1. ~Idle(w)
  BY DEF CompletePartial, Idle, IdleAttempt
<1>2. PublishedSoFar(w) \in Nat
  BY <1>1, OwnType DEF PublishedSoFar, Attempt
<1>3. status \in {"queued", "failed"}
  OBVIOUS
<1>4. row \in Row /\ row.status = status /\ row.lockedBy = "none"
  <2> HIDE DEF status
  <2>1. status \in JobStatus
    BY <1>3 DEF JobStatus
  <2>2. spent \in Row /\ spent.status = status /\ spent.lockedBy = "none"
    BY <1>1, <2>1, OwnType, SpentType
  <2>3. row = [spent EXCEPT !.resume = PublishedSoFar(w)]
    OBVIOUS
  <2> HIDE DEF spent, row
  <2> QED BY <1>2, <2>2, <2>3 DEF Row
<1>5. image \in MirrorRow
  <2> HIDE DEF status
  <2> QED BY <1>3 DEF MirrorRow, JobStatus
<1>6. Settle(w, row, image, TRUE, status = "failed") /\ Retire(w) /\ SettleFrame
  BY DEF CompletePartial
<1> HIDE DEF row, image, status
<1> QED BY <1>1, <1>3, <1>4, <1>5, <1>6, SettleAndRetire DEF SettleFrame, TypeOK

LEMMA CompleteFinalStep ==
  ASSUME TypeOK, NEW w \in Workers, CompleteFinal(w)
  PROVE  StepEffect
<1> DEFINE status == IF attempt[w].result = "ok" THEN "published" ELSE attempt[w].result
           row == Settled(OwnRow(w), status)
           image == [status |-> status, ext |-> status = "published"]
<1>1. ~Idle(w)
  BY DEF CompleteFinal, Idle, IdleAttempt
<1>2. status \in {"published", "failed", "skipped"}
  BY DEF CompleteFinal, Refusals
<1>3. row \in Row /\ row.status = status /\ row.lockedBy = "none"
  <2> HIDE DEF status
  <2>1. status \in JobStatus
    BY <1>2 DEF JobStatus
  <2> QED BY <1>1, <2>1, OwnType, SettledType
<1>4. image \in MirrorRow
  <2> HIDE DEF status
  <2> QED BY <1>2 DEF MirrorRow, JobStatus
<1>5. Settle(w, row, image, TRUE, TRUE) /\ Retire(w) /\ SettleFrame
  BY DEF CompleteFinal
<1> HIDE DEF row, image, status
<1> QED BY <1>1, <1>2, <1>3, <1>4, <1>5, SettleAndRetire DEF SettleFrame, TypeOK

LEMMA ForceVerificationStep ==
  ASSUME TypeOK, NEW w \in Workers, ~Idle(w), NEW ext \in BOOLEAN,
         ForceVerification(w, ext), Retire(w), SettleFrame
  PROVE  StepEffect
<1> DEFINE row == [Settled(OwnRow(w), "verification_required") EXCEPT !.attempt = Spend(@)]
           image == [status |-> "verification_required", ext |-> ext]
<1>1. row \in Row /\ row.status = "verification_required" /\ row.lockedBy = "none"
  BY SpentType, OwnType DEF JobStatus
<1>2. image \in MirrorRow
  BY DEF MirrorRow, JobStatus
<1>3. Settle(w, row, image, FALSE, TRUE)
  BY DEF ForceVerification
<1> HIDE DEF row, image
<1> QED BY <1>1, <1>2, <1>3, SettleAndRetire DEF SettleFrame, TypeOK

LEMMA FinalizationFailsStep ==
  ASSUME TypeOK, NEW w \in Workers, FinalizationFails(w)
  PROVE  StepEffect
<1>1. ~Idle(w) /\ NamesPost(attempt[w].result) \in BOOLEAN
  BY DEF FinalizationFails, Idle, IdleAttempt, NamesPost
<1> QED BY <1>1, ForceVerificationStep DEF FinalizationFails

LEMMA FailureUnrecordedStep ==
  ASSUME TypeOK, NEW w \in Workers, FailureUnrecorded(w)
  PROVE  StepEffect
<1>1. ~Idle(w)
  BY DEF FailureUnrecorded, Idle, IdleAttempt
<1>2. OwnMirror(w).ext \in BOOLEAN
  BY <1>1, OwnType DEF MirrorRow
<1> QED BY <1>1, <1>2, ForceVerificationStep DEF FailureUnrecorded

LEMMA DeliverStep ==
  ASSUME TypeOK, NEW w \in Workers, Deliver(w)
  PROVE  StepEffect
BY EnterPhaseStep, LeaseLostStep, CallAcceptedStep, CallLostStep, FailBeforeCallStep,
   CallRejectedStep, CallUnreadableStep, CallDeclinedStep, TimeoutStep, CompleteDeferredStep,
   CompleteFinalStep, CompletePartialStep, FinalizationFailsStep, FailureUnrecordedStep
   DEF Deliver

-----------------------------------------------------------------------------
(* Claims, leases, recovery and the sweep *)

\* A step that leaves every attempt alone.
AttemptsStay == attempt' = attempt

LEMMA StayEffect ==
  ASSUME TypeOK, AttemptsStay
  PROVE  /\ attempt' \in [Workers -> Attempt \cup {IdleAttempt}]
         /\ \A w \in Workers : AttemptEffect(w)
BY DEF TypeOK, AttemptsStay, AttemptEffect

LEMMA HeartbeatStep ==
  ASSUME TypeOK, NEW w \in Workers, Heartbeat(w)
  PROVE  StepEffect
<1> DEFINE t == attempt[w].target
           i == attempt[w].id
           row == [jobs[t][i] EXCEPT !.stale = FALSE]
<1>1. t \in Targets /\ i \in JobIds
  BY OwnType DEF Heartbeat, Holds, Attempt
<1>2. jobs[t][i] \in Row
  BY <1>1 DEF TypeOK
<1>3. RowEffect(jobs[t][i], row)
  BY <1>2 DEF RowEffect, QuestionKept, HoldKept, HoldTaken, RowAsked, Row
<1>4. jobs' = [jobs EXCEPT ![t][i] = row]
  BY DEF Heartbeat
<1>5. JobsEffect
  <2> HIDE DEF row
  <2> QED BY <1>1, <1>3, <1>4, OneRow
<1>6. AttemptsStay
  BY DEF Heartbeat, AttemptsStay
<1> QED BY <1>5, <1>6, StayEffect DEF Heartbeat, StepEffect, TypeOK, JobsEffect, ghosts, studio

LEMMA LeaseExpiresStep ==
  ASSUME TypeOK, NEW t \in Targets, NEW i \in JobIds, LeaseExpires(t, i)
  PROVE  StepEffect
<1> DEFINE row == [jobs[t][i] EXCEPT !.stale = TRUE]
<1>1. jobs[t][i] \in Row
  BY DEF TypeOK
<1>2. RowEffect(jobs[t][i], row)
  BY <1>1 DEF RowEffect, QuestionKept, HoldKept, HoldTaken, RowAsked, Row
<1>3. jobs' = [jobs EXCEPT ![t][i] = row]
  BY DEF LeaseExpires
<1>4. JobsEffect
  <2> HIDE DEF row
  <2> QED BY <1>2, <1>3, OneRow
<1>5. AttemptsStay
  BY DEF LeaseExpires, AttemptsStay
<1> QED BY <1>4, <1>5, StayEffect DEF LeaseExpires, StepEffect, TypeOK, JobsEffect, ghosts, studio

LEMMA ClaimActionStep ==
  ASSUME TypeOK, NEW w \in Workers, NEW t \in Targets, NEW i \in JobIds, Claim(w, t, i)
  PROVE  StepEffect
<1> DEFINE row == [jobs[t][i] EXCEPT !.status = "publishing", !.lockedBy = w,
                                     !.stale = FALSE, !.phase = "none"]
           from == IF Adapter[t] = "staged" THEN jobs[t][i].progress ELSE jobs[t][i].resume
           begin == [pc |-> "claimed", target |-> t, id |-> i, from |-> from,
                     sent |-> 0, result |-> "none", zombie |-> FALSE]
<1>1. jobs[t][i] \in Row /\ jobs[t][i].status = "queued"
  BY DEF TypeOK, Claim
<1>2. row \in Row /\ row.status = "publishing" /\ row.lockedBy = w
  BY <1>1 DEF Row, JobStatus, Phases
<1>3. begin \in Attempt /\ begin.pc = "claimed"
  BY <1>1 DEF Attempt, Row, Pcs, Results
<1>4. jobs' = [jobs EXCEPT ![t][i] = row] /\ attempt' = [attempt EXCEPT ![w] = begin]
  BY DEF Claim
<1> HIDE DEF row, begin
<1>5. attempt'[w] = begin
  BY <1>4 DEF TypeOK
<1>6. RowEffect(jobs[t][i], row)
  BY <1>1, <1>2, <1>3, <1>5 DEF RowEffect, QuestionKept, HoldKept, HoldTaken, RowAsked
<1>7. JobsEffect
  BY <1>4, <1>6, OneRow
<1>8. AttemptEffect(w)
  BY <1>3, <1>5 DEF AttemptEffect
<1>9. /\ attempt' \in [Workers -> Attempt \cup {IdleAttempt}]
      /\ \A v \in Workers : AttemptEffect(v)
  BY <1>3, <1>4, <1>8, OthersStay
<1>10. mirror' \in [Targets -> MirrorRow]
  BY DEF Claim, TypeOK, MirrorRow, JobStatus
<1> QED BY <1>7, <1>9, <1>10 DEF Claim, StepEffect, TypeOK, JobsEffect, ghosts, studio

\* A command or a refusal that lets go of one row nobody delivers.
LEMMA LetGoOne ==
  ASSUME TypeOK, NEW t \in Targets, NEW i \in JobIds, NEW row \in Row,
         jobs' = [jobs EXCEPT ![t][i] = row], jobs[t][i].status \notin {"publishing", "no_row"},
         row.status # "publishing", row.lockedBy = "none"
  PROVE  JobsEffect
<1>1. jobs[t][i] \in Row
  BY DEF TypeOK
<1>2. RowEffect(jobs[t][i], row)
  BY <1>1, LetGo
<1> QED BY <1>2, OneRow

LEMMA ClaimRefuseDuplicateStep ==
  ASSUME TypeOK, NEW t \in Targets, NEW i \in JobIds, ClaimRefuseDuplicate(t, i)
  PROVE  StepEffect
<1> DEFINE row == [Unlocked(jobs[t][i]) EXCEPT !.status = "verification_required"]
<1>1. jobs[t][i] \in Row /\ jobs[t][i].status = "queued"
  BY DEF TypeOK, ClaimRefuseDuplicate
<1>2. row \in Row /\ row.status = "verification_required" /\ row.lockedBy = "none"
  BY <1>1 DEF Row, JobStatus, Unlocked
<1>3. jobs' = [jobs EXCEPT ![t][i] = row]
  BY DEF ClaimRefuseDuplicate
<1> HIDE DEF row
<1>4. JobsEffect
  BY <1>1, <1>2, <1>3, LetGoOne
<1>5. AttemptsStay
  BY DEF ClaimRefuseDuplicate, AttemptsStay
<1>6. mirror' \in [Targets -> MirrorRow]
  BY DEF ClaimRefuseDuplicate, TypeOK, MirrorRow, JobStatus
<1> QED BY <1>4, <1>5, <1>6, StayEffect
        DEF ClaimRefuseDuplicate, StepEffect, TypeOK, JobsEffect, ghosts, studio

LEMMA ClaimStopCancelledStep ==
  ASSUME TypeOK, NEW t \in Targets, NEW i \in JobIds, ClaimStopCancelled(t, i)
  PROVE  StepEffect
<1> DEFINE row == Settled(jobs[t][i], "cancelled")
<1>1. jobs[t][i] \in Row /\ jobs[t][i].status = "queued"
  BY DEF TypeOK, ClaimStopCancelled
<1>2. row \in Row /\ row.status = "cancelled" /\ row.lockedBy = "none"
  BY <1>1, SettledType DEF JobStatus
<1>3. jobs' = [jobs EXCEPT ![t][i] = row]
  BY DEF ClaimStopCancelled
<1> HIDE DEF row
<1>4. JobsEffect
  BY <1>1, <1>2, <1>3, LetGoOne
<1>5. AttemptsStay
  BY DEF ClaimStopCancelled, AttemptsStay
<1>6. mirror' \in [Targets -> MirrorRow]
  BY DEF ClaimStopCancelled, TypeOK, MirrorRow, JobStatus
<1> QED BY <1>4, <1>5, <1>6, StayEffect
        DEF ClaimStopCancelled, StepEffect, TypeOK, JobsEffect, ghosts, studio

LEMMA CrashStep ==
  ASSUME TypeOK, Crash
  PROVE  StepEffect
<1>1. JobsEffect
  BY SameJobs DEF Crash, queue
<1>2. \A w \in Workers : AttemptEffect(w)
  BY DEF Crash, AttemptEffect
<1>3. crashes' \in 0 .. MaxCrashes
  BY BoundsAssumption DEF Crash, TypeOK
<1> QED BY <1>1, <1>2, <1>3 DEF Crash, StepEffect, TypeOK, ghosts, studio, queue

LEMMA RecoveredType ==
  ASSUME NEW row \in Row
  PROVE  /\ Recovered(row) \in Row /\ Recovered(row).lockedBy = "none"
         /\ Recovered(row).status \in {"queued", "verification_required"}
<1> DEFINE status == IF MayHaveReachedAudience(row.phase) THEN "verification_required" ELSE "queued"
<1>1. status \in {"queued", "verification_required"} /\ status \in JobStatus
  BY DEF JobStatus
<1> HIDE DEF status
<1>2. LET spent == [Settled(row, status) EXCEPT !.attempt = Spend(@)]
      IN  spent \in Row /\ spent.status = status /\ spent.lockedBy = "none"
  BY <1>1, SpentType
<1> QED BY <1>1, <1>2 DEF Recovered, status

LEMMA RecoverStaleStep ==
  ASSUME TypeOK, RecoverStale
  PROVE  StepEffect
<1> DEFINE Stale(t) == {i \in JobIds : LeftBehind(t, i)}
           after(t, i) == IF i \in Stale(t) THEN Recovered(jobs[t][i])
                          ELSE IF Stale(t) # {} /\ jobs[t][i].status \in Superseded THEN NoJob
                          ELSE jobs[t][i]
<1>1. jobs' = [t \in Targets |-> [i \in JobIds |-> after(t, i)]]
  BY DEF RecoverStale
<1>2. ASSUME NEW t \in Targets, NEW i \in JobIds
      PROVE  RowEffect(jobs[t][i], after(t, i))
  <2>1. jobs[t][i] \in Row
    BY DEF TypeOK
  <2>2. CASE i \in Stale(t)
    <3>1. jobs[t][i].status = "publishing" /\ jobs[t][i].stale
      BY <2>2 DEF LeftBehind
    <3>2. after(t, i) = Recovered(jobs[t][i])
      BY <2>2
    <3> HIDE DEF after, Stale
    <3> QED BY <2>1, <3>1, <3>2, RecoveredType
            DEF RowEffect, QuestionKept, HoldKept, HoldTaken, RowAsked
  <2>3. CASE i \notin Stale(t) /\ Stale(t) # {} /\ jobs[t][i].status \in Superseded
    <3>1. after(t, i) = NoJob
      BY <2>3
    <3> HIDE DEF after, Stale
    <3> QED BY <2>1, <2>3, <3>1, ClearEffect
  <2>4. CASE i \notin Stale(t) /\ ~(Stale(t) # {} /\ jobs[t][i].status \in Superseded)
    <3>1. after(t, i) = jobs[t][i]
      BY <2>4
    <3> HIDE DEF after, Stale
    <3> QED BY <2>1, <3>1, SameRow
  <2> QED BY <2>2, <2>3, <2>4
<1>3. JobsEffect
  <2>1. \A t \in Targets, i \in JobIds : after(t, i) \in Row
    BY <1>2 DEF RowEffect
  <2> HIDE DEF after
  <2> QED BY <1>1, <1>2, <2>1 DEF JobsEffect
<1>4. mirror' \in [Targets -> MirrorRow]
  <2> DEFINE image(t) == IF Stale(t) = {} THEN mirror[t]
                         ELSE [mirror[t] EXCEPT !.status = jobs'[t][CHOOSE i \in Stale(t) : TRUE].status]
  <2>1. mirror' = [t \in Targets |-> image(t)]
    BY DEF RecoverStale
  <2>2. ASSUME NEW t \in Targets PROVE image(t) \in MirrorRow
    <3>1. CASE Stale(t) = {}
      BY <3>1 DEF TypeOK
    <3>2. CASE Stale(t) # {}
      <4>1. PICK i \in JobIds : i \in Stale(t) /\ i = CHOOSE k \in Stale(t) : TRUE
        BY <3>2
      <4>2. jobs'[t][i] = Recovered(jobs[t][i])
        BY <1>1, <4>1
      <4>3. jobs'[t][i].status \in JobStatus
        BY <4>2, RecoveredType DEF TypeOK, JobStatus
      <4>4. image(t) = [mirror[t] EXCEPT !.status = jobs'[t][i].status]
        BY <3>2, <4>1
      <4> HIDE DEF image, Stale
      <4> QED BY <4>3, <4>4 DEF TypeOK, MirrorRow
    <3> QED BY <3>1, <3>2
  <2> HIDE DEF image
  <2> QED BY <2>1, <2>2
<1>5. draft' \in DraftStatus
  <2>1. draft' = Refreshed(jobs', draft)
    BY DEF RecoverStale
  <2> QED BY <2>1, RefreshedType DEF TypeOK
<1>6. AttemptsStay
  BY DEF RecoverStale, AttemptsStay
<1>7. UNCHANGED <<nextJob, declared, posted, attempt, recon, live, ghosts, ops, crashes>>
  BY DEF RecoverStale
<1> QED BY <1>3, <1>4, <1>5, <1>6, <1>7, StayEffect
        DEF StepEffect, TypeOK, JobsEffect, ghosts

LEMMA ReconcileClaimStep ==
  ASSUME TypeOK, NEW t \in Targets, NEW i \in JobIds, ReconcileClaim(t, i)
  PROVE  StepEffect
<1> DEFINE row == [jobs[t][i] EXCEPT !.lockedBy = "recon", !.stale = FALSE]
           question == [pc |-> "asking", target |-> t, id |-> i, ext |-> mirror[t].ext]
<1>1. jobs[t][i] \in Row /\ jobs[t][i].status = "verification_required"
      /\ jobs[t][i].reconcile < ReconcileMax
  BY DEF TypeOK, ReconcileClaim, InDoubt
<1>2. row \in Row /\ row.status = "verification_required" /\ row.reconcile = jobs[t][i].reconcile
  BY <1>1 DEF Row
<1>3. jobs' = [jobs EXCEPT ![t][i] = row] /\ recon' = question /\ recon = IdleRecon
  BY DEF ReconcileClaim
<1>4. question \in Question /\ question.target = t /\ question.id = i
  BY DEF Question, TypeOK, MirrorRow
<1>5. RowEffect(jobs[t][i], row)
  BY <1>1, <1>2, <1>3 DEF RowEffect, QuestionKept, HoldKept, HoldTaken, RowAsked
<1>6. jobs'[t][i] = row
  BY <1>3 DEF TypeOK
<1> HIDE DEF row, question
<1>7. JobsEffect
  BY <1>3, <1>5, OneRow
<1>8. PollsLeft'
  BY <1>1, <1>2, <1>3, <1>4, <1>6 DEF PollsLeft
<1>9. AttemptsStay
  BY DEF ReconcileClaim, AttemptsStay
<1>10. UNCHANGED <<nextJob, mirror, studio, attempt, live, ghosts, ops, crashes>>
  BY DEF ReconcileClaim
<1> QED BY <1>3, <1>4, <1>7, <1>8, <1>9, <1>10, StayEffect
        DEF StepEffect, TypeOK, JobsEffect, ghosts, studio

LEMMA AskingPlace ==
  ASSUME TypeOK, recon # IdleRecon
  PROVE  recon.target \in Targets /\ recon.id \in JobIds /\ jobs[recon.target][recon.id] \in Row
BY DEF TypeOK, Question

LEMMA ReconcileConfirmStep ==
  ASSUME TypeOK, ReconcileConfirm
  PROVE  StepEffect
<1> DEFINE t == recon.target
           i == recon.id
           row == Settled(jobs[t][i], "published")
<1>1. recon # IdleRecon /\ recon' = IdleRecon /\ AttemptsStay
  BY DEF ReconcileConfirm, AttemptsStay
<1>2. UNCHANGED <<nextJob, declared, posted, attempt, live, ghosts, ops, crashes>>
  BY DEF ReconcileConfirm
<1>3. t \in Targets /\ i \in JobIds /\ jobs[t][i] \in Row
  BY <1>1, AskingPlace
<1>4. CASE ReconHolds
  <2>1. jobs' = [jobs EXCEPT ![t][i] = row]
        /\ mirror' = [mirror EXCEPT ![t] = [status |-> "published", ext |-> TRUE]]
        /\ draft' = Refreshed(jobs', draft)
    BY <1>4 DEF ReconcileConfirm
  <2>2. row \in Row /\ row.status = "published" /\ row.lockedBy = "none"
    BY <1>3, SettledType DEF JobStatus
  <2>3. jobs[t][i].status = "verification_required"
    BY <1>4 DEF ReconHolds
  <2>4. mirror' \in [Targets -> MirrorRow]
    BY <2>1, <1>3 DEF TypeOK, MirrorRow, JobStatus
  <2>5. draft' \in DraftStatus
    BY <2>1, RefreshedType DEF TypeOK
  <2> HIDE DEF row, t, i
  <2>6. JobsEffect
    BY <1>3, <2>1, <2>2, <2>3, LetGoOne
  <2> QED BY <1>1, <1>2, <2>4, <2>5, <2>6, StayEffect DEF StepEffect, TypeOK, JobsEffect, ghosts
<1>5. CASE ~ReconHolds
  <2>1. UNCHANGED <<jobs, mirror, draft>>
    BY <1>5 DEF ReconcileConfirm
  <2> QED BY <1>1, <1>2, <2>1, SameJobs, StayEffect DEF StepEffect, TypeOK, ghosts
<1> QED BY <1>4, <1>5

LEMMA ReconcileDeferStep ==
  ASSUME TypeOK, PollsLeft, ReconcileDefer
  PROVE  StepEffect
<1> DEFINE t == recon.target
           i == recon.id
           row == Polled(jobs[t][i])
<1>1. recon # IdleRecon /\ recon' = IdleRecon /\ AttemptsStay
  BY DEF ReconcileDefer, AttemptsStay
<1>2. UNCHANGED <<nextJob, mirror, studio, attempt, live, ghosts, ops, crashes>>
  BY DEF ReconcileDefer
<1>3. t \in Targets /\ i \in JobIds /\ jobs[t][i] \in Row
  BY <1>1, AskingPlace
<1>4. JobsEffect
  <2>1. CASE ReconHolds
    <3>1. jobs' = [jobs EXCEPT ![t][i] = row]
      BY <2>1 DEF ReconcileDefer
    <3>2. jobs[t][i].status = "verification_required" /\ jobs[t][i].reconcile < ReconcileMax
      BY <1>1, <2>1 DEF PollsLeft, ReconHolds
    <3>3. jobs[t][i].reconcile + 1 \in 0 .. ReconcileMax
      BY <1>3, <3>2, BoundsAssumption DEF Row
    <3>4. row \in Row /\ row.status = "verification_required" /\ row.lockedBy = "none"
      BY <1>3, <3>2, <3>3 DEF Row, Unlocked, Polled
    <3> HIDE DEF row, t, i
    <3> QED BY <1>3, <3>1, <3>2, <3>4, LetGoOne
  <2>2. CASE ~ReconHolds
    BY <2>2, SameJobs DEF ReconcileDefer
  <2> QED BY <2>1, <2>2
<1> QED BY <1>1, <1>2, <1>4, StayEffect DEF StepEffect, TypeOK, JobsEffect, ghosts, studio

-----------------------------------------------------------------------------
(* Operators *)

LEMMA OpsType ==
  ASSUME TypeOK, NEW name, Command(name)
  PROVE  ops' \in 0 .. MaxOps
BY BoundsAssumption DEF Command, TypeOK

LEMMA PlanStep ==
  ASSUME TypeOK, NEW enabled \in SUBSET Targets, Plan(enabled)
  PROVE  StepEffect
<1> DEFINE fresh == {t \in enabled : ~FinalTarget(t)}
           after(t) == IF t \in fresh THEN [KeptRows(t) EXCEPT ![nextJob[t]] = NewRow] ELSE KeptRows(t)
<1>1. jobs' = [t \in Targets |-> after(t)] /\ posted' /\ AttemptsStay
  BY DEF Plan, AttemptsStay
<1>2. \A t \in Targets, i \in JobIds : jobs[t][i] \in Row
  BY DEF TypeOK
<1>3. ASSUME NEW t \in Targets, NEW i \in JobIds
      PROVE  \/ RowEffect(jobs[t][i], KeptRows(t)[i]) /\ KeptRows(t)[i].status # "publishing"
             \/ KeptRows(t)[i] = jobs[t][i]
  <2>1. CASE Replaceable(jobs[t][i])
    <3>1. KeptRows(t)[i] = NoJob /\ jobs[t][i].status \in Superseded
      BY <2>1 DEF KeptRows, Replaceable, Superseded
    <3>2. NoJob.status # "publishing"
      BY DEF NoJob, NewRow
    <3> QED BY <1>2, <3>1, <3>2, ClearEffect
  <2>2. CASE ~Replaceable(jobs[t][i])
    BY <2>2 DEF KeptRows
  <2> QED BY <2>1, <2>2
<1>4. ASSUME NEW t \in Targets, NEW i \in JobIds
      PROVE  RowEffect(jobs[t][i], after(t)[i])
  <2>1. RowEffect(jobs[t][i], KeptRows(t)[i])
    BY <1>2, <1>3, SameRow
  <2>2. CASE t \in fresh /\ i = nextJob[t]
    <3>1. after(t)[i] = NewRow
      BY <2>2 DEF KeptRows
    <3>2. jobs[t][i].status # "publishing"
      BY <2>2 DEF FinalTarget, Rows, HasRow
    <3>3. NewRow.status = "queued" /\ NewRow.lockedBy = "none"
      BY DEF NewRow
    <3> QED BY <1>1, <1>2, <3>1, <3>2, <3>3, NewRowType, LetGo
  <2>3. CASE ~(t \in fresh /\ i = nextJob[t])
    <3>1. after(t)[i] = KeptRows(t)[i]
      BY <2>3 DEF KeptRows
    <3> QED BY <2>1, <3>1
  <2> QED BY <2>2, <2>3
<1>5. JobsEffect
  <2>1. \A t \in Targets : after(t) \in [JobIds -> Row]
    <3> SUFFICES ASSUME NEW t \in Targets PROVE after(t) \in [JobIds -> Row]
      OBVIOUS
    <3>1. after(t) = [i \in JobIds |-> after(t)[i]]
      BY DEF KeptRows
    <3>2. \A i \in JobIds : after(t)[i] \in Row
      BY <1>4 DEF RowEffect
    <3> HIDE DEF after
    <3> QED BY <3>1, <3>2
  <2> HIDE DEF after
  <2> QED BY <1>1, <1>4, <2>1 DEF JobsEffect
<1>6. nextJob' \in [Targets -> 1 .. MaxJobs + 1]
  <2>1. \A t \in fresh : nextJob[t] <= MaxJobs /\ t \in Targets
    BY DEF Plan
  <2>2. nextJob' = [t \in Targets |-> IF t \in fresh THEN nextJob[t] + 1 ELSE nextJob[t]]
    BY DEF Plan
  <2> HIDE DEF fresh
  <2> QED BY <2>1, <2>2, BoundsAssumption DEF TypeOK
<1>7. draft' \in DraftStatus
  <2>1. draft' = Refreshed(jobs', "scheduled")
    BY DEF Plan
  <2> QED BY <2>1, RefreshedType DEF DraftStatus
<1>8. ops' \in 0 .. MaxOps
  BY OpsType DEF Plan
<1>9. declared' = FALSE /\ begun' = {} /\ posted' = TRUE
      /\ UNCHANGED <<mirror, attempt, recon, live, abandoned, crashes>>
  BY DEF Plan
<1> QED BY <1>1, <1>5, <1>6, <1>7, <1>8, <1>9, StayEffect DEF StepEffect, TypeOK, JobsEffect

\* A command that rewrites the rows of every target, letting go of some.
LEMMA LetGoMany ==
  ASSUME TypeOK, jobs' \in [Targets -> [JobIds -> Row]],
         \A t \in Targets, i \in JobIds :
           \/ jobs'[t][i] = jobs[t][i]
           \/ /\ jobs[t][i].status # "publishing" /\ jobs'[t][i].status # "publishing"
              /\ jobs'[t][i].lockedBy # "recon" \/ jobs'[t][i].status = "cancelled"
              /\ jobs[t][i].status # "no_row" \/ jobs'[t][i].status = "no_row"
  PROVE  JobsEffect
<1>1. ASSUME NEW t \in Targets, NEW i \in JobIds
      PROVE  RowEffect(jobs[t][i], jobs'[t][i])
  <2>1. jobs[t][i] \in Row /\ jobs'[t][i] \in Row
    BY DEF TypeOK
  <2>2. CASE jobs'[t][i] = jobs[t][i]
    BY <2>1, <2>2, SameRow
  <2>3. CASE jobs'[t][i] # jobs[t][i]
    BY <2>1, <2>3 DEF RowEffect, QuestionKept, HoldKept, HoldTaken, RowAsked
  <2> QED BY <2>2, <2>3
<1> QED BY <1>1 DEF JobsEffect

LEMMA CancelRestStep ==
  ASSUME TypeOK, CancelRest
  PROVE  StepEffect
<1> DEFINE after(t, i) == IF Replaceable(jobs[t][i]) THEN Settled(jobs[t][i], "cancelled") ELSE jobs[t][i]
<1>1. jobs' = [t \in Targets |-> [i \in JobIds |-> after(t, i)]] /\ AttemptsStay
  BY DEF CancelRest, AttemptsStay
<1>2. JobsEffect
  <2>1. ASSUME NEW t \in Targets, NEW i \in JobIds, Replaceable(jobs[t][i])
        PROVE  /\ after(t, i) \in Row
               /\ jobs[t][i].status # "publishing" /\ after(t, i).status # "publishing"
               /\ after(t, i).lockedBy # "recon"
               /\ jobs[t][i].status # "no_row"
    <3>1. jobs[t][i] \in Row
      BY DEF TypeOK
    <3>2. after(t, i) = Settled(jobs[t][i], "cancelled")
      BY <2>1
    <3> HIDE DEF after
    <3> QED BY <2>1, <3>1, <3>2, SettledType DEF Replaceable, JobStatus
  <2>2. ASSUME NEW t \in Targets, NEW i \in JobIds, ~Replaceable(jobs[t][i])
        PROVE  after(t, i) = jobs[t][i]
    BY <2>2
  <2> HIDE DEF after
  <2>3. \A t \in Targets, i \in JobIds : after(t, i) \in Row
    BY <2>1, <2>2 DEF TypeOK
  <2>4. jobs' \in [Targets -> [JobIds -> Row]] /\ \A t \in Targets, i \in JobIds : jobs'[t][i] = after(t, i)
    BY <1>1, <2>3
  <2> QED BY <2>1, <2>2, <2>4, LetGoMany
<1>3. mirror' \in [Targets -> MirrorRow]
  BY DEF CancelRest, TypeOK, MirrorRow, JobStatus
<1>4. ops' \in 0 .. MaxOps
  BY OpsType DEF CancelRest
<1>5. declared' = TRUE /\ begun' \subseteq Targets
  BY DEF CancelRest, Declare, TypeOK
<1>6. UNCHANGED <<nextJob, draft, posted, attempt, recon, live, abandoned, crashes>>
  BY DEF CancelRest
<1> QED BY <1>1, <1>2, <1>3, <1>4, <1>5, <1>6, StayEffect DEF StepEffect, TypeOK, JobsEffect

LEMMA CancelDraftStep ==
  ASSUME TypeOK, RowsAreAsked, CancelDraft
  PROVE  StepEffect
<1> DEFINE out == \E t \in Targets : \E i \in Rows(t) : jobs[t][i].status \in
                    {"publishing", "published", "skipped", "verification_required"}
<1>1. AttemptsStay /\ draft' = "cancelled" /\ ops' \in 0 .. MaxOps
      /\ UNCHANGED <<nextJob, mirror, attempt, recon, live, abandoned, crashes>>
  BY OpsType DEF CancelDraft, AttemptsStay
<1>2. CASE posted /\ out
  <2> DEFINE after(t, i) == IF jobs[t][i].status \in {"queued", "failed"}
                            THEN [jobs[t][i] EXCEPT !.status = "cancelled"] ELSE jobs[t][i]
  <2>1. /\ jobs' = [t \in Targets |-> [i \in JobIds |-> after(t, i)]]
        /\ declared' = TRUE /\ begun' \subseteq Targets /\ posted' = posted
    BY <1>2 DEF CancelDraft, Declare, TypeOK
  <2>2. ASSUME NEW t \in Targets, NEW i \in JobIds, jobs[t][i].status \in {"queued", "failed"}
        PROVE  /\ after(t, i) \in Row
               /\ jobs[t][i].status # "publishing" /\ after(t, i).status # "publishing"
               /\ after(t, i).status = "cancelled"
               /\ jobs[t][i].status # "no_row"
    <3>1. jobs[t][i] \in Row
      BY DEF TypeOK
    <3>2. after(t, i) = [jobs[t][i] EXCEPT !.status = "cancelled"]
      BY <2>2
    <3> HIDE DEF after
    <3> QED BY <2>2, <3>1, <3>2 DEF Row, JobStatus
  <2>3. ASSUME NEW t \in Targets, NEW i \in JobIds, jobs[t][i].status \notin {"queued", "failed"}
        PROVE  after(t, i) = jobs[t][i]
    BY <2>3
  <2>4. JobsEffect
    <3> HIDE DEF after
    <3>1. \A t \in Targets, i \in JobIds : after(t, i) \in Row
      BY <2>2, <2>3 DEF TypeOK
    <3>2. jobs' \in [Targets -> [JobIds -> Row]] /\ \A t \in Targets, i \in JobIds : jobs'[t][i] = after(t, i)
      BY <2>1, <3>1
    <3> QED BY <2>2, <2>3, <3>2, LetGoMany
  <2> QED BY <1>1, <2>1, <2>4, StayEffect DEF StepEffect, TypeOK, JobsEffect, DraftStatus
<1>3. CASE ~(posted /\ out)
  <2>1. /\ jobs' = [t \in Targets |-> [i \in JobIds |-> NoJob]]
        /\ posted' = FALSE /\ UNCHANGED <<declared, begun>>
    BY <1>3 DEF CancelDraft
  <2>3. ASSUME NEW t \in Targets, NEW i \in JobIds
        PROVE  jobs[t][i].status # "publishing"
    <3>1. CASE posted
      BY <1>3, <3>1, <2>3 DEF Rows, HasRow
    <3>2. CASE ~posted
      BY <3>2, <2>3 DEF RowsAreAsked, Rows, HasRow
    <3> QED BY <3>1, <3>2
  <2>4. NoJob \in Row /\ NoJob.status = "no_row" /\ NoJob.lockedBy = "none"
    BY NewRowType DEF NoJob, NewRow
  <2>5. \A t \in Targets, i \in JobIds : jobs'[t][i] = NoJob
    BY <2>1
  <2>6. JobsEffect
    <3>1. jobs' \in [Targets -> [JobIds -> Row]]
      BY <2>1, <2>4
    <3> QED BY <2>3, <2>4, <2>5, <3>1, LetGoMany
  <2> QED BY <1>1, <2>1, <2>5, <2>6, StayEffect DEF StepEffect, TypeOK, JobsEffect, DraftStatus
<1> QED BY <1>2, <1>3

\* What asking for one target again does to the queue.
QueueEffect ==
  JobsEffect /\ mirror' \in [Targets -> MirrorRow] /\ nextJob' \in [Targets -> 1 .. MaxJobs + 1]

LEMMA RequeueEffect ==
  ASSUME TypeOK, NEW t \in Targets, NEW i \in JobIds, NEW resume \in Nat, Requeue(t, i, resume),
         jobs[t][i].status \notin {"publishing", "no_row"}
  PROVE  QueueEffect
<1> DEFINE settled == Settled(jobs[t][i], "queued")
           row == [Settled(jobs[t][i], "queued") EXCEPT !.attempt = 0, !.resume = resume, !.progress = 0]
<1>1. jobs' = [jobs EXCEPT ![t][i] = row]
  BY DEF Requeue
<1>2. settled \in Row /\ settled.status = "queued" /\ settled.lockedBy = "none"
  BY SettledType DEF TypeOK, JobStatus
<1>3. row = [settled EXCEPT !.attempt = 0, !.resume = resume, !.progress = 0]
  OBVIOUS
<1>4. row \in Row /\ row.status = "queued" /\ row.lockedBy = "none"
  <2>1. 0 \in 0 .. AttemptCap
    BY CapType
  <2> HIDE DEF settled, row
  <2> QED BY <1>2, <1>3, <2>1 DEF Row
<1>5. JobsEffect
  <2> HIDE DEF row
  <2> QED BY <1>1, <1>4, LetGoOne
<1>6. mirror' \in [Targets -> MirrorRow] /\ nextJob' = nextJob
  BY DEF Requeue, TypeOK, MirrorRow, JobStatus
<1> QED BY <1>5, <1>6 DEF QueueEffect, TypeOK

LEMMA CreateMissingEffect ==
  ASSUME TypeOK, NEW t \in Targets, CreateMissing(t), posted'
  PROVE  QueueEffect
<1> DEFINE i == nextJob[t]
<1>1. i \in JobIds /\ jobs' = [jobs EXCEPT ![t][i] = NewRow]
  BY BoundsAssumption DEF CreateMissing, JobIds, TypeOK
<1>2. jobs[t][i] \in Row /\ jobs[t][i].status = "no_row"
  BY <1>1 DEF CreateMissing, Rows, HasRow, TypeOK
<1>3. NewRow.status = "queued" /\ NewRow.lockedBy = "none"
  BY DEF NewRow
<1>4. JobsEffect
  <2>1. RowEffect(jobs[t][i], NewRow)
    BY <1>2, <1>3, NewRowType, LetGo
  <2> QED BY <1>1, <2>1, OneRow
<1>5. mirror' \in [Targets -> MirrorRow]
  BY DEF CreateMissing, TypeOK, MirrorRow, JobStatus
<1>6. nextJob' \in [Targets -> 1 .. MaxJobs + 1]
  BY BoundsAssumption DEF CreateMissing, TypeOK
<1> QED BY <1>4, <1>5, <1>6 DEF QueueEffect

LEMMA ResumeFailedEffect ==
  ASSUME TypeOK, NEW t \in Targets, NEW i \in JobIds, ResumeFailed(t, i)
  PROVE  QueueEffect
<1>1. jobs[t][i].resume \in Nat /\ jobs[t][i].status = "failed"
  BY DEF TypeOK, Row, ResumeFailed
<1> QED BY <1>1, RequeueEffect DEF ResumeFailed

\* The rest of asking again.
LEMMA AskedStep ==
  ASSUME TypeOK, NEW t \in Targets, AskedAgain(t), QueueEffect, ops' \in 0 .. MaxOps,
         DOMAIN live' = Targets /\ \A u \in Targets : live'[u] \in [1 .. Parts[u] -> 0 .. 2]
  PROVE  StepEffect
<1>1. AttemptsStay /\ declared' = FALSE /\ begun' = {} /\ abandoned' \subseteq Targets
      /\ draft' \in DraftStatus
  BY DEF AskedAgain, AttemptsStay, TypeOK, DraftStatus
<1>2. UNCHANGED <<posted, attempt, recon, crashes>>
  BY DEF AskedAgain
<1> QED BY <1>1, <1>2, StayEffect DEF StepEffect, TypeOK, JobsEffect, QueueEffect

LEMMA RetryStep ==
  ASSUME TypeOK, NEW t \in Targets, Retry(t)
  PROVE  StepEffect
<1>1. QueueEffect
  BY ResumeFailedEffect DEF Retry
<1>2. DOMAIN live' = Targets /\ \A u \in Targets : live'[u] \in [1 .. Parts[u] -> 0 .. 2]
  BY DEF Retry, TypeOK
<1> QED BY <1>1, <1>2, OpsType, AskedStep DEF Retry

LEMMA ResendStep ==
  ASSUME TypeOK, NEW t \in Targets, Resend(t)
  PROVE  StepEffect
<1>1. posted'
  BY DEF Resend, AskedAgain
<1>2. QueueEffect
  BY <1>1, ResumeFailedEffect, CreateMissingEffect DEF Resend
<1>3. DOMAIN live' = Targets /\ \A u \in Targets : live'[u] \in [1 .. Parts[u] -> 0 .. 2]
  BY DEF Resend, TypeOK
<1> QED BY <1>2, <1>3, OpsType, AskedStep DEF Resend

LEMMA RepublishStep ==
  ASSUME TypeOK, NEW t \in Targets, Republish(t)
  PROVE  StepEffect
<1>1. posted'
  BY DEF Republish, AskedAgain
<1>2. QueueEffect
  <2>1. CASE CreateMissing(t)
    BY <1>1, <2>1, CreateMissingEffect
  <2>2. ASSUME NEW i \in JobIds, Requeue(t, i, 0),
               jobs[t][i].status \in {"failed", "cancelled", "skipped", "published"}
        PROVE  QueueEffect
    BY <2>2, RequeueEffect
  <2> QED BY <2>1, <2>2 DEF Republish
<1>3. DOMAIN live' = Targets /\ \A u \in Targets : live'[u] \in [1 .. Parts[u] -> 0 .. 2]
  BY DEF Republish, TypeOK
<1> QED BY <1>2, <1>3, OpsType, AskedStep DEF Republish

LEMMA SkipStep ==
  ASSUME TypeOK, NEW t \in Targets, Skip(t)
  PROVE  StepEffect
<1>1. PICK i \in JobIds : /\ jobs[t][i].status \in {"failed", "verification_required"}
                          /\ jobs' = [jobs EXCEPT ![t][i] = Settled(@, "cancelled")]
  BY DEF Skip
<1> DEFINE row == Settled(jobs[t][i], "cancelled")
<1>2. row \in Row /\ row.status = "cancelled" /\ row.lockedBy = "none"
  BY SettledType DEF TypeOK, JobStatus
<1>3. jobs' = [jobs EXCEPT ![t][i] = row]
  BY <1>1
<1> HIDE DEF row
<1>4. JobsEffect
  BY <1>1, <1>2, <1>3, LetGoOne
<1>5. mirror' \in [Targets -> MirrorRow]
  <2>1. mirror' = [mirror EXCEPT ![t].status = "cancelled"]
    BY DEF Skip
  <2> QED BY <2>1 DEF TypeOK, MirrorRow, JobStatus
<1>6. draft' = Refreshed(jobs', draft)
  BY DEF Skip
<1>7. draft' \in DraftStatus
  BY <1>6, RefreshedType DEF TypeOK
<1>8. AttemptsStay /\ abandoned' \subseteq Targets /\ ops' \in 0 .. MaxOps
      /\ UNCHANGED <<nextJob, declared, posted, attempt, recon, live, begun, crashes>>
  BY OpsType DEF Skip, AttemptsStay, TypeOK
<1> QED BY <1>4, <1>5, <1>7, <1>8, StayEffect DEF StepEffect, TypeOK, JobsEffect

LEMMA SettleAmbiguousStep ==
  ASSUME TypeOK, NEW t \in Targets, NEW found \in BOOLEAN, SettleAmbiguous(t, found)
  PROVE  StepEffect
<1> DEFINE status == IF found THEN "published" ELSE "queued"
<1>1. PICK i \in JobIds : /\ jobs[t][i].status = "verification_required"
                          /\ jobs' = [jobs EXCEPT ![t][i] = [Settled(@, status) EXCEPT !.attempt = 0]]
  BY DEF SettleAmbiguous
<1> DEFINE settled == Settled(jobs[t][i], status)
           row == [Settled(jobs[t][i], status) EXCEPT !.attempt = 0]
<1>2. status \in {"published", "queued"} /\ status \in JobStatus
  BY DEF JobStatus
<1>3. mirror' = [mirror EXCEPT ![t] = [status |-> status, ext |-> found]]
  BY DEF SettleAmbiguous
<1>4. jobs' = [jobs EXCEPT ![t][i] = row] /\ row = [settled EXCEPT !.attempt = 0]
  BY <1>1
<1> HIDE DEF status
<1>5. mirror' \in [Targets -> MirrorRow]
  <2> DEFINE image == [status |-> status, ext |-> found]
  <2>1. image \in MirrorRow
    BY <1>2 DEF MirrorRow
  <2>2. mirror' = [mirror EXCEPT ![t] = image]
    BY <1>3
  <2> HIDE DEF image
  <2> QED BY <2>1, <2>2 DEF TypeOK
<1>6. settled \in Row /\ settled.status = status /\ settled.lockedBy = "none"
  BY <1>2, SettledType DEF TypeOK
<1> HIDE DEF settled, row
<1>7. row \in Row /\ row.status = status /\ row.lockedBy = "none"
  <2>1. 0 \in 0 .. AttemptCap
    BY CapType
  <2> QED BY <1>4, <1>6, <2>1 DEF Row
<1>8. JobsEffect
  BY <1>1, <1>2, <1>4, <1>7, LetGoOne
<1>9. draft' = Refreshed(jobs', draft)
  BY DEF SettleAmbiguous
<1>10. draft' \in DraftStatus
  BY <1>9, RefreshedType DEF TypeOK
<1>11. AttemptsStay /\ ops' \in 0 .. MaxOps
       /\ UNCHANGED <<nextJob, declared, posted, attempt, recon, live, ghosts, crashes>>
  BY OpsType DEF SettleAmbiguous, AttemptsStay
<1> QED BY <1>5, <1>8, <1>10, <1>11, StayEffect DEF StepEffect, TypeOK, JobsEffect, ghosts

LEMMA ResumeFromStep ==
  ASSUME TypeOK, NEW t \in Targets, ResumeFrom(t)
  PROVE  StepEffect
<1>1. PICK i \in JobIds :
        /\ Latest(t, i) /\ jobs[t][i].status # "publishing"
        /\ jobs' = [jobs EXCEPT ![t][i] = [Settled(@, "queued") EXCEPT !.attempt = 0, !.resume = 1]]
  BY DEF ResumeFrom
<1> DEFINE settled == Settled(jobs[t][i], "queued")
           row == [Settled(jobs[t][i], "queued") EXCEPT !.attempt = 0, !.resume = 1]
<1>2. jobs' = [jobs EXCEPT ![t][i] = row] /\ row = [settled EXCEPT !.attempt = 0, !.resume = 1]
  BY <1>1
<1>3. settled \in Row /\ settled.status = "queued" /\ settled.lockedBy = "none"
  BY SettledType DEF TypeOK, JobStatus
<1>4. jobs[t][i].status \notin {"publishing", "no_row"}
  BY <1>1 DEF Latest, HasRow
<1> HIDE DEF settled, row
<1>5. row \in Row /\ row.status = "queued" /\ row.lockedBy = "none"
  <2>1. 0 \in 0 .. AttemptCap /\ 1 \in Nat
    BY CapType
  <2> QED BY <1>2, <1>3, <2>1 DEF Row
<1>6. JobsEffect
  BY <1>2, <1>4, <1>5, LetGoOne
<1>7. mirror' \in [Targets -> MirrorRow]
  BY DEF ResumeFrom, TypeOK, MirrorRow, JobStatus
<1>8. draft' = Refreshed(jobs', draft)
  BY DEF ResumeFrom
<1>9. draft' \in DraftStatus
  BY <1>8, RefreshedType DEF TypeOK
<1>10. AttemptsStay /\ abandoned' \subseteq Targets /\ ops' \in 0 .. MaxOps
       /\ UNCHANGED <<nextJob, declared, posted, attempt, recon, live, begun, crashes>>
  BY OpsType DEF ResumeFrom, AttemptsStay, TypeOK
<1> QED BY <1>6, <1>7, <1>9, <1>10, StayEffect DEF StepEffect, TypeOK, JobsEffect

-----------------------------------------------------------------------------
(* The inductive invariant *)

LEMMA NextStep ==
  ASSUME TypeOK, PollsLeft, RowsAreAsked, Next
  PROVE  StepEffect
<1>1. ASSUME NEW w \in Workers, Deliver(w) \/ Heartbeat(w)
      PROVE  StepEffect
  BY <1>1, DeliverStep, HeartbeatStep
<1>2. ASSUME NEW t \in Targets, NEW i \in JobIds,
             ClaimStep(t, i) \/ LeaseExpires(t, i) \/ ReconcileClaim(t, i)
      PROVE  StepEffect
  BY <1>2, ClaimActionStep, ClaimRefuseDuplicateStep, ClaimStopCancelledStep, LeaseExpiresStep,
     ReconcileClaimStep DEF ClaimStep
<1>3. CASE RecoverStale \/ Reconcile \/ Crash
  BY <1>3, RecoverStaleStep, ReconcileConfirmStep, ReconcileDeferStep, CrashStep DEF Reconcile
<1>4. CASE Operator
  BY <1>4, PlanStep, CancelRestStep, CancelDraftStep, RetryStep, ResendStep, RepublishStep,
     SkipStep, ResumeFromStep, SettleAmbiguousStep DEF Operator
<1> QED BY <1>1, <1>2, <1>3, <1>4 DEF Next

LEMMA StutterStep ==
  ASSUME TypeOK, UNCHANGED vars
  PROVE  StepEffect
<1>1. JobsEffect
  BY SameJobs DEF vars
<1> QED BY <1>1 DEF StepEffect, AttemptEffect, TypeOK, vars

LEMMA InitInv == Init => IndInv
<1> SUFFICES ASSUME Init PROVE IndInv
  OBVIOUS
<1>1. TypeOK
  <2>1. jobs \in [Targets -> [JobIds -> Row]]
    BY NewRowType DEF Init
  <2>2. nextJob \in [Targets -> 1 .. MaxJobs + 1]
    BY BoundsAssumption DEF Init
  <2>3. mirror \in [Targets -> MirrorRow]
    BY DEF Init, MirrorRow
  <2>4. DOMAIN live = Targets /\ \A t \in Targets : live[t] \in [1 .. Parts[t] -> 0 .. 2]
    BY DEF Init
  <2>5. ops \in 0 .. MaxOps /\ crashes \in 0 .. MaxCrashes
    BY BoundsAssumption DEF Init
  <2> QED BY <2>1, <2>2, <2>3, <2>4, <2>5 DEF Init, TypeOK, DraftStatus
<1>2. PhaseIsNamed
  BY DEF Init, PhaseIsNamed, Holds, Idle
<1>3. PollsLeft
  BY DEF Init, PollsLeft
<1>4. RowsAreAsked
  BY DEF Init, RowsAreAsked, Rows, HasRow, NoJob, NewRow
<1> QED BY <1>1, <1>2, <1>3, <1>4 DEF IndInv

\* An attempt at the platform holds a row that names its phase, after any step.
LEMMA PhaseKept ==
  ASSUME TypeOK, PhaseIsNamed, StepEffect
  PROVE  PhaseIsNamed'
<1> SUFFICES ASSUME NEW w \in Workers, Holds(w)', attempt'[w].pc \in {"publish", "verify"}
             PROVE  OwnRow(w)'.phase = attempt'[w].pc
  BY DEF PhaseIsNamed
<1> DEFINE t == attempt'[w].target
           i == attempt'[w].id
           old == jobs[t][i]
           new == jobs'[t][i]
<1>1. /\ attempt'[w] # IdleAttempt /\ attempt'[w] \in Attempt
      /\ new.status = "publishing" /\ new.lockedBy = w
  BY DEF Holds, Idle, StepEffect, TypeOK
<1>2. t \in Targets /\ i \in JobIds
  BY <1>1 DEF Attempt
<1>3. HoldKept(old, new) /\ HoldTaken(old, new)
  BY <1>2 DEF StepEffect, JobsEffect, RowEffect
<1>4. SUFFICES new.phase = attempt'[w].pc
  BY DEF OwnRow
<1>5. old.status = "publishing"
  BY <1>1, <1>3 DEF HoldTaken
<1>6. CASE jobs' = jobs /\ attempt'[w].pc = attempt[w].pc /\ SamePlace(w)
  <2>1. Holds(w) /\ attempt[w].pc \in {"publish", "verify"}
    BY <1>1, <1>6 DEF SamePlace, Holds, Idle, Attempt, IdleAttempt
  <2> QED BY <1>6, <2>1 DEF PhaseIsNamed, OwnRow, SamePlace
<1>7. CASE attempt'[w] = attempt[w]
  <2>1. new.lockedBy = old.lockedBy /\ new.phase = old.phase
    BY <1>1, <1>3, <1>5, <1>7 DEF HoldKept
  <2>2. Holds(w)
    BY <1>1, <1>5, <1>7, <2>1 DEF Holds, Idle
  <2> QED BY <1>7, <2>1, <2>2 DEF PhaseIsNamed, OwnRow
<1>8. CASE attempt'[w] # attempt[w] /\ ~(jobs' = jobs /\ attempt'[w].pc = attempt[w].pc /\ SamePlace(w))
  <2>1. AttemptEffect(w)
    BY DEF StepEffect
  <2>2. ~(SamePlace(w) /\ ~Holds(w) /\ jobs' = jobs)
    BY <1>1 DEF SamePlace, Holds, Idle, Attempt, IdleAttempt
  <2> QED BY <1>1, <1>8, <2>1, <2>2 DEF AttemptEffect, SamePlace
<1> QED BY <1>6, <1>7, <1>8

LEMMA PollsKept ==
  ASSUME TypeOK, PollsLeft, StepEffect
  PROVE  PollsLeft'
<1>1. CASE PollsLeft'
  BY <1>1
<1>2. CASE recon' = IdleRecon
  BY <1>2 DEF PollsLeft
<1>3. CASE recon' = recon /\ recon # IdleRecon
  <2>1. recon.target \in Targets /\ recon.id \in JobIds
    BY <1>3, AskingPlace
  <2>2. QuestionKept(jobs[recon.target][recon.id], jobs'[recon.target][recon.id])
    BY <2>1 DEF StepEffect, JobsEffect, RowEffect
  <2> QED BY <1>3, <2>2 DEF PollsLeft, ReconHolds, QuestionKept
<1> QED BY <1>1, <1>2, <1>3 DEF StepEffect

LEMMA AskedKept ==
  ASSUME TypeOK, RowsAreAsked, StepEffect
  PROVE  RowsAreAsked'
<1>1. CASE posted'
  BY <1>1 DEF RowsAreAsked
<1>2. CASE \A t \in Targets, i \in JobIds : jobs'[t][i] = NoJob
  BY <1>2 DEF RowsAreAsked, Rows, HasRow, NoJob, NewRow
<1>3. CASE ~posted' /\ posted' = posted
  <2>1. \A t \in Targets, i \in JobIds : jobs[t][i].status = "no_row"
    BY <1>3 DEF RowsAreAsked, Rows, HasRow
  <2>2. \A t \in Targets, i \in JobIds : jobs'[t][i].status = "no_row"
    BY <1>3, <2>1 DEF StepEffect, JobsEffect, RowEffect, RowAsked
  <2> QED BY <2>2 DEF RowsAreAsked, Rows, HasRow
<1> QED BY <1>1, <1>2, <1>3 DEF StepEffect

LEMMA InvStep == IndInv /\ [Next]_vars => IndInv' /\ StepEffect
<1> SUFFICES ASSUME IndInv, [Next]_vars PROVE IndInv' /\ StepEffect
  OBVIOUS
<1>1. StepEffect
  BY NextStep, StutterStep DEF IndInv
<1>2. TypeOK' /\ PhaseIsNamed' /\ PollsLeft' /\ RowsAreAsked'
  BY <1>1, PhaseKept, PollsKept, AskedKept DEF IndInv, StepEffect
<1> QED BY <1>1, <1>2 DEF IndInv

\* Every reachable state satisfies the inductive invariant.
THEOREM Inductive == Spec => []IndInv
<1>1. Init => IndInv
  BY InitInv
<1>2. IndInv /\ [Next]_vars => IndInv'
  BY InvStep
<1> QED BY <1>1, <1>2, PTL DEF Spec

\* Every variable keeps its type: no counter passes its budget (the poll count
\* of a row in doubt stays within RECONCILE_MAX_ATTEMPTS, though the sweep counts
\* only after it has waited for the platform) and every row and attempt is whole.
THEOREM TypeCorrect == Spec => []TypeOK
<1>1. IndInv => TypeOK
  BY DEF IndInv
<1> QED BY <1>1, Inductive, PTL

\* The row of an attempt at the platform says that its audience may have been
\* reached, so recovery and the timeout never requeue a row that was called for.
THEOREM PhaseIsTruthful == Spec => []PhaseTruthful
<1>1. IndInv => PhaseTruthful
  BY DEF IndInv, PhaseIsNamed, PhaseTruthful, MayHaveReachedAudience
<1> QED BY <1>1, Inductive, PTL

\* A row under delivery leaves "publishing" only by the attempt that holds it,
\* or by the recovery of a lock that aged out.
THEOREM HeldRowStaysFenced == Spec => HeldRowIsFenced
<1> DEFINE Fenced == \A t \in Targets : \A i \in Rows(t) :
                       (jobs[t][i].status = "publishing" /\ jobs'[t][i].status # "publishing")
                         => jobs[t][i].stale \/ \E w \in Workers :
                              jobs[t][i].lockedBy = w /\ attempt'[w] # attempt[w]
<1>1. IndInv /\ [Next]_vars => Fenced
  <2> SUFFICES ASSUME IndInv, [Next]_vars, NEW t \in Targets, NEW i \in Rows(t),
                      jobs[t][i].status = "publishing", jobs'[t][i].status # "publishing"
               PROVE  jobs[t][i].stale \/ \E w \in Workers :
                        jobs[t][i].lockedBy = w /\ attempt'[w] # attempt[w]
    OBVIOUS
  <2>1. i \in JobIds
    BY DEF Rows
  <2>2. HoldKept(jobs[t][i], jobs'[t][i])
    BY <2>1, InvStep DEF StepEffect, JobsEffect, RowEffect
  <2> QED BY <2>2 DEF HoldKept
<1>2. IndInv /\ [Next]_vars => [Fenced]_vars
  BY <1>1
<1> QED BY <1>2, Inductive, PTL DEF Spec, HeldRowIsFenced

-----------------------------------------------------------------------------
(* Cancellation                                                            *)
(*                                                                         *)
(* CancelBinds speaks of a step that reaches the audience; what has to be  *)
(* carried from the tap to that step is FinishedOnly: while the            *)
(* cancellation stands, what is part-way out had begun before it.  Only    *)
(* the claim could bring in another target, and it asks (NotCancelled).    *)

FinishedOnly == declared => \A t \in Targets : PartWay(t) => t \in begun

\* Parts of a row are out.
Continues(row) == row.status # "no_row" /\ row.resume > 0
UnderWay(t) == \E w \in Workers : InFlight(w, t)

\* What a step may do to the parts recorded, to attempts and to the cancellation.
ResumeEffect == \A t \in Targets, i \in JobIds :
  Continues(jobs'[t][i]) => Continues(jobs[t][i]) \/ UnderWay(t)
FlightEffect == \A w \in Workers :
  attempt'[w] = IdleAttempt \/ (attempt[w] # IdleAttempt /\ attempt'[w].target = attempt[w].target)
DeclaredEffect == (declared' = declared /\ begun' = begun) \/ Declare

CancelEffect == ~declared' \/ (ResumeEffect /\ FlightEffect /\ DeclaredEffect)

LEMMA PartWayMeans ==
  /\ \A t \in Targets : PartWay(t) <=> UnderWay(t) \/ \E i \in JobIds : Continues(jobs[t][i])
  /\ \A t \in Targets : PartWay(t)' <=> UnderWay(t)' \/ \E i \in JobIds : Continues(jobs'[t][i])
BY DEF PartWay, UnderWay, Continues, Rows, HasRow

LEMMA FinishedKept ==
  ASSUME FinishedOnly, CancelEffect
  PROVE  FinishedOnly'
<1>1. CASE ~declared'
  BY <1>1 DEF FinishedOnly
<1>2. CASE ResumeEffect /\ FlightEffect /\ DeclaredEffect
  <2>1. \A t \in Targets : PartWay(t)' => PartWay(t)
    <3>1. \A t \in Targets : UnderWay(t)' => UnderWay(t)
      BY <1>2 DEF FlightEffect, UnderWay, InFlight, Idle
    <3> QED BY <1>2, <3>1, PartWayMeans DEF ResumeEffect
  <2>2. CASE declared' = declared /\ begun' = begun
    BY <2>1, <2>2 DEF FinishedOnly
  <2>3. CASE Declare
    BY <2>1, <2>3 DEF FinishedOnly, Declare
  <2> QED BY <1>2, <2>2, <2>3 DEF DeclaredEffect
<1> QED BY <1>1, <1>2 DEF CancelEffect

-----------------------------------------------------------------------------
(* The steps *)

LEMMA SettleElsewhere ==
  ASSUME TypeOK, NEW w \in Workers, ~Idle(w), NEW row, NEW image, NEW superseding, NEW refreshing,
         Settle(w, row, image, superseding, refreshing)
  PROVE  \A t \in Targets : t # attempt[w].target => jobs'[t] = jobs[t]
BY DEF Settle, TypeOK

\* A step of an attempt changes rows of its own target only, and no attempt but itself.
LEMMA DeliverElsewhere ==
  ASSUME TypeOK, NEW w \in Workers, Deliver(w)
  PROVE  /\ ~Idle(w) /\ declared' = declared /\ begun' = begun
         /\ \A t \in Targets : t # attempt[w].target => jobs'[t] = jobs[t]
<1> DEFINE Elsewhere == \A t \in Targets : t # attempt[w].target => jobs'[t] = jobs[t]
<1>1. CASE EnterPhase(w) \/ LeaseLost(w) \/ CallAccepted(w) \/ \E refusal \in Refusals : CallDeclined(w, refusal)
  BY <1>1 DEF EnterPhase, LeaseLost, CallAccepted, CallDeclined, Calling, Idle, IdleAttempt, queue, studio,
              ghosts, TypeOK
<1>2. ASSUME NEW class, ~Idle(w), Fail(w, class)
      PROVE  Elsewhere
  BY <1>2, SettleElsewhere DEF Fail
<1>3. ASSUME ~Idle(w), RequireVerification(w) \/ \E ext : ForceVerification(w, ext)
      PROVE  Elsewhere
  BY <1>3, SettleElsewhere DEF RequireVerification, ForceVerification
<1>4. ASSUME NEW class \in ErrorClasses,
             FailBeforeCall(w, class) \/ CallRejected(w, class) \/ CallUnreadable(w, class)
      PROVE  ~Idle(w) /\ declared' = declared /\ begun' = begun /\ Elsewhere
  <2>1. ~Idle(w) /\ declared' = declared /\ begun' = begun
    BY <1>4 DEF FailBeforeCall, CallRejected, CallUnreadable, Calling, Idle, IdleAttempt, SettleFrame, ghosts
  <2>2. jobs' = jobs \/ Fail(w, class)
    BY <1>4 DEF FailBeforeCall, CallRejected, CallUnreadable, Refused
  <2> QED BY <1>2, <2>1, <2>2
<1>5. ASSUME NEW landed \in BOOLEAN, CallLost(w, landed)
      PROVE  ~Idle(w) /\ declared' = declared /\ begun' = begun /\ Elsewhere
  <2>1. ~Idle(w) /\ declared' = declared /\ begun' = begun
    BY <1>5 DEF CallLost, Calling, Idle, IdleAttempt, ghosts
  <2>2. jobs' = jobs \/ RequireVerification(w)
    BY <1>5 DEF CallLost
  <2> QED BY <1>3, <2>1, <2>2
<1>6. CASE Timeout(w) \/ FinalizationFails(w) \/ FailureUnrecorded(w)
  <2>1. ~Idle(w) /\ declared' = declared /\ begun' = begun
    BY <1>6 DEF Timeout, FinalizationFails, FailureUnrecorded, Idle, IdleAttempt, SettleFrame, ghosts
  <2>2. RequireVerification(w) \/ Fail(w, "permanent") \/ \E ext : ForceVerification(w, ext)
    BY <1>6 DEF Timeout, FinalizationFails, FailureUnrecorded
  <2> QED BY <1>2, <1>3, <2>1, <2>2
<1>7. CASE CompleteDeferred(w) \/ CompleteFinal(w) \/ \E answered \in BOOLEAN : CompletePartial(w, answered)
  <2>1. attempt[w].pc = "verify" /\ SettleFrame
    BY <1>7 DEF CompleteDeferred, CompleteFinal, CompletePartial
  <2>2. ~Idle(w) /\ declared' = declared /\ begun' = begun
    BY <2>1 DEF Idle, IdleAttempt, SettleFrame, ghosts
  <2>3. Elsewhere
    BY <1>7, <2>2, SettleElsewhere DEF CompleteDeferred, CompleteFinal, CompletePartial
  <2> QED BY <2>2, <2>3
<1> QED BY <1>1, <1>4, <1>5, <1>6, <1>7 DEF Deliver

LEMMA DeliverFlight ==
  ASSUME TypeOK, NEW w \in Workers, Deliver(w)
  PROVE  FlightEffect
<1>1. attempt[w] \in Attempt /\ attempt[w] # IdleAttempt
  BY DeliverElsewhere, OwnType DEF Idle
<1>2. \/ attempt' = [attempt EXCEPT ![w] = IdleAttempt]
      \/ attempt' = [attempt EXCEPT ![w].pc = NextPc[attempt[w].pc]]
      \/ \E result : attempt' = [attempt EXCEPT ![w] = [attempt[w] EXCEPT !.sent = @ + 1, !.result = result]]
      \/ \E result : attempt' = [attempt EXCEPT ![w].result = result]
      \/ attempt' = [attempt EXCEPT ![w] = [attempt[w] EXCEPT !.zombie = TRUE]]
  <2>1. CASE EnterPhase(w) \/ LeaseLost(w) \/ CallAccepted(w) \/ Timeout(w)
             \/ \E refusal \in Refusals : CallDeclined(w, refusal)
    BY <2>1 DEF EnterPhase, LeaseLost, CallAccepted, Timeout, CallDeclined, Retire
  <2>2. ASSUME NEW class \in ErrorClasses,
               FailBeforeCall(w, class) \/ CallRejected(w, class) \/ CallUnreadable(w, class)
        PROVE  \/ attempt' = [attempt EXCEPT ![w] = IdleAttempt]
               \/ attempt' = [attempt EXCEPT ![w].result = "partial"]
    BY <2>2 DEF FailBeforeCall, CallRejected, CallUnreadable, Refused, Retire
  <2>3. CASE \/ \E landed \in BOOLEAN : CallLost(w, landed)
             \/ CompleteDeferred(w) \/ CompleteFinal(w) \/ \E answered \in BOOLEAN : CompletePartial(w, answered)
             \/ FinalizationFails(w) \/ FailureUnrecorded(w)
    BY <2>3 DEF CallLost, CompleteDeferred, CompleteFinal, CompletePartial, FinalizationFails,
                FailureUnrecorded, Retire
  <2> QED BY <2>1, <2>2, <2>3 DEF Deliver
<1>3. attempt \in [Workers -> Attempt \cup {IdleAttempt}]
  BY DEF TypeOK
<1>4. ASSUME NEW v \in Workers
      PROVE  \/ attempt'[v] = IdleAttempt
             \/ attempt[v] # IdleAttempt /\ attempt'[v].target = attempt[v].target
  <2>1. CASE v # w
    BY <1>2, <1>3, <2>1
  <2>2. CASE v = w
    BY <1>1, <1>2, <1>3, <2>2 DEF Attempt
  <2> QED BY <2>1, <2>2
<1> QED BY <1>4 DEF FlightEffect

LEMMA DeliverCancel ==
  ASSUME TypeOK, NEW w \in Workers, Deliver(w)
  PROVE  CancelEffect
<1>1. ResumeEffect
  BY DeliverElsewhere DEF ResumeEffect, UnderWay, InFlight
<1> QED BY <1>1, DeliverElsewhere, DeliverFlight DEF CancelEffect, DeclaredEffect

\* One row is written and keeps what it continues from; attempts stay.
LEMMA OneContinues ==
  ASSUME TypeOK, NEW t \in Targets, NEW i \in JobIds, NEW row,
         jobs' = [jobs EXCEPT ![t][i] = row], Continues(row) => Continues(jobs[t][i])
  PROVE  ResumeEffect
<1>1. \A u \in Targets, k \in JobIds : jobs'[u][k] = IF u = t /\ k = i THEN row ELSE jobs[u][k]
  BY DEF TypeOK
<1> QED BY <1>1 DEF ResumeEffect

LEMMA RowsStay == ASSUME jobs' = jobs PROVE ResumeEffect
BY DEF ResumeEffect

LEMMA AttemptsAlone == ASSUME attempt' = attempt PROVE FlightEffect
BY DEF FlightEffect

\* Settled, unlocked and recovered rows continue from where they did.
LEMMA SameResume ==
  ASSUME NEW row \in Row, NEW status \in JobStatus
  PROVE  /\ Settled(row, status).resume = row.resume /\ Unlocked(row).resume = row.resume
         /\ Unlocked(row).status = row.status
BY DEF Settled, Unlocked, Row, Phases

\* While a cancellation stands a claim takes only what is part-way out.
LEMMA ClaimCancel ==
  ASSUME TypeOK, FinishedOnly, NEW w \in Workers, NEW t \in Targets, NEW i \in JobIds, Claim(w, t, i)
  PROVE  FinishedOnly'
<1>1. CASE ~declared
  BY <1>1 DEF FinishedOnly, Claim, studio
<1>2. CASE declared
  <2> DEFINE row == [jobs[t][i] EXCEPT !.status = "publishing", !.lockedBy = w, !.stale = FALSE, !.phase = "none"]
             a == [pc |-> "claimed", target |-> t, id |-> i,
                   from |-> IF Adapter[t] = "staged" THEN jobs[t][i].progress ELSE jobs[t][i].resume,
                   sent |-> 0, result |-> "none", zombie |-> FALSE]
  <2>1. Continues(jobs[t][i]) /\ begun' = begun /\ declared' = declared
    BY <1>2 DEF Claim, NotCancelled, Continues, studio, ghosts
  <2>2. PartWay(t)
    BY <2>1, PartWayMeans
  <2>3. jobs' = [jobs EXCEPT ![t][i] = row] /\ attempt' = [attempt EXCEPT ![w] = a] /\ a.target = t
    BY DEF Claim
  <2> HIDE DEF row, a
  <2>4. \A u \in Targets, k \in JobIds : u # t => jobs'[u][k] = jobs[u][k]
    BY <2>3 DEF TypeOK
  <2>5. \A u \in Targets : u # t => (UnderWay(u)' => UnderWay(u))
    <3>1. \A v \in Workers : attempt'[v] = IF v = w THEN a ELSE attempt[v]
      BY <2>3 DEF TypeOK
    <3> QED BY <2>3, <3>1 DEF UnderWay, InFlight, Idle
  <2>6. \A u \in Targets : u # t => (PartWay(u)' => PartWay(u))
    BY <2>4, <2>5, PartWayMeans
  <2> QED BY <1>2, <2>1, <2>2, <2>6 DEF FinishedOnly
<1> QED BY <1>1, <1>2

LEMMA ClaimRefusedCancel ==
  ASSUME TypeOK, NEW t \in Targets, NEW i \in JobIds,
         ClaimRefuseDuplicate(t, i) \/ ClaimStopCancelled(t, i) \/ LeaseExpires(t, i) \/ ReconcileClaim(t, i)
  PROVE  CancelEffect
<1>1. jobs[t][i] \in Row
  BY DEF TypeOK
<1>2. attempt' = attempt /\ declared' = declared /\ begun' = begun
  BY DEF ClaimRefuseDuplicate, ClaimStopCancelled, LeaseExpires, ReconcileClaim, studio, ghosts
<1>3. jobs[t][i].status # "no_row"
  BY DEF ClaimRefuseDuplicate, ClaimStopCancelled, LeaseExpires, ReconcileClaim, HasRow, InDoubt
<1>4. \E row : jobs' = [jobs EXCEPT ![t][i] = row] /\ row.resume = jobs[t][i].resume
  <2>1. CASE ClaimRefuseDuplicate(t, i)
    <3> DEFINE row == [Unlocked(jobs[t][i]) EXCEPT !.status = "verification_required"]
    <3>1. jobs' = [jobs EXCEPT ![t][i] = row] /\ row.resume = jobs[t][i].resume
      BY <1>1, <2>1 DEF ClaimRefuseDuplicate, Unlocked, Row
    <3> QED BY <3>1
  <2>2. CASE ClaimStopCancelled(t, i)
    <3> DEFINE row == Settled(jobs[t][i], "cancelled")
    <3>1. jobs' = [jobs EXCEPT ![t][i] = row] /\ row.resume = jobs[t][i].resume
      BY <1>1, <2>2, SameResume DEF ClaimStopCancelled, JobStatus
    <3> QED BY <3>1
  <2>3. CASE LeaseExpires(t, i)
    <3> DEFINE row == [jobs[t][i] EXCEPT !.stale = TRUE]
    <3>1. jobs' = [jobs EXCEPT ![t][i] = row] /\ row.resume = jobs[t][i].resume
      BY <1>1, <2>3 DEF LeaseExpires, Row
    <3> QED BY <3>1
  <2>4. CASE ReconcileClaim(t, i)
    <3> DEFINE row == [jobs[t][i] EXCEPT !.lockedBy = "recon", !.stale = FALSE]
    <3>1. jobs' = [jobs EXCEPT ![t][i] = row] /\ row.resume = jobs[t][i].resume
      BY <1>1, <2>4 DEF ReconcileClaim, Row
    <3> QED BY <3>1
  <2> QED BY <2>1, <2>2, <2>3, <2>4
<1>5. ResumeEffect
  BY <1>3, <1>4, OneContinues DEF Continues
<1> QED BY <1>2, <1>5, AttemptsAlone DEF CancelEffect, DeclaredEffect

LEMMA HeartbeatCancel ==
  ASSUME TypeOK, NEW w \in Workers, Heartbeat(w)
  PROVE  CancelEffect
<1> DEFINE t == attempt[w].target
           i == attempt[w].id
           row == [jobs[t][i] EXCEPT !.stale = FALSE]
<1>1. t \in Targets /\ i \in JobIds /\ jobs[t][i] \in Row
  BY DEF Heartbeat, Holds, Idle, TypeOK, Attempt
<1>2. jobs' = [jobs EXCEPT ![t][i] = row] /\ attempt' = attempt /\ declared' = declared /\ begun' = begun
  BY DEF Heartbeat, studio, ghosts
<1>3. row.resume = jobs[t][i].resume /\ row.status = jobs[t][i].status
  BY <1>1 DEF Row
<1>4. ResumeEffect
  <2> HIDE DEF row
  <2> QED BY <1>1, <1>2, <1>3, OneContinues DEF Continues
<1> QED BY <1>2, <1>4, AttemptsAlone DEF CancelEffect, DeclaredEffect

LEMMA RecoverCancel ==
  ASSUME TypeOK, RecoverStale \/ Crash
  PROVE  CancelEffect
<1>1. CASE Crash
  <2>1. FlightEffect
    BY <1>1 DEF Crash, FlightEffect
  <2>2. ResumeEffect
    BY <1>1, RowsStay DEF Crash, queue
  <2> QED BY <1>1, <2>1, <2>2 DEF Crash, CancelEffect, DeclaredEffect, studio, ghosts
<1>2. CASE RecoverStale
  <2>1. \A t \in Targets, i \in JobIds :
          \/ jobs'[t][i] = jobs[t][i] \/ jobs'[t][i] = NoJob
          \/ jobs[t][i].status = "publishing" /\ jobs'[t][i] = Recovered(jobs[t][i])
    BY <1>2 DEF RecoverStale, LeftBehind
  <2>2. ASSUME NEW t \in Targets, NEW i \in JobIds
        PROVE  Recovered(jobs[t][i]).resume = jobs[t][i].resume
    BY DEF TypeOK, Recovered, Settled, Unlocked, Row
  <2>3. ResumeEffect
    BY <2>1, <2>2 DEF ResumeEffect, Continues, NoJob, NewRow
  <2> QED BY <1>2, <2>3, AttemptsAlone DEF RecoverStale, CancelEffect, DeclaredEffect, ghosts
<1> QED BY <1>1, <1>2

LEMMA ReconcileCancel ==
  ASSUME TypeOK, Reconcile
  PROVE  CancelEffect
<1> DEFINE t == recon.target
           i == recon.id
<1>1. t \in Targets /\ i \in JobIds /\ jobs[t][i] \in Row
  BY AskingPlace DEF Reconcile, ReconcileConfirm, ReconcileDefer
<1>2. attempt' = attempt /\ declared' = declared /\ begun' = begun
  BY DEF Reconcile, ReconcileConfirm, ReconcileDefer, studio, ghosts
<1>3. CASE jobs' = jobs
  BY <1>2, <1>3, RowsStay, AttemptsAlone DEF CancelEffect, DeclaredEffect
<1>4. CASE jobs' # jobs
  <2>1. jobs[t][i].status = "verification_required"
    BY <1>4 DEF Reconcile, ReconcileConfirm, ReconcileDefer, ReconHolds
  <2>2. \/ jobs' = [jobs EXCEPT ![t][i] = Settled(jobs[t][i], "published")]
        \/ jobs' = [jobs EXCEPT ![t][i] = Polled(jobs[t][i])]
    BY <1>4 DEF Reconcile, ReconcileConfirm, ReconcileDefer
  <2>3. Settled(jobs[t][i], "published").resume = jobs[t][i].resume
    BY <1>1, SameResume DEF JobStatus
  <2>4. Polled(jobs[t][i]).resume = jobs[t][i].resume
    BY <1>1 DEF Polled, Unlocked, Row
  <2>5. ResumeEffect
    BY <1>1, <2>1, <2>2, <2>3, <2>4, OneContinues DEF Continues
  <2> QED BY <1>2, <2>5, AttemptsAlone DEF CancelEffect, DeclaredEffect
<1> QED BY <1>3, <1>4

\* The commands that cancel.
LEMMA CancellingCancel ==
  ASSUME TypeOK, CancelRest \/ CancelDraft
  PROVE  CancelEffect
<1>1. \A t \in Targets, i \in JobIds : jobs[t][i] \in Row
  BY DEF TypeOK
<1>2. attempt' = attempt
  BY DEF CancelRest, CancelDraft
<1>3. DeclaredEffect
  BY DEF CancelRest, CancelDraft, DeclaredEffect
<1>4. CASE CancelRest
  <2>1. \A t \in Targets, i \in JobIds : jobs'[t][i] =
          IF Replaceable(jobs[t][i]) THEN Settled(jobs[t][i], "cancelled") ELSE jobs[t][i]
    BY <1>4 DEF CancelRest
  <2>2. \A t \in Targets, i \in JobIds : Settled(jobs[t][i], "cancelled").resume = jobs[t][i].resume
    BY <1>1, SameResume DEF JobStatus
  <2>3. ResumeEffect
    BY <2>1, <2>2 DEF ResumeEffect, Continues, Replaceable
  <2> QED BY <1>2, <1>3, <2>3, AttemptsAlone DEF CancelEffect
<1>5. CASE CancelDraft
  <2>1. \A t \in Targets, i \in JobIds :
          \/ jobs'[t][i] = jobs[t][i] \/ jobs'[t][i] = NoJob
          \/ /\ jobs[t][i].status \in {"queued", "failed"}
             /\ jobs'[t][i] = [jobs[t][i] EXCEPT !.status = "cancelled"]
    BY <1>5 DEF CancelDraft
  <2>2. \A t \in Targets, i \in JobIds : [jobs[t][i] EXCEPT !.status = "cancelled"].resume = jobs[t][i].resume
    BY <1>1 DEF Row
  <2>3. ASSUME NEW t \in Targets, NEW i \in JobIds, Continues(jobs'[t][i])
        PROVE  Continues(jobs[t][i])
    <3>1. CASE jobs'[t][i] = jobs[t][i]
      BY <2>3, <3>1
    <3>2. CASE jobs'[t][i] = NoJob
      BY <2>3, <3>2 DEF Continues, NoJob, NewRow
    <3>3. CASE /\ jobs[t][i].status \in {"queued", "failed"}
               /\ jobs'[t][i] = [jobs[t][i] EXCEPT !.status = "cancelled"]
      <4>1. jobs'[t][i].resume = jobs[t][i].resume
        BY <2>2, <3>3
      <4> QED BY <2>3, <3>3, <4>1 DEF Continues
    <3> QED BY <2>1, <3>1, <3>2, <3>3
  <2>4. ResumeEffect
    BY <2>3 DEF ResumeEffect
  <2> QED BY <1>2, <1>3, <2>4, AttemptsAlone DEF CancelEffect
<1> QED BY <1>4, <1>5

\* The commands that leave a cancellation as it is.
LEMMA SettlingCancel ==
  ASSUME TypeOK, NEW t \in Targets,
         Skip(t) \/ ResumeFrom(t) \/ \E found \in BOOLEAN : SettleAmbiguous(t, found)
  PROVE  CancelEffect
<1>1. \A i \in JobIds : jobs[t][i] \in Row
  BY DEF TypeOK
<1>2. attempt' = attempt /\ declared' = declared /\ begun' = begun
  BY DEF Skip, ResumeFrom, SettleAmbiguous, ghosts
<1>3. \E i \in JobIds : \E row :
        /\ jobs[t][i].status # "no_row" /\ jobs' = [jobs EXCEPT ![t][i] = row]
        /\ row.resume = jobs[t][i].resume \/ jobs[t][i].resume > 0
  <2>1. CASE Skip(t)
    <3>1. PICK i \in JobIds : Latest(t, i) /\ jobs' = [jobs EXCEPT ![t][i] = Settled(@, "cancelled")]
      BY <2>1 DEF Skip
    <3> DEFINE row == Settled(jobs[t][i], "cancelled")
    <3>2. row.resume = jobs[t][i].resume
      BY <1>1, <3>1, SameResume DEF JobStatus
    <3>3. jobs' = [jobs EXCEPT ![t][i] = row] /\ jobs[t][i].status # "no_row"
      BY <3>1 DEF Latest, HasRow
    <3> QED BY <3>2, <3>3
  <2>2. CASE ResumeFrom(t)
    <3>1. PICK i \in JobIds :
            /\ Latest(t, i) /\ jobs[t][i].resume > 0
            /\ jobs' = [jobs EXCEPT ![t][i] = [Settled(@, "queued") EXCEPT !.attempt = 0, !.resume = 1]]
      BY <2>2 DEF ResumeFrom
    <3>2. jobs[t][i].status # "no_row"
      BY <3>1 DEF Latest, HasRow
    <3> QED BY <3>1, <3>2
  <2>3. ASSUME NEW found \in BOOLEAN, SettleAmbiguous(t, found)
        PROVE  \E i \in JobIds : \E row :
                 /\ jobs[t][i].status # "no_row" /\ jobs' = [jobs EXCEPT ![t][i] = row]
                 /\ row.resume = jobs[t][i].resume
    <3> DEFINE status == IF found THEN "published" ELSE "queued"
    <3>1. PICK i \in JobIds :
            Latest(t, i) /\ jobs' = [jobs EXCEPT ![t][i] = [Settled(@, status) EXCEPT !.attempt = 0]]
      BY <2>3 DEF SettleAmbiguous
    <3> DEFINE row == [Settled(jobs[t][i], status) EXCEPT !.attempt = 0]
    <3>2. row.resume = jobs[t][i].resume
      BY <1>1, <3>1 DEF Settled, Unlocked, Row
    <3>3. jobs' = [jobs EXCEPT ![t][i] = row] /\ jobs[t][i].status # "no_row"
      BY <3>1 DEF Latest, HasRow
    <3> QED BY <3>2, <3>3
  <2> QED BY <2>1, <2>2, <2>3
<1>4. ResumeEffect
  BY <1>3, OneContinues DEF Continues
<1> QED BY <1>2, <1>4, AttemptsAlone DEF CancelEffect, DeclaredEffect

LEMMA FinishedStep == TypeOK /\ FinishedOnly /\ [Next]_vars => FinishedOnly'
<1> SUFFICES ASSUME TypeOK, FinishedOnly, [Next]_vars PROVE FinishedOnly'
  OBVIOUS
<1>1. CASE UNCHANGED vars
  BY <1>1 DEF vars, FinishedOnly, PartWay, Rows, HasRow, InFlight, Idle
<1>2. ASSUME NEW w \in Workers, Deliver(w) \/ Heartbeat(w)
      PROVE  FinishedOnly'
  BY <1>2, DeliverCancel, HeartbeatCancel, FinishedKept
<1>3. ASSUME NEW t \in Targets, NEW i \in JobIds,
             ClaimStep(t, i) \/ LeaseExpires(t, i) \/ ReconcileClaim(t, i)
      PROVE  FinishedOnly'
  BY <1>3, ClaimCancel, ClaimRefusedCancel, FinishedKept DEF ClaimStep
<1>4. CASE RecoverStale \/ Reconcile \/ Crash
  BY <1>4, RecoverCancel, ReconcileCancel, FinishedKept
<1>5. CASE Operator
  <2>1. CASE \/ \E enabled \in SUBSET Targets : Plan(enabled)
             \/ \E t \in Targets : Retry(t) \/ Resend(t) \/ Republish(t)
    <3>1. declared' = FALSE
      BY <2>1 DEF Plan, Retry, Resend, Republish, AskedAgain
    <3> QED BY <3>1 DEF FinishedOnly
  <2>2. CASE CancelRest \/ CancelDraft
    BY <2>2, CancellingCancel, FinishedKept
  <2>3. ASSUME NEW t \in Targets, Skip(t) \/ ResumeFrom(t) \/ \E found \in BOOLEAN : SettleAmbiguous(t, found)
        PROVE  FinishedOnly'
    BY <2>3, SettlingCancel, FinishedKept
  <2> QED BY <1>5, <2>1, <2>2, <2>3 DEF Operator
<1> QED BY <1>1, <1>2, <1>3, <1>4, <1>5 DEF Next

-----------------------------------------------------------------------------
(* Who reaches the audience *)

\* A post appears only by an attempt under way on its target.
LEMMA OnlyAttemptsPublish ==
  ASSUME TypeOK, [Next]_vars, NEW t \in Targets, NEW p \in DOMAIN live[t], live'[t][p] > live[t][p]
  PROVE  UnderWay(t)
<1>1. live[t] \in [1 .. Parts[t] -> 0 .. 2] /\ p \in 1 .. Parts[t]
  BY DEF TypeOK
<1>2. live' # live
  BY <1>1
<1>3. ASSUME NEW w \in Workers, Deliver(w)
      PROVE  UnderWay(t)
  <2>1. Lands(w)
    <3>1. \A class \in ErrorClasses : FailBeforeCall(w, class) => live' = live
      BY DEF FailBeforeCall, SettleFrame
    <3>2. \A class \in ErrorClasses : CallRejected(w, class) => live' = live
      BY DEF CallRejected, SettleFrame
    <3>3. (Timeout(w) \/ FinalizationFails(w) \/ FailureUnrecorded(w) \/ CompleteDeferred(w)
           \/ CompleteFinal(w) \/ \E answered \in BOOLEAN : CompletePartial(w, answered)) => live' = live
      BY DEF Timeout, FinalizationFails, FailureUnrecorded, CompleteDeferred, CompleteFinal, CompletePartial,
             SettleFrame
    <3>4. (EnterPhase(w) \/ LeaseLost(w) \/ \E refusal \in Refusals : CallDeclined(w, refusal)) => live' = live
      BY DEF EnterPhase, LeaseLost, CallDeclined
    <3>5. (CallAccepted(w) \/ (\E landed \in BOOLEAN : CallLost(w, landed))
           \/ \E class \in ErrorClasses : CallUnreadable(w, class)) => Lands(w) \/ live' = live
      BY DEF CallAccepted, CallLost, CallUnreadable
    <3> QED BY <1>2, <1>3, <3>1, <3>2, <3>3, <3>4, <3>5 DEF Deliver
  <2>2. ~Idle(w)
    BY <1>3, DeliverElsewhere
  <2>3. attempt[w].target = t
    <3>1. attempt[w].target # t => live'[t] = live[t]
      BY <2>1 DEF Lands, TypeOK
    <3>2. ~(live[t][p] > live[t][p])
      BY <1>1
    <3> QED BY <3>1, <3>2
  <2> QED BY <2>2, <2>3 DEF UnderWay, InFlight
<1>4. CASE \E w \in Workers : Heartbeat(w)
  BY <1>2, <1>4 DEF Heartbeat
<1>5. CASE \E u \in Targets, i \in JobIds : ClaimStep(u, i) \/ LeaseExpires(u, i) \/ ReconcileClaim(u, i)
  <2>1. PICK u \in Targets, i \in JobIds : ClaimStep(u, i) \/ LeaseExpires(u, i) \/ ReconcileClaim(u, i)
    BY <1>5
  <2>2. \A w \in Workers : Claim(w, u, i) => live' = live
    BY DEF Claim
  <2>3. ClaimRefuseDuplicate(u, i) \/ ClaimStopCancelled(u, i) => live' = live
    BY DEF ClaimRefuseDuplicate, ClaimStopCancelled
  <2>4. LeaseExpires(u, i) \/ ReconcileClaim(u, i) => live' = live
    BY DEF LeaseExpires, ReconcileClaim
  <2> QED BY <1>2, <2>1, <2>2, <2>3, <2>4 DEF ClaimStep
<1>6. CASE RecoverStale \/ Reconcile \/ Crash
  BY <1>2, <1>6 DEF RecoverStale, Reconcile, ReconcileConfirm, ReconcileDefer, Crash
<1>7. CASE Operator
  <2>1. PICK u \in Targets : Republish(u)
    BY <1>2, <1>7 DEF Operator, Plan, CancelRest, CancelDraft, Retry, Resend, Skip, ResumeFrom,
       SettleAmbiguous
  <2>2. live' = [live EXCEPT ![u] = [q \in DOMAIN live[u] |-> 0]]
    BY <2>1 DEF Republish
  <2>3. live'[t] = live[t] \/ live'[t][p] = 0
    BY <2>2 DEF TypeOK
  <2>4. ~(live[t][p] > live[t][p]) /\ ~(0 > live[t][p])
    BY <1>1
  <2> QED BY <2>3, <2>4
<1>8. CASE UNCHANGED vars
  BY <1>2, <1>8 DEF vars
<1> QED BY <1>3, <1>4, <1>5, <1>6, <1>7, <1>8 DEF Next

\* From the moment "cancel the rest" is declared until the publication is asked for
\* again, nothing new reaches a target that had nothing under way, wherever the
\* tap landed among claims, attempts, lost leases and restarts.
THEOREM CancellationBinds == Spec => CancelBinds
<1> DEFINE Binds == \A t \in Targets : \A p \in DOMAIN live[t] :
                      (declared /\ live'[t][p] > live[t][p]) => t \in begun
<1>1. IndInv => TypeOK
  BY DEF IndInv
<1>2. Init => FinishedOnly
  BY DEF Init, FinishedOnly
<1>3. TypeOK /\ FinishedOnly /\ [Next]_vars => [Binds]_vars
  <2> SUFFICES ASSUME TypeOK, FinishedOnly, [Next]_vars, NEW t \in Targets, NEW p \in DOMAIN live[t],
                      declared, live'[t][p] > live[t][p]
               PROVE  t \in begun
    OBVIOUS
  <2>1. PartWay(t)
    BY OnlyAttemptsPublish, PartWayMeans
  <2> QED BY <2>1 DEF FinishedOnly
<1> QED BY <1>1, <1>2, <1>3, FinishedStep, Inductive, PTL DEF Spec, CancelBinds

-----------------------------------------------------------------------------
-----------------------------------------------------------------------------
(* The rows of a target taken together *)

\* There is one that could be delivered (OneOpenRow), and the target row says of it what
\* it says (MirrorAgrees).  Neither is inductive.  A row may come back from "cancelled"
\* (ops retry, resume-from), so one needs to know which: the newest, and no open row is
\* ever older than another row (NewestOpen), for job ids only grow (IdsOnlyGrow).  A
\* settlement writes one row and the target row, so the other rows of the target must be
\* ones the target row says nothing of.

Over == {"no_row", "cancelled"}
Told == {"publishing", "published", "skipped", "verification_required"}

\* A row that is not given up is the newest of its target.
NewestOpen == \A t \in Targets : \A i, k \in Rows(t) : jobs[t][i].status # "cancelled" => k <= i
IdsOnlyGrow == \A t \in Targets : \A i \in Rows(t) : i < nextJob[t]

RowsInv == NewestOpen /\ IdsOnlyGrow /\ MirrorAgrees

-----------------------------------------------------------------------------
(* What a step does to the rows of one target *)

\* No row appears and none comes back.
Shrinks(t) ==
  /\ \A i \in JobIds : jobs[t][i].status \in Over => jobs'[t][i].status \in {"no_row", jobs[t][i].status}
  /\ nextJob'[t] = nextJob[t]

\* A row is added beside rows that are all given up.
Adds(t) ==
  /\ \A i \in JobIds : i # nextJob[t] =>
       jobs'[t][i].status \in Over /\ (jobs[t][i].status = "no_row" => jobs'[t][i].status = "no_row")
  /\ nextJob'[t] = nextJob[t] + 1

\* The newest row is taken up again.
Reopens(t) ==
  /\ \E i \in JobIds : Latest(t, i) /\ \A k \in JobIds : k # i => jobs'[t][k] = jobs[t][k]
  /\ nextJob'[t] = nextJob[t]

\* What the target row says of a row is written with it or was true before.
Tells(t) == \A i \in JobIds : jobs'[t][i].status \in Told =>
  \/ mirror'[t].status = jobs'[t][i].status
  \/ mirror'[t].status = mirror[t].status /\ jobs'[t][i].status = jobs[t][i].status

OrderEffect == \A t \in Targets : Tells(t) /\ (Shrinks(t) \/ Adds(t) \/ Reopens(t))

\* The invariant survives a step that keeps to these.
LEMMA OrderKept ==
  ASSUME TypeOK, RowsInv, OrderEffect
  PROVE  RowsInv'
<1>1. \A t \in Targets : nextJob[t] \in Nat
  BY BoundsAssumption DEF TypeOK
<1>2. ASSUME NEW t \in Targets, NEW i \in JobIds, NEW k \in JobIds,
             jobs'[t][i].status \notin Over, jobs'[t][k].status # "no_row"
      PROVE  k <= i
  <2>1. i \in Nat /\ k \in Nat
    BY BoundsAssumption DEF JobIds
  <2>2. CASE Shrinks(t)
    <3>1. i \in Rows(t) /\ k \in Rows(t) /\ jobs[t][i].status # "cancelled"
      BY <1>2, <2>2 DEF Shrinks, Rows, HasRow, Over
    <3> QED BY <3>1 DEF RowsInv, NewestOpen
  <2>3. CASE Adds(t)
    <3>1. i = nextJob[t]
      BY <1>2, <2>3 DEF Adds
    <3>2. k = i \/ k \in Rows(t)
      BY <1>2, <2>3, <3>1 DEF Adds, Rows, HasRow
    <3> QED BY <2>1, <3>1, <3>2 DEF RowsInv, IdsOnlyGrow
  <2>4. CASE Reopens(t)
    <3>1. PICK j \in JobIds : Latest(t, j) /\ \A m \in JobIds : m # j => jobs'[t][m] = jobs[t][m]
      BY <2>4 DEF Reopens
    <3>2. j \in Rows(t) /\ (k = j \/ k \in Rows(t))
      BY <1>2, <3>1 DEF Latest, Rows, HasRow
    <3>3. CASE i = j
      BY <2>1, <3>1, <3>2, <3>3 DEF Latest
    <3>4. CASE i # j
      <4>1. i \in Rows(t) /\ jobs[t][i].status # "cancelled"
        BY <1>2, <3>1, <3>4 DEF Rows, HasRow, Over
      <4> QED BY <3>2, <4>1 DEF RowsInv, NewestOpen
    <3> QED BY <3>3, <3>4
  <2> QED BY <2>2, <2>3, <2>4 DEF OrderEffect
<1>3. NewestOpen'
  BY <1>2 DEF NewestOpen, Rows, HasRow, Over
<1>4. IdsOnlyGrow'
  <2> SUFFICES ASSUME NEW t \in Targets, NEW i \in JobIds, jobs'[t][i].status # "no_row"
               PROVE  i < nextJob'[t]
    BY DEF IdsOnlyGrow, Rows, HasRow
  <2>1. i \in Nat
    BY BoundsAssumption DEF JobIds
  <2>2. CASE i \in Rows(t)
    BY <1>1, <2>1, <2>2 DEF RowsInv, IdsOnlyGrow, OrderEffect, Shrinks, Adds, Reopens
  <2>3. CASE i \notin Rows(t)
    <3>1. jobs[t][i].status = "no_row"
      BY <2>3 DEF Rows, HasRow
    <3>2. ~Shrinks(t) /\ ~Reopens(t)
      BY <3>1 DEF Shrinks, Reopens, Latest, HasRow, Over
    <3> QED BY <1>1, <2>1, <3>1, <3>2 DEF OrderEffect, Adds
  <2> QED BY <2>2, <2>3
<1>5. MirrorAgrees'
  BY DEF RowsInv, MirrorAgrees, OrderEffect, Tells, Told, Rows, HasRow
<1> QED BY <1>3, <1>4, <1>5 DEF RowsInv

LEMMA OneOpen ==
  ASSUME RowsInv, NEW t \in Targets, NEW i \in JobIds, NEW k \in JobIds,
         jobs[t][i].status \notin Over, jobs[t][k].status \notin Over
  PROVE  i = k
<1>1. i \in Rows(t) /\ k \in Rows(t)
  BY DEF Rows, HasRow, Over
<1>2. k <= i /\ i <= k
  BY <1>1 DEF RowsInv, NewestOpen, Over
<1>3. i \in Nat /\ k \in Nat
  BY BoundsAssumption DEF JobIds
<1> QED BY <1>2, <1>3

-----------------------------------------------------------------------------
(* The shapes of a step *)

LEMMA NothingMoves ==
  ASSUME jobs' = jobs, mirror' = mirror, nextJob' = nextJob
  PROVE  OrderEffect
BY DEF OrderEffect, Tells, Shrinks

\* Nothing is settled: no row appears and none changes its status but to go.
LEMMA RowsGo ==
  ASSUME mirror' = mirror, nextJob' = nextJob,
         \A t \in Targets, i \in JobIds : jobs'[t][i].status \in Over \/ jobs'[t][i].status = jobs[t][i].status,
         \A t \in Targets, i \in JobIds :
           jobs[t][i].status \in Over => jobs'[t][i].status \in {"no_row", jobs[t][i].status}
  PROVE  OrderEffect
BY DEF OrderEffect, Tells, Shrinks, Told, Over

\* One open row is written, and the target row with it.
LEMMA OneSettled ==
  ASSUME TypeOK, RowsInv, NEW t \in Targets, NEW i \in JobIds, NEW row,
         jobs[t][i].status \notin Over, jobs' = [jobs EXCEPT ![t][i] = row],
         mirror'[t].status = row.status, \A u \in Targets : u # t => mirror'[u] = mirror[u],
         nextJob' = nextJob
  PROVE  OrderEffect
<1>1. \A u \in Targets, k \in JobIds : jobs'[u][k] = IF u = t /\ k = i THEN row ELSE jobs[u][k]
  BY DEF TypeOK
<1>2. \A u \in Targets : Shrinks(u)
  BY <1>1 DEF Shrinks
<1>3. ASSUME NEW u \in Targets PROVE Tells(u)
  <2>1. CASE u # t
    BY <1>1, <2>1 DEF Tells
  <2>2. CASE u = t
    <3>1. \A k \in JobIds : k # i => jobs'[t][k].status \in Over
      BY <1>1, OneOpen
    <3> QED BY <1>1, <2>2, <3>1 DEF Tells, Told, Over
  <2> QED BY <2>1, <2>2
<1> QED BY <1>2, <1>3 DEF OrderEffect

\* One row changes and keeps its status.
LEMMA OneTouched ==
  ASSUME TypeOK, NEW t \in Targets, NEW i \in JobIds, NEW row,
         jobs' = [jobs EXCEPT ![t][i] = row], row.status = jobs[t][i].status,
         mirror' = mirror, nextJob' = nextJob
  PROVE  OrderEffect
<1>1. \A u \in Targets, k \in JobIds : jobs'[u][k] = IF u = t /\ k = i THEN row ELSE jobs[u][k]
  BY DEF TypeOK
<1> QED BY <1>1 DEF OrderEffect, Tells, Shrinks

\* The settlement of an attempt.
LEMMA SettleOrder ==
  ASSUME TypeOK, RowsInv, NEW w \in Workers, ~Idle(w), NEW row, NEW image,
         NEW superseding \in BOOLEAN, NEW refreshing \in BOOLEAN,
         image.status = row.status, Settle(w, row, image, superseding, refreshing), nextJob' = nextJob
  PROVE  OrderEffect
<1> DEFINE t == attempt[w].target
           i == attempt[w].id
           written == [jobs[t] EXCEPT ![i] = row]
           rows == IF superseding THEN ClearSuperseded(written, i) ELSE written
<1>1. t \in Targets /\ i \in JobIds
  BY DEF TypeOK, Idle, Attempt
<1>2. CASE Holds(w)
  <2>1. jobs' = [jobs EXCEPT ![t] = rows] /\ mirror' = [mirror EXCEPT ![t] = image]
    BY <1>2 DEF Settle
  <2>2. jobs[t][i].status \notin Over /\ jobs[t] \in [JobIds -> Row]
    BY <1>1, <1>2 DEF TypeOK, Holds, Over
  <2>3. \A k \in JobIds : k # i => jobs[t][k].status \in Over /\ written[k] = jobs[t][k]
    BY <1>1, <2>2, OneOpen
  <2>4. rows[i] = row
    BY <1>1, <2>2 DEF ClearSuperseded
  <2>5. \A k \in JobIds : k # i => rows[k] = jobs[t][k]
    BY <2>3 DEF ClearSuperseded, Superseded, Over
  <2> HIDE DEF rows, written
  <2>6. \A u \in Targets : /\ jobs'[u] = IF u = t THEN rows ELSE jobs[u]
                           /\ mirror'[u] = IF u = t THEN image ELSE mirror[u]
    BY <2>1, <1>1 DEF TypeOK
  <2>7. \A u \in Targets : Shrinks(u)
    BY <2>2, <2>5, <2>6 DEF Shrinks
  <2>8. \A u \in Targets : Tells(u)
    BY <2>3, <2>4, <2>5, <2>6 DEF Tells, Told, Over
  <2> QED BY <2>7, <2>8 DEF OrderEffect
<1>3. CASE ~Holds(w)
  BY <1>3, NothingMoves DEF Settle
<1> QED BY <1>2, <1>3

-----------------------------------------------------------------------------
(* The steps of an attempt *)

LEMMA FailOrder ==
  ASSUME TypeOK, RowsInv, NEW w \in Workers, ~Idle(w), NEW class, Fail(w, class), nextJob' = nextJob
  PROVE  OrderEffect
<1> DEFINE status == AfterFailure(class, OwnRow(w).attempt)
           row == [Settled(OwnRow(w), status) EXCEPT !.attempt = Spend(@)]
           image == [OwnMirror(w) EXCEPT !.status = status]
<1>1. OwnMirror(w) \in MirrorRow /\ OwnRow(w) \in Row
  BY OwnType
<1>2. status \in JobStatus
  BY DEF AfterFailure, JobStatus
<1>3. Settle(w, row, image, TRUE, status = "failed")
  BY DEF Fail
<1> HIDE DEF status
<1>4. image.status = row.status
  BY <1>1, <1>2, SpentType DEF MirrorRow
<1> HIDE DEF row, image
<1> QED BY <1>3, <1>4, SettleOrder

LEMMA VerificationOrder ==
  ASSUME TypeOK, RowsInv, NEW w \in Workers, ~Idle(w), nextJob' = nextJob,
         RequireVerification(w) \/ \E ext \in BOOLEAN : ForceVerification(w, ext)
  PROVE  OrderEffect
<1> DEFINE row == [Settled(OwnRow(w), "verification_required") EXCEPT !.attempt = Spend(@)]
           image == [OwnMirror(w) EXCEPT !.status = "verification_required"]
<1>1. OwnMirror(w) \in MirrorRow /\ OwnRow(w) \in Row
  BY OwnType
<1>2. row.status = "verification_required"
  BY <1>1, SpentType DEF JobStatus
<1>3. CASE RequireVerification(w)
  <2>1. Settle(w, row, image, TRUE, TRUE)
    BY <1>3 DEF RequireVerification
  <2>2. image.status = "verification_required"
    BY <1>1 DEF MirrorRow
  <2> HIDE DEF row, image
  <2> QED BY <1>2, <2>1, <2>2, SettleOrder
<1>4. ASSUME NEW ext \in BOOLEAN, ForceVerification(w, ext)
      PROVE  OrderEffect
  <2> DEFINE forced == [status |-> "verification_required", ext |-> ext]
  <2>1. Settle(w, row, forced, FALSE, TRUE) /\ forced.status = "verification_required"
    BY <1>4 DEF ForceVerification
  <2> HIDE DEF row, forced
  <2> QED BY <1>2, <2>1, SettleOrder
<1> QED BY <1>3, <1>4

\* The results an attempt records.
LEMMA CompleteOrder ==
  ASSUME TypeOK, RowsInv, NEW w \in Workers,
         CompleteDeferred(w) \/ CompleteFinal(w) \/ \E answered \in BOOLEAN : CompletePartial(w, answered)
  PROVE  OrderEffect
<1>1. ~Idle(w) /\ nextJob' = nextJob
  <2>1. attempt[w].pc = "verify" /\ SettleFrame
    BY DEF CompleteDeferred, CompleteFinal, CompletePartial
  <2> QED BY <2>1 DEF Idle, IdleAttempt, SettleFrame
<1>2. OwnRow(w) \in Row /\ OwnMirror(w) \in MirrorRow /\ attempt[w] \in Attempt
  BY <1>1, OwnType
<1>3. CASE CompleteDeferred(w)
  <2> DEFINE row == [Settled(OwnRow(w), "queued") EXCEPT !.progress = PublishedSoFar(w),
                                                          !.resume = PublishedSoFar(w)]
             image == [OwnMirror(w) EXCEPT !.status = "queued"]
  <2>1. Settle(w, row, image, FALSE, FALSE)
    BY <1>3 DEF CompleteDeferred
  <2>2. row.status = "queued" /\ image.status = "queued"
    BY <1>2 DEF Settled, Unlocked, Row, MirrorRow
  <2> HIDE DEF row, image
  <2> QED BY <1>1, <2>1, <2>2, SettleOrder
<1>4. CASE CompleteFinal(w)
  <2> DEFINE status == IF attempt[w].result = "ok" THEN "published" ELSE attempt[w].result
             row == Settled(OwnRow(w), status)
             image == [status |-> status, ext |-> status = "published"]
  <2>1. Settle(w, row, image, TRUE, TRUE)
    BY <1>4 DEF CompleteFinal
  <2>2. row.status = status /\ image.status = status
    BY <1>2 DEF Settled, Unlocked, Row
  <2> HIDE DEF row, image
  <2> QED BY <1>1, <2>1, <2>2, SettleOrder
<1>5. ASSUME NEW answered \in BOOLEAN, CompletePartial(w, answered)
      PROVE  OrderEffect
  <2> DEFINE status == IF OwnRow(w).attempt + 1 < PartialMaxAttempts /\ ~answered
                       THEN "queued" ELSE "failed"
             row == [Settled(OwnRow(w), status) EXCEPT !.attempt = Spend(@), !.resume = PublishedSoFar(w)]
             image == [status |-> status, ext |-> TRUE]
  <2>1. Settle(w, row, image, TRUE, status = "failed")
    BY <1>5 DEF CompletePartial
  <2>2. row.status = status /\ image.status = status
    BY <1>2 DEF Settled, Unlocked, Row
  <2>3. (status = "failed") \in BOOLEAN
    OBVIOUS
  <2> HIDE DEF row, image, status
  <2> QED BY <1>1, <2>1, <2>2, <2>3, SettleOrder
<1> QED BY <1>3, <1>4, <1>5

\* The adapter's answers.
LEMMA CallOrder ==
  ASSUME TypeOK, RowsInv, NEW w \in Workers, NEW class,
         CallAccepted(w) \/ (\E landed \in BOOLEAN : CallLost(w, landed)) \/ CallRejected(w, class)
           \/ CallUnreadable(w, class) \/ \E refusal \in Refusals : CallDeclined(w, refusal)
  PROVE  OrderEffect
<1>1. ~Idle(w) /\ nextJob' = nextJob
  BY DEF CallAccepted, CallLost, CallRejected, CallUnreadable, CallDeclined, Calling, Idle, IdleAttempt,
         SettleFrame, queue
<1>2. CASE CallAccepted(w) \/ \E refusal \in Refusals : CallDeclined(w, refusal)
  <2>1. jobs' = jobs /\ mirror' = mirror
    BY <1>2 DEF CallAccepted, CallDeclined, queue
  <2> QED BY <1>1, <2>1, NothingMoves
<1>3. CASE CallRejected(w, class) \/ CallUnreadable(w, class)
  <2>1. (jobs' = jobs /\ mirror' = mirror) \/ Fail(w, class)
    BY <1>3 DEF CallRejected, CallUnreadable, Refused
  <2> QED BY <1>1, <2>1, NothingMoves, FailOrder
<1>4. CASE \E landed \in BOOLEAN : CallLost(w, landed)
  <2>1. (jobs' = jobs /\ mirror' = mirror) \/ RequireVerification(w)
    BY <1>4 DEF CallLost
  <2> QED BY <1>1, <2>1, NothingMoves, VerificationOrder
<1> QED BY <1>2, <1>3, <1>4

LEMMA EnterPhaseOrder ==
  ASSUME TypeOK, NEW w \in Workers, EnterPhase(w) \/ LeaseLost(w) \/ Heartbeat(w)
  PROVE  OrderEffect
<1> DEFINE t == attempt[w].target
           i == attempt[w].id
<1>1. CASE LeaseLost(w)
  BY <1>1, NothingMoves DEF LeaseLost, queue
<1>2. CASE EnterPhase(w) \/ Heartbeat(w)
  <2>1. t \in Targets /\ i \in JobIds /\ nextJob' = nextJob /\ mirror' = mirror
    BY <1>2 DEF EnterPhase, Heartbeat, Holds, Idle, TypeOK, Attempt
  <2>2. jobs[t][i] \in Row
    BY <2>1 DEF TypeOK
  <2>3. \/ jobs' = [jobs EXCEPT ![t][i] = [jobs[t][i] EXCEPT !.phase = NextPc[attempt[w].pc]]]
        \/ jobs' = [jobs EXCEPT ![t][i] = [jobs[t][i] EXCEPT !.stale = FALSE]]
    BY <1>2 DEF EnterPhase, Heartbeat
  <2>4. /\ [jobs[t][i] EXCEPT !.phase = NextPc[attempt[w].pc]].status = jobs[t][i].status
        /\ [jobs[t][i] EXCEPT !.stale = FALSE].status = jobs[t][i].status
    BY <2>2 DEF Row
  <2> QED BY <2>1, <2>3, <2>4, OneTouched
<1> QED BY <1>1, <1>2

LEMMA DeliverOrder ==
  ASSUME TypeOK, RowsInv, NEW w \in Workers, Deliver(w) \/ Heartbeat(w)
  PROVE  OrderEffect
<1>1. ASSUME NEW class \in ErrorClasses, FailBeforeCall(w, class)
      PROVE  OrderEffect
  <2>1. ~Idle(w) /\ nextJob' = nextJob /\ Fail(w, class)
    BY <1>1 DEF FailBeforeCall, Idle, IdleAttempt, SettleFrame
  <2> QED BY <2>1, FailOrder
<1>2. CASE Timeout(w)
  <2>1. ~Idle(w) /\ nextJob' = nextJob /\ (RequireVerification(w) \/ Fail(w, "permanent"))
    BY <1>2 DEF Timeout, SettleFrame
  <2> QED BY <2>1, FailOrder, VerificationOrder
<1>3. CASE FinalizationFails(w) \/ FailureUnrecorded(w)
  <2>1. ~Idle(w) /\ nextJob' = nextJob
    BY <1>3 DEF FinalizationFails, FailureUnrecorded, Idle, IdleAttempt, SettleFrame
  <2>2. NamesPost(attempt[w].result) \in BOOLEAN /\ OwnMirror(w).ext \in BOOLEAN
    BY <2>1, OwnType DEF NamesPost, MirrorRow
  <2> QED BY <1>3, <2>1, <2>2, VerificationOrder DEF FinalizationFails, FailureUnrecorded
<1> QED BY <1>1, <1>2, <1>3, EnterPhaseOrder, CallOrder, CompleteOrder DEF Deliver

-----------------------------------------------------------------------------
(* Claims, leases, recovery and the sweep *)

LEMMA ClaimOrder ==
  ASSUME TypeOK, RowsInv, NEW t \in Targets, NEW i \in JobIds, ClaimStep(t, i)
  PROVE  OrderEffect
<1>1. jobs[t][i] \in Row /\ jobs[t][i].status = "queued" /\ nextJob' = nextJob
  <2>1. jobs[t][i] \in Row
    BY DEF TypeOK
  <2>2. \A w \in Workers : Claim(w, t, i) => jobs[t][i].status = "queued" /\ nextJob' = nextJob
    BY DEF Claim
  <2>3. ClaimRefuseDuplicate(t, i) => jobs[t][i].status = "queued" /\ nextJob' = nextJob
    BY DEF ClaimRefuseDuplicate
  <2>4. ClaimStopCancelled(t, i) => jobs[t][i].status = "queued" /\ nextJob' = nextJob
    BY DEF ClaimStopCancelled
  <2> QED BY <2>1, <2>2, <2>3, <2>4 DEF ClaimStep
<1>2. ASSUME NEW row, jobs' = [jobs EXCEPT ![t][i] = row],
             mirror' = [mirror EXCEPT ![t].status = row.status]
      PROVE  OrderEffect
  <2>1. mirror'[t].status = row.status /\ \A u \in Targets : u # t => mirror'[u] = mirror[u]
    BY <1>2 DEF TypeOK, MirrorRow
  <2> QED BY <1>1, <1>2, <2>1, OneSettled DEF Over
<1>3. ASSUME NEW w \in Workers, Claim(w, t, i)
      PROVE  OrderEffect
  <2> DEFINE row == [jobs[t][i] EXCEPT !.status = "publishing", !.lockedBy = w,
                                       !.stale = FALSE, !.phase = "none"]
  <2>1. row.status = "publishing"
    BY <1>1 DEF Row
  <2>2. jobs' = [jobs EXCEPT ![t][i] = row] /\ mirror' = [mirror EXCEPT ![t].status = "publishing"]
    BY <1>3 DEF Claim
  <2> HIDE DEF row
  <2> QED BY <1>2, <2>1, <2>2
<1>4. CASE ClaimRefuseDuplicate(t, i)
  <2> DEFINE row == [Unlocked(jobs[t][i]) EXCEPT !.status = "verification_required"]
  <2>1. row.status = "verification_required"
    BY <1>1 DEF Row, Unlocked
  <2>2. /\ jobs' = [jobs EXCEPT ![t][i] = row]
        /\ mirror' = [mirror EXCEPT ![t].status = "verification_required"]
    BY <1>4 DEF ClaimRefuseDuplicate
  <2> HIDE DEF row
  <2> QED BY <1>2, <2>1, <2>2
<1>5. CASE ClaimStopCancelled(t, i)
  <2> DEFINE row == Settled(jobs[t][i], "cancelled")
  <2>1. row.status = "cancelled"
    BY <1>1, SettledType DEF JobStatus
  <2>2. jobs' = [jobs EXCEPT ![t][i] = row] /\ mirror' = [mirror EXCEPT ![t].status = "cancelled"]
    BY <1>5 DEF ClaimStopCancelled
  <2> HIDE DEF row
  <2> QED BY <1>2, <2>1, <2>2
<1> QED BY <1>3, <1>4, <1>5 DEF ClaimStep

LEMMA LockOrder ==
  ASSUME TypeOK, NEW t \in Targets, NEW i \in JobIds, LeaseExpires(t, i) \/ ReconcileClaim(t, i)
  PROVE  OrderEffect
<1>1. jobs[t][i] \in Row /\ mirror' = mirror /\ nextJob' = nextJob
  BY DEF LeaseExpires, ReconcileClaim, TypeOK
<1>2. \/ jobs' = [jobs EXCEPT ![t][i] = [jobs[t][i] EXCEPT !.stale = TRUE]]
      \/ jobs' = [jobs EXCEPT ![t][i] = [jobs[t][i] EXCEPT !.lockedBy = "recon", !.stale = FALSE]]
  BY DEF LeaseExpires, ReconcileClaim
<1>3. /\ [jobs[t][i] EXCEPT !.stale = TRUE].status = jobs[t][i].status
      /\ [jobs[t][i] EXCEPT !.lockedBy = "recon", !.stale = FALSE].status = jobs[t][i].status
  BY <1>1 DEF Row
<1> QED BY <1>1, <1>2, <1>3, OneTouched

\* Recovery writes the target row from the one row that was under delivery.
LEMMA RecoverOrder ==
  ASSUME TypeOK, RowsInv, RecoverStale
  PROVE  OrderEffect
<1> DEFINE Stale(t) == {i \in JobIds : LeftBehind(t, i)}
<1>1. /\ nextJob' = nextJob
      /\ \A t \in Targets, i \in JobIds : jobs'[t][i] =
           IF i \in Stale(t) THEN Recovered(jobs[t][i])
           ELSE IF Stale(t) # {} /\ jobs[t][i].status \in Superseded THEN NoJob ELSE jobs[t][i]
      /\ \A t \in Targets : mirror'[t] =
           IF Stale(t) = {} THEN mirror[t]
           ELSE [mirror[t] EXCEPT !.status = jobs'[t][CHOOSE i \in Stale(t) : TRUE].status]
  BY DEF RecoverStale
<1>2. NoJob.status = "no_row"
  BY DEF NoJob, NewRow
<1>3. \A t \in Targets : Shrinks(t)
  <2>1. \A t \in Targets : \A i \in Stale(t) : jobs[t][i].status \notin Over
    BY DEF LeftBehind, Over
  <2> QED BY <1>1, <1>2, <2>1 DEF Shrinks
<1>4. ASSUME NEW t \in Targets PROVE Tells(t)
  <2>1. CASE Stale(t) = {}
    BY <1>1, <2>1 DEF Tells
  <2>2. CASE Stale(t) # {}
    <3> DEFINE s == CHOOSE i \in Stale(t) : TRUE
    <3>1. s \in Stale(t)
      BY <2>2
    <3>2. jobs[t][s].status \notin Over /\ s \in JobIds
      BY <3>1 DEF LeftBehind, Over
    <3>3. mirror'[t].status = jobs'[t][s].status
      <4>1. mirror[t] \in MirrorRow /\ mirror'[t] = [mirror[t] EXCEPT !.status = jobs'[t][s].status]
        BY <1>1, <2>2 DEF TypeOK
      <4> HIDE DEF s
      <4> QED BY <4>1 DEF MirrorRow
    <3> HIDE DEF s
    <3>4. \A k \in JobIds : k # s => jobs[t][k].status \in Over /\ k \notin Stale(t)
      BY <3>2, OneOpen DEF LeftBehind, Over
    <3>5. \A k \in JobIds : k # s => jobs'[t][k].status \in Over
      BY <1>1, <1>2, <3>4 DEF Over
    <3> QED BY <3>3, <3>5 DEF Tells, Told, Over
  <2> QED BY <2>1, <2>2
<1> QED BY <1>3, <1>4 DEF OrderEffect

LEMMA ReconcileOrder ==
  ASSUME TypeOK, RowsInv, Reconcile
  PROVE  OrderEffect
<1> DEFINE t == recon.target
           i == recon.id
<1>1. t \in Targets /\ i \in JobIds /\ nextJob' = nextJob
  BY AskingPlace DEF Reconcile, ReconcileConfirm, ReconcileDefer
<1>2. jobs[t][i] \in Row
  BY <1>1 DEF TypeOK
<1>3. CASE ReconcileConfirm /\ ReconHolds
  <2> DEFINE row == Settled(jobs[t][i], "published")
  <2>1. row.status = "published" /\ jobs[t][i].status = "verification_required"
    BY <1>2, <1>3, SettledType DEF ReconHolds, JobStatus
  <2>2. /\ jobs' = [jobs EXCEPT ![t][i] = row]
        /\ mirror' = [mirror EXCEPT ![t] = [status |-> "published", ext |-> TRUE]]
    BY <1>3 DEF ReconcileConfirm
  <2>3. mirror'[t].status = row.status /\ \A u \in Targets : u # t => mirror'[u] = mirror[u]
    BY <1>1, <2>1, <2>2 DEF TypeOK
  <2> HIDE DEF row
  <2> QED BY <1>1, <2>1, <2>2, <2>3, OneSettled DEF Over
<1>4. CASE ReconcileDefer /\ ReconHolds
  <2> DEFINE row == Polled(jobs[t][i])
  <2>1. row.status = jobs[t][i].status
    BY <1>2 DEF Polled, Unlocked, Row
  <2>2. jobs' = [jobs EXCEPT ![t][i] = row] /\ mirror' = mirror
    BY <1>4 DEF ReconcileDefer
  <2> HIDE DEF row
  <2> QED BY <1>1, <2>1, <2>2, OneTouched
<1>5. CASE ~ReconHolds
  <2>1. jobs' = jobs /\ mirror' = mirror
    BY <1>5 DEF Reconcile, ReconcileConfirm, ReconcileDefer
  <2> QED BY <1>1, <2>1, NothingMoves
<1> QED BY <1>3, <1>4, <1>5 DEF Reconcile

-----------------------------------------------------------------------------
(* Operators *)

\* A plan adds a row only where every other one is given up or goes.
LEMMA PlanOrder ==
  ASSUME TypeOK, RowsInv, NEW enabled \in SUBSET Targets, Plan(enabled)
  PROVE  OrderEffect
<1> DEFINE fresh == {t \in enabled : ~FinalTarget(t)}
<1>1. NoJob.status = "no_row" /\ NewRow.status = "queued"
  BY DEF NoJob, NewRow
<1>2. \A t \in Targets :
        /\ jobs'[t] = IF t \in fresh THEN [KeptRows(t) EXCEPT ![nextJob[t]] = NewRow] ELSE KeptRows(t)
        /\ nextJob'[t] = IF t \in fresh THEN nextJob[t] + 1 ELSE nextJob[t]
        /\ mirror'[t] = mirror[t]
  BY DEF Plan
<1>3. \A t \in Targets, i \in JobIds :
        KeptRows(t)[i] = IF Replaceable(jobs[t][i]) THEN NoJob ELSE jobs[t][i]
  BY DEF KeptRows
<1>4. ASSUME NEW t \in Targets, t \notin fresh
      PROVE  Tells(t) /\ Shrinks(t)
  BY <1>1, <1>2, <1>3, <1>4 DEF Tells, Shrinks, Told, Over, Replaceable
<1>5. ASSUME NEW t \in fresh
      PROVE  Tells(t) /\ Adds(t)
  <2>1. t \in Targets /\ \A i \in JobIds : jobs[t][i] \in Row
    BY <1>5 DEF TypeOK
  <2>2. \A i \in JobIds : KeptRows(t)[i].status \in Over
                          /\ (jobs[t][i].status = "no_row" => KeptRows(t)[i].status = "no_row")
    <3> SUFFICES ASSUME NEW i \in JobIds
                 PROVE  /\ KeptRows(t)[i].status \in Over
                        /\ jobs[t][i].status = "no_row" => KeptRows(t)[i].status = "no_row"
      OBVIOUS
    <3>1. i \in Rows(t) => \/ jobs[t][i].status \in {"failed", "queued"} /\ ~(jobs[t][i].resume > 0)
                           \/ jobs[t][i].status = "cancelled"
      BY <2>1, <1>5 DEF FinalTarget, Row, JobStatus, Rows, HasRow
    <3>2. jobs[t][i].resume \in Nat
      BY <2>1 DEF Row
    <3>3. jobs[t][i].status \notin Over => Replaceable(jobs[t][i])
      BY <3>1, <3>2 DEF Rows, HasRow, Over, Replaceable
    <3> QED BY <1>1, <1>3, <2>1, <3>3 DEF Over, Replaceable
  <2>3. \A i \in JobIds : jobs'[t][i] = IF i = nextJob[t] THEN NewRow ELSE KeptRows(t)[i]
    BY <1>2, <2>1 DEF KeptRows
  <2>4. Adds(t)
    BY <1>2, <2>1, <2>2, <2>3 DEF Adds
  <2>5. Tells(t)
    BY <1>1, <2>2, <2>3 DEF Tells, Told, Over
  <2> QED BY <2>4, <2>5
<1> QED BY <1>4, <1>5 DEF OrderEffect

LEMMA CancelRestOrder ==
  ASSUME TypeOK, RowsInv, CancelRest
  PROVE  OrderEffect
<1>1. /\ nextJob' = nextJob
      /\ \A t \in Targets, i \in JobIds : jobs'[t][i] =
           IF Replaceable(jobs[t][i]) THEN Settled(jobs[t][i], "cancelled") ELSE jobs[t][i]
      /\ \A t \in Targets : mirror'[t] = mirror[t] \/ \E i \in Rows(t) : Replaceable(jobs[t][i])
  BY DEF CancelRest
<1>2. \A t \in Targets, i \in JobIds : Settled(jobs[t][i], "cancelled").status = "cancelled"
  BY SettledType DEF TypeOK, JobStatus
<1>3. ASSUME NEW t \in Targets PROVE Tells(t)
  <2>1. CASE mirror'[t] = mirror[t]
    BY <1>1, <1>2, <2>1 DEF Tells, Told
  <2>2. ASSUME NEW i \in Rows(t), Replaceable(jobs[t][i])
        PROVE  Tells(t)
    <3>1. i \in JobIds /\ jobs[t][i].status \notin Over
      BY <2>2 DEF Rows, Replaceable, Over
    <3>2. \A k \in JobIds : k # i => jobs[t][k].status \in Over
      BY <3>1, OneOpen
    <3>3. \A k \in JobIds : jobs'[t][k].status \in Over
      BY <1>1, <1>2, <2>2, <3>2 DEF Over
    <3> QED BY <3>3 DEF Tells, Told, Over
  <2> QED BY <1>1, <2>1, <2>2
<1>4. \A t \in Targets : Shrinks(t)
  BY <1>1, <1>2 DEF Shrinks, Replaceable, Over
<1> QED BY <1>3, <1>4 DEF OrderEffect

LEMMA CancelDraftOrder ==
  ASSUME TypeOK, CancelDraft
  PROVE  OrderEffect
<1>1. mirror' = mirror /\ nextJob' = nextJob
  BY DEF CancelDraft
<1>2. \A t \in Targets, i \in JobIds : jobs[t][i] \in Row
  BY DEF TypeOK
<1>3. CASE jobs' = [t \in Targets |-> [i \in JobIds |->
             IF jobs[t][i].status \in {"queued", "failed"}
             THEN [jobs[t][i] EXCEPT !.status = "cancelled"] ELSE jobs[t][i]]]
  <2>1. \A t \in Targets, i \in JobIds : [jobs[t][i] EXCEPT !.status = "cancelled"].status = "cancelled"
    BY <1>2 DEF Row
  <2> QED BY <1>1, <1>3, <2>1, RowsGo DEF Over
<1>4. CASE jobs' = [t \in Targets |-> [i \in JobIds |-> NoJob]]
  <2>1. NoJob.status = "no_row"
    BY DEF NoJob, NewRow
  <2> QED BY <1>1, <1>4, <2>1, RowsGo DEF Over
<1> QED BY <1>3, <1>4 DEF CancelDraft

\* The newest row is queued or settled by a command, the target row with it.
LEMMA LatestSettled ==
  ASSUME TypeOK, RowsInv, NEW t \in Targets, NEW i \in JobIds, Latest(t, i), NEW row,
         jobs' = [jobs EXCEPT ![t][i] = row], nextJob' = nextJob,
         row.status \notin Told \/ mirror'[t].status = row.status,
         \A u \in Targets : u # t => mirror'[u] = mirror[u]
  PROVE  OrderEffect
<1>1. \A u \in Targets, k \in JobIds : jobs'[u][k] = IF u = t /\ k = i THEN row ELSE jobs[u][k]
  BY DEF TypeOK
<1>2. \A u \in Targets : Shrinks(u) \/ Reopens(u)
  BY <1>1 DEF Shrinks, Reopens
<1>3. ASSUME NEW u \in Targets PROVE Tells(u)
  <2>1. CASE u # t
    BY <1>1, <2>1 DEF Tells
  <2>2. CASE u = t
    <3>1. ASSUME NEW k \in JobIds, k # i PROVE jobs[t][k].status \in Over
      <4>1. SUFFICES ASSUME jobs[t][k].status \notin Over PROVE FALSE
        OBVIOUS
      <4>2. k \in Rows(t) /\ i \in Rows(t) /\ jobs[t][k].status # "cancelled"
        BY <4>1 DEF Rows, HasRow, Over, Latest
      <4>3. i <= k /\ k <= i
        BY <4>2 DEF RowsInv, NewestOpen, Latest
      <4>4. i \in Nat /\ k \in Nat
        BY BoundsAssumption DEF JobIds
      <4> QED BY <3>1, <4>3, <4>4
    <3> QED BY <1>1, <2>2, <3>1 DEF Tells, Told, Over
  <2> QED BY <2>1, <2>2
<1> QED BY <1>2, <1>3 DEF OrderEffect

LEMMA RequeueOrder ==
  ASSUME TypeOK, RowsInv, NEW t \in Targets, NEW i \in JobIds, Latest(t, i), NEW resume, Requeue(t, i, resume)
  PROVE  OrderEffect
<1> DEFINE row == [Settled(jobs[t][i], "queued") EXCEPT !.attempt = 0, !.resume = resume, !.progress = 0]
<1>1. jobs[t][i] \in Row
  BY DEF TypeOK
<1>2. row.status = "queued"
  BY <1>1 DEF Settled, Unlocked, Row
<1>3. jobs' = [jobs EXCEPT ![t][i] = row] /\ nextJob' = nextJob
  BY DEF Requeue
<1>4. \A u \in Targets : u # t => mirror'[u] = mirror[u]
  BY DEF Requeue, TypeOK
<1> HIDE DEF row
<1> QED BY <1>2, <1>3, <1>4, LatestSettled DEF Told

LEMMA CreateOrder ==
  ASSUME TypeOK, NEW t \in Targets, CreateMissing(t)
  PROVE  OrderEffect
<1>1. nextJob[t] \in JobIds /\ NewRow.status = "queued"
  BY BoundsAssumption DEF CreateMissing, JobIds, TypeOK, NewRow
<1>2. \A i \in JobIds : jobs[t][i].status = "no_row"
  BY DEF CreateMissing, Rows, HasRow
<1>3. \A u \in Targets : /\ \A k \in JobIds : jobs'[u][k] = IF u = t /\ k = nextJob[t] THEN NewRow ELSE jobs[u][k]
                         /\ nextJob'[u] = IF u = t THEN nextJob[t] + 1 ELSE nextJob[u]
                         /\ u # t => mirror'[u] = mirror[u]
  BY DEF CreateMissing, TypeOK
<1>4. \A u \in Targets : Tells(u)
  BY <1>1, <1>2, <1>3 DEF Tells, Told
<1>5. \A u \in Targets : Shrinks(u) \/ Adds(u)
  BY <1>1, <1>2, <1>3 DEF Shrinks, Adds, Over
<1> QED BY <1>4, <1>5 DEF OrderEffect

LEMMA AskingAgainOrder ==
  ASSUME TypeOK, RowsInv, NEW t \in Targets, Retry(t) \/ Resend(t) \/ Republish(t)
  PROVE  OrderEffect
<1>1. CreateMissing(t) \/ \E i \in JobIds, resume \in Nat : Latest(t, i) /\ Requeue(t, i, resume)
  <2>1. \A i \in JobIds : jobs[t][i].resume \in Nat
    BY DEF TypeOK, Row
  <2> QED BY <2>1 DEF Retry, Resend, Republish, ResumeFailed
<1> QED BY <1>1, RequeueOrder, CreateOrder

LEMMA SettlingOrder ==
  ASSUME TypeOK, RowsInv, NEW t \in Targets,
         Skip(t) \/ ResumeFrom(t) \/ \E found \in BOOLEAN : SettleAmbiguous(t, found)
  PROVE  OrderEffect
<1>0. \A i \in JobIds : jobs[t][i] \in Row
  BY DEF TypeOK
<1>1. nextJob' = nextJob /\ \A u \in Targets : u # t => mirror'[u] = mirror[u]
  BY DEF Skip, ResumeFrom, SettleAmbiguous, TypeOK
<1>2. CASE Skip(t)
  <2>1. PICK i \in JobIds : Latest(t, i) /\ jobs' = [jobs EXCEPT ![t][i] = Settled(@, "cancelled")]
    BY <1>2 DEF Skip
  <2> DEFINE row == Settled(jobs[t][i], "cancelled")
  <2>2. row.status = "cancelled"
    BY <1>0, <2>1, SettledType DEF JobStatus
  <2>3. jobs' = [jobs EXCEPT ![t][i] = row] /\ Latest(t, i)
    BY <2>1
  <2> HIDE DEF row
  <2> QED BY <1>1, <2>2, <2>3, LatestSettled DEF Told
<1>3. CASE ResumeFrom(t)
  <2>1. PICK i \in JobIds :
          /\ Latest(t, i)
          /\ jobs' = [jobs EXCEPT ![t][i] = [Settled(@, "queued") EXCEPT !.attempt = 0, !.resume = 1]]
    BY <1>3 DEF ResumeFrom
  <2> DEFINE row == [Settled(jobs[t][i], "queued") EXCEPT !.attempt = 0, !.resume = 1]
  <2>2. row.status = "queued"
    BY <1>0, <2>1 DEF Settled, Unlocked, Row
  <2>3. jobs' = [jobs EXCEPT ![t][i] = row] /\ Latest(t, i)
    BY <2>1
  <2> HIDE DEF row
  <2> QED BY <1>1, <2>2, <2>3, LatestSettled DEF Told
<1>4. ASSUME NEW found \in BOOLEAN, SettleAmbiguous(t, found)
      PROVE  OrderEffect
  <2> DEFINE status == IF found THEN "published" ELSE "queued"
  <2>1. PICK i \in JobIds :
          Latest(t, i) /\ jobs' = [jobs EXCEPT ![t][i] = [Settled(@, status) EXCEPT !.attempt = 0]]
    BY <1>4 DEF SettleAmbiguous
  <2> DEFINE row == [Settled(jobs[t][i], status) EXCEPT !.attempt = 0]
  <2>2. row.status = status
    BY <1>0, <2>1 DEF Settled, Unlocked, Row
  <2>3. jobs' = [jobs EXCEPT ![t][i] = row] /\ Latest(t, i)
    BY <2>1
  <2>4. mirror'[t].status = status
    BY <1>4 DEF SettleAmbiguous, TypeOK
  <2> HIDE DEF row, status
  <2> QED BY <1>1, <2>2, <2>3, <2>4, LatestSettled
<1> QED BY <1>2, <1>3, <1>4

-----------------------------------------------------------------------------
(* The theorems *)

LEMMA OrderStep == TypeOK /\ RowsInv /\ [Next]_vars => RowsInv'
<1> SUFFICES ASSUME TypeOK, RowsInv, [Next]_vars PROVE OrderEffect
  BY OrderKept
<1>1. CASE UNCHANGED vars
  BY <1>1, NothingMoves DEF vars
<1>2. CASE \E w \in Workers : Deliver(w) \/ Heartbeat(w)
  BY <1>2, DeliverOrder
<1>3. CASE \E t \in Targets, i \in JobIds : ClaimStep(t, i) \/ LeaseExpires(t, i) \/ ReconcileClaim(t, i)
  BY <1>3, ClaimOrder, LockOrder
<1>4. CASE RecoverStale \/ Reconcile \/ Crash
  BY <1>4, RecoverOrder, ReconcileOrder, NothingMoves DEF Crash, queue
<1>5. CASE Operator
  BY <1>5, PlanOrder, CancelRestOrder, CancelDraftOrder, AskingAgainOrder, SettlingOrder DEF Operator
<1> QED BY <1>1, <1>2, <1>3, <1>4, <1>5 DEF Next

LEMMA OrderStarts == Init => RowsInv
BY DEF Init, RowsInv, NewestOpen, IdsOnlyGrow, MirrorAgrees, Rows, HasRow, NoJob, NewRow

\* The rows of a target keep the order they were made in: whatever commands,
\* attempts and recoveries race, only the newest is not given up.
THEOREM RowsAreOrdered == Spec => []RowsInv
<1>1. IndInv => TypeOK
  BY DEF IndInv
<1> QED BY <1>1, OrderStarts, OrderStep, Inductive, PTL DEF Spec

\* A target never has two rows that could still be delivered.
THEOREM OneRowIsOpen == Spec => []OneOpenRow
<1>1. RowsInv => OneOpenRow
  <2> SUFFICES ASSUME RowsInv, NEW t \in Targets, NEW i \in Rows(t), NEW k \in Rows(t),
                      jobs[t][i].status # "cancelled", jobs[t][k].status # "cancelled"
               PROVE  i = k
    BY DEF OneOpenRow
  <2> QED BY OneOpen DEF Rows, HasRow, Over
<1> QED BY <1>1, RowsAreOrdered, PTL

\* The target row Studio reads says what the job row says, once the row is being
\* delivered, is delivered or is in doubt.
THEOREM MirrorIsTrue == Spec => []MirrorAgrees
<1>1. RowsInv => MirrorAgrees
  BY DEF RowsInv
<1> QED BY <1>1, RowsAreOrdered, PTL
=============================================================================
