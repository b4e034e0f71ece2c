-------------------------- MODULE VideoQueueProofs --------------------------
(***************************************************************************)
(* What holds of every instance of VideoQueue.                             *)
(*                                                                         *)
(* Three invariants, each resting on the one before.  RowsInv: the draft,  *)
(* the rows of a target, the attempts at it and the questions about it     *)
(* agree.  PlatformInv: so do the rows and what the platforms hold, for a  *)
(* YouTube upload, an Instagram container and a provider's post in turn.   *)
(* TruthInv: of the provider's posts only the last request can be out.     *)
(*                                                                         *)
(* Every step is first put in terms of what it does to one target          *)
(* (StepOf), or to what a platform holds (ObjectStep); the last two        *)
(* invariants are proved from those terms alone.                           *)
(***************************************************************************)
EXTENDS VideoQueue, FiniteSetTheorems, TLAPS

\* A row the sweep has claimed has a question left.
SweptRow == {row \in JobRow : Asked(row) => row.reconcile < ReconcileMax}
Typed ==
  /\ TypeOK
  /\ job \in [Targets -> [Kinds -> SweptRow]]
  /\ asking # Idle => asking.prov # 0 \/ asking.fence # 0

LEMMA SpendType == ASSUME NEW n \in 0 .. AttemptCap PROVE Spend(n) \in 0 .. AttemptCap
  BY VideoBoundsAssumption DEF AttemptCap, Spend

LEMMA RowType ==
  ASSUME NEW row \in JobRow, NEW s \in JobStatus
  PROVE  /\ Unlocked(row, s) \in SweptRow /\ Spent(row, s) \in SweptRow
         /\ Requeued(row) \in SweptRow /\ NoRow \in SweptRow
<1>1. row.attempt \in 0 .. AttemptCap /\ 0 \in 0 .. AttemptCap /\ 0 \in 0 .. ReconcileMax
  BY VideoBoundsAssumption DEF JobRow, AttemptCap
<1>2. Spend(row.attempt) \in 0 .. AttemptCap
  BY <1>1, SpendType
<1>3. Unlocked(row, s) \in JobRow /\ Unlocked(row, s).lockedBy = "none" /\ Unlocked(row, s).attempt = row.attempt
  BY DEF Unlocked, JobRow
<1>4. Unlocked(row, s) \in SweptRow
  BY <1>3 DEF SweptRow, Asked
<1>5. Requeued(row) \in JobRow /\ Requeued(row).lockedBy = "none"
  BY <1>1 DEF Requeued, Unlocked, JobRow, JobStatus
<1>6. Spent(row, s) \in JobRow /\ Spent(row, s).lockedBy = "none"
  BY <1>2, <1>3 DEF JobRow, Spent
<1>7. NoRow \in JobRow /\ NoRow.lockedBy = "none"
  BY <1>1 DEF NoRow, JobRow, JobStatus
<1> QED BY <1>4, <1>5, <1>6, <1>7 DEF SweptRow, Asked

LEMMA RefreshedType ==
  ASSUME NEW d \in DraftRow, NEW tg
  PROVE  Refreshed(d, tg) \in DraftRow
  BY DEF Refreshed, DraftRow, DraftStatus

LEMMA FailureType == ASSUME NEW class, NEW n PROVE AfterFailure(class, n) \in {"queued", "failed"}
  BY DEF AfterFailure

LEMMA AttemptType ==
  ASSUME TypeOK, NEW w \in Workers, ~IdleWorker(w)
  PROVE  /\ attempt[w] \in Attempt
         /\ attempt[w].t \in Targets /\ attempt[w].kind \in Kinds
         /\ attempt[w].ext \in 0 .. MaxObjects /\ attempt[w].fence \in 0 .. MaxObjects /\ attempt[w].made \in 0 .. MaxObjects
         /\ job[attempt[w].t][attempt[w].kind] \in JobRow
         /\ target[attempt[w].t] \in TargetRow
  BY DEF TypeOK, IdleWorker, Attempt

\* What a step wrote to the rows of one target is what rows may hold.
LEMMA WriteTyped ==
  ASSUME Typed, NEW t \in Targets, NEW jobs \in [Kinds -> SweptRow], NEW row \in TargetRow
  PROVE  /\ [job EXCEPT ![t] = jobs] \in [Targets -> [Kinds -> SweptRow]]
         /\ [job EXCEPT ![t] = jobs] \in [Targets -> [Kinds -> JobRow]]
         /\ [target EXCEPT ![t] = row] \in [Targets -> TargetRow]
<1>1. jobs \in [Kinds -> JobRow]
  BY DEF SweptRow
<1> QED BY <1>1 DEF Typed, TypeOK


LEMMA RowsOf ==
  ASSUME Typed, NEW t \in Targets, NEW k \in Kinds
  PROVE  /\ job[t][k] \in JobRow /\ job[t][k] \in SweptRow /\ target[t] \in TargetRow
         /\ job[t] \in [Kinds -> SweptRow]
  BY DEF Typed, TypeOK

\* A step that writes the rows of one target, and at most the draft besides.
LEMMA RowsTyped ==
  ASSUME Typed, NEW t \in Targets, NEW jobs \in [Kinds -> SweptRow], NEW row \in TargetRow,
         \/ job' = [job EXCEPT ![t] = jobs] /\ target' = [target EXCEPT ![t] = row]
         \/ job' = job /\ target' = [target EXCEPT ![t] = row]
         \/ job' = [job EXCEPT ![t] = jobs] /\ target' = target
         \/ job' = job /\ target' = target,
         draft' = draft \/ draft' = Refreshed(draft, target'),
         attempt' \in [Workers -> Attempt \cup {Idle}], unheld' \subseteq Targets \X (0 .. MaxObjects),
         UNCHANGED <<route, fence, clock, object, recon, asking, holds, bounds>>
  PROVE  Typed'
<1>1. job' \in [Targets -> [Kinds -> SweptRow]] /\ job' \in [Targets -> [Kinds -> JobRow]] /\ target' \in [Targets -> TargetRow]
  <2>1. /\ job \in [Targets -> [Kinds -> SweptRow]] /\ job \in [Targets -> [Kinds -> JobRow]]
        /\ target \in [Targets -> TargetRow]
    BY DEF Typed, TypeOK
  <2> QED BY <2>1, WriteTyped
<1>2. draft' \in DraftRow
  <2>1. draft \in DraftRow
    BY DEF Typed, TypeOK
  <2> QED BY <2>1, RefreshedType
<1> QED BY <1>1, <1>2 DEF Typed, TypeOK, clock, bounds

LEMMA DoneTyped ==
  ASSUME Typed, NEW w \in Workers, Done(w)
  PROVE  attempt' \in [Workers -> Attempt \cup {Idle}]
  BY DEF Typed, TypeOK, Done

LEMMA FailTyped ==
  ASSUME Typed, NEW w \in Workers, ~IdleWorker(w), NEW class \in ErrorClasses, FailJob(w, class),
         unheld' \subseteq Targets \X (0 .. MaxObjects)
  PROVE  Typed'
<1> DEFINE t == attempt[w].t
           kind == attempt[w].kind
           next == AfterFailure(class, job[t][kind].attempt)
           jobs == [k \in Kinds |->
                   IF k = kind THEN Spent(job[t][kind], next)
                   ELSE IF EndsPublication(kind, next) /\ job[t][k].status = "queued"
                     THEN Unlocked(job[t][k], "cancelled") ELSE job[t][k]]
           row == [target[t] EXCEPT !.status = IF next = "queued" THEN "scheduled" ELSE "failed"]
<1>1. /\ t \in Targets /\ kind \in Kinds /\ job[t][kind] \in JobRow /\ target[t] \in TargetRow
  BY AttemptType DEF Typed
<1>2. jobs \in [Kinds -> SweptRow]
  <2>1. next \in JobStatus
    BY FailureType DEF JobStatus
  <2> HIDE DEF next
  <2> QED BY <1>1, <2>1, RowsOf, RowType DEF JobStatus
<1>3. row \in TargetRow
  BY <1>1 DEF TargetRow, TargetStatus
<1>4. \/ job' = [job EXCEPT ![t] = jobs] /\ target' = [target EXCEPT ![t] = row]
      \/ job' = job /\ target' = target
  BY <1>1 DEF FailJob, Typed, TypeOK
<1>5. /\ draft' = draft \/ draft' = Refreshed(draft, target')
      /\ attempt' \in [Workers -> Attempt \cup {Idle}]
      /\ UNCHANGED <<route, fence, clock, object, recon, asking, holds, bounds>>
  BY DoneTyped DEF FailJob
<1> HIDE DEF jobs, row, t, kind
<1> QED BY <1>1, <1>2, <1>3, <1>4, <1>5, RowsTyped

LEMMA VerifyTyped ==
  ASSUME Typed, NEW w \in Workers, ~IdleWorker(w), NEW prov \in 0 .. MaxObjects, RequireVerification(w, prov),
         unheld' \subseteq Targets \X (0 .. MaxObjects)
  PROVE  Typed'
<1> DEFINE t == attempt[w].t
           kind == attempt[w].kind
           new == Spent(job[t][kind], "verification_required")
           jobs == [job[t] EXCEPT ![kind] = new]
           row == [target[t] EXCEPT !.status = "verification_required", !.prov = prov]
<1>1. /\ t \in Targets /\ kind \in Kinds /\ job[t][kind] \in JobRow /\ target[t] \in TargetRow
  BY AttemptType DEF Typed
<1>2. jobs \in [Kinds -> SweptRow]
  <2>1. new \in SweptRow
    BY <1>1, RowType DEF JobStatus
  <2> HIDE DEF new
  <2> QED BY <1>1, <2>1, RowsOf
<1>3. row \in TargetRow
  BY <1>1 DEF TargetRow, TargetStatus
<1>4. \/ job' = [job EXCEPT ![t] = jobs] /\ target' = [target EXCEPT ![t] = row]
      \/ job' = job /\ target' = target
  BY <1>1 DEF RequireVerification, Typed, TypeOK, TargetRow
<1>5. /\ draft' = draft \/ draft' = Refreshed(draft, target')
      /\ attempt' \in [Workers -> Attempt \cup {Idle}]
      /\ UNCHANGED <<route, fence, clock, object, recon, asking, holds, bounds>>
  BY DoneTyped DEF RequireVerification
<1> HIDE DEF jobs, row, t, kind
<1> QED BY <1>1, <1>2, <1>3, <1>4, <1>5, RowsTyped

LEMMA CompleteTyped ==
  ASSUME Typed, NEW w \in Workers, ~IdleWorker(w), NEW row \in TargetRow, Complete(w, attempt[w].t, row),
         draft' = draft \/ draft' = Refreshed(draft, target'),
         attempt' \in [Workers -> Attempt \cup {Idle}],
         UNCHANGED <<route, fence, clock, object, recon, asking, holds, unheld, bounds>>
  PROVE  Typed'
<1> DEFINE t == attempt[w].t
           kind == attempt[w].kind
           jobs == [job[t] EXCEPT ![kind] = Unlocked(job[t][kind], "completed")]
<1>1. /\ t \in Targets /\ kind \in Kinds /\ job[t][kind] \in JobRow /\ target[t] \in TargetRow
  BY AttemptType DEF Typed
<1>2. jobs \in [Kinds -> SweptRow]
  <2>1. Unlocked(job[t][kind], "completed") \in SweptRow
    BY <1>1, RowType DEF JobStatus
  <2> QED BY <1>1, <2>1, RowsOf
<1>4. \/ job' = [job EXCEPT ![t] = jobs] /\ target' = [target EXCEPT ![t] = row]
      \/ job' = job /\ target' = target
  BY <1>1 DEF Complete, Typed, TypeOK
<1>6. unheld' \subseteq Targets \X (0 .. MaxObjects)
  BY DEF Typed, TypeOK
<1> HIDE DEF jobs, t, kind
<1> QED BY <1>1, <1>2, <1>4, <1>6, RowsTyped

LEMMA CompletionsTyped ==
  ASSUME Typed, NEW w \in Workers, ~IdleWorker(w),
         \/ ExecuteNothing(w) \/ ExecuteCheckpoint(w) \/ ExecuteYouTubePublish(w) \/ Uploaded(w)
         \/ ContainerCreated(w) \/ ReelPublished(w) \/ ProviderAnswered(w)
  PROVE  Typed'
<1> DEFINE t == attempt[w].t
           k == attempt[w].made
<1>1. t \in Targets /\ target[t] \in TargetRow /\ k \in 0 .. MaxObjects
  BY AttemptType DEF Typed
<1>4. CASE ExecuteNothing(w)
  <2>1. Complete(w, attempt[w].t, target[t]) /\ UNCHANGED <<draft, route, fence, clock, object, recon, asking, holds, unheld, bounds>>
    BY <1>4 DEF ExecuteNothing, ghosts
  <2>2. attempt' \in [Workers -> Attempt \cup {Idle}]
    BY <1>4, DoneTyped DEF ExecuteNothing
  <2> QED BY <1>1, <2>1, <2>2, CompleteTyped
<1>5. CASE ExecuteCheckpoint(w)
  <2>1. Complete(w, attempt[w].t, [target[t] EXCEPT !.status = "prepared"])
        /\ UNCHANGED <<draft, route, fence, clock, object, recon, asking, holds, unheld, bounds>>
    BY <1>5 DEF ExecuteCheckpoint, ghosts
  <2>2. attempt' \in [Workers -> Attempt \cup {Idle}]
    BY <1>5, DoneTyped DEF ExecuteCheckpoint
  <2>3. [target[t] EXCEPT !.status = "prepared"] \in TargetRow
    BY <1>1 DEF TargetRow, TargetStatus
  <2> QED BY <2>1, <2>2, <2>3, CompleteTyped
<1>6. CASE ExecuteYouTubePublish(w)
  <2>1. /\ Complete(w, attempt[w].t, [target[t] EXCEPT !.status = "published"])
        /\ draft' = draft \/ draft' = Refreshed(draft, target')
        /\ UNCHANGED <<route, fence, clock, object, recon, asking, holds, unheld, bounds>>
    BY <1>6 DEF ExecuteYouTubePublish, ghosts
  <2>2. attempt' \in [Workers -> Attempt \cup {Idle}]
    BY <1>6, DoneTyped DEF ExecuteYouTubePublish
  <2>3. [target[t] EXCEPT !.status = "published"] \in TargetRow
    BY <1>1 DEF TargetRow, TargetStatus
  <2> QED BY <2>1, <2>2, <2>3, CompleteTyped
<1>7. CASE Uploaded(w) \/ ContainerCreated(w)
  <2>1. Complete(w, attempt[w].t, [target[t] EXCEPT !.status = "prepared", !.ext = k])
        /\ UNCHANGED <<draft, route, fence, clock, object, recon, asking, holds, unheld, bounds>>
    BY <1>7 DEF Uploaded, ContainerCreated, ghosts
  <2>2. attempt' \in [Workers -> Attempt \cup {Idle}]
    <3>1. Done(w) \/ attempt' = [attempt EXCEPT ![w].pc = "hold"]
      BY <1>7 DEF Uploaded, ContainerCreated
    <3>2. attempt[w] \in Attempt /\ attempt \in [Workers -> Attempt \cup {Idle}]
      BY AttemptType DEF Typed, TypeOK
    <3>3. [attempt[w] EXCEPT !.pc = "hold"] \in Attempt
      BY <3>2 DEF Attempt
    <3>4. [attempt EXCEPT ![w].pc = "hold"] \in [Workers -> Attempt \cup {Idle}]
      BY <3>2, <3>3
    <3> QED BY <3>1, <3>4, DoneTyped
  <2>3. [target[t] EXCEPT !.status = "prepared", !.ext = k] \in TargetRow
    BY <1>1 DEF TargetRow, TargetStatus
  <2> QED BY <2>1, <2>2, <2>3, CompleteTyped
<1>8. CASE ReelPublished(w)
  <2>1. /\ Complete(w, attempt[w].t, [target[t] EXCEPT !.status = "published", !.ext = k])
        /\ draft' = draft \/ draft' = Refreshed(draft, target')
        /\ UNCHANGED <<route, fence, clock, object, recon, asking, holds, unheld, bounds>>
    BY <1>8 DEF ReelPublished, ghosts
  <2>2. attempt' \in [Workers -> Attempt \cup {Idle}]
    BY <1>8, DoneTyped DEF ReelPublished
  <2>3. [target[t] EXCEPT !.status = "published", !.ext = k] \in TargetRow
    BY <1>1 DEF TargetRow, TargetStatus
  <2> QED BY <2>1, <2>2, <2>3, CompleteTyped
<1>9. CASE ProviderAnswered(w)
  <2>1. CASE object[t][k] = "public"
    <3>1. /\ Complete(w, attempt[w].t, [status |-> "published", ext |-> k, prov |-> k])
          /\ draft' = draft \/ draft' = Refreshed(draft, target')
          /\ UNCHANGED <<route, fence, clock, object, recon, asking, holds, unheld, bounds>>
      BY <1>9, <2>1 DEF ProviderAnswered, ghosts
    <3>2. attempt' \in [Workers -> Attempt \cup {Idle}]
      BY <1>9, <2>1, DoneTyped DEF ProviderAnswered
    <3>3. [status |-> "published", ext |-> k, prov |-> k] \in TargetRow
      BY <1>1 DEF TargetRow, TargetStatus
    <3> QED BY <3>1, <3>2, <3>3, CompleteTyped
  <2>2. CASE object[t][k] # "public"
    <3>1. RequireVerification(w, k) /\ unheld' = unheld
      BY <1>9, <2>2 DEF ProviderAnswered
    <3>2. unheld' \subseteq Targets \X (0 .. MaxObjects)
      BY <3>1 DEF Typed, TypeOK
    <3> QED BY <1>1, <3>1, <3>2, VerifyTyped
  <2> QED BY <2>1, <2>2
<1> QED BY <1>4, <1>5, <1>6, <1>7, <1>8, <1>9

LEMMA FailuresTyped ==
  ASSUME Typed, NEW w \in Workers, ~IdleWorker(w), NEW class \in ErrorClasses,
         ExecuteUnready(w) \/ Refused(w, class) \/ Unread(w, class) \/ Lost(w)
  PROVE  Typed'
<1>0. /\ attempt[w].t \in Targets /\ attempt[w].made \in 0 .. MaxObjects
      /\ unheld \subseteq Targets \X (0 .. MaxObjects)
  BY AttemptType DEF Typed, TypeOK
<1>1. CASE ExecuteUnready(w)
  <2>1. FailJob(w, "unknown") /\ unheld' = unheld
    BY <1>1 DEF ExecuteUnready, Fail, ghosts
  <2> QED BY <1>0, <2>1, FailTyped DEF ErrorClasses
<1>2. CASE Refused(w, class) \/ Unread(w, class)
  <2>1. FailJob(w, class) /\ unheld' \subseteq unheld \cup {<<attempt[w].t, attempt[w].made>>}
    BY <1>2 DEF Refused, Unread, Fail, ghosts
  <2>2. unheld' \subseteq Targets \X (0 .. MaxObjects)
    BY <1>0, <2>1
  <2> QED BY <2>1, <2>2, FailTyped
<1>3. CASE Lost(w)
  <2>1. RequireVerification(w, target[attempt[w].t].prov)
    BY <1>3 DEF Lost
  <2>2. /\ attempt[w].t \in Targets /\ attempt[w].made \in 0 .. MaxObjects
        /\ target[attempt[w].t].prov \in 0 .. MaxObjects
    BY AttemptType DEF Typed, TargetRow
  <2>3. unheld' \subseteq unheld \cup {<<attempt[w].t, attempt[w].made>>}
    BY <1>3 DEF Lost
  <2>4. unheld' \subseteq Targets \X (0 .. MaxObjects)
    BY <2>2, <2>3 DEF Typed, TypeOK
  <2> QED BY <2>1, <2>2, <2>4, VerifyTyped
<1> QED BY <1>1, <1>2, <1>3

LEMMA MovesTyped ==
  ASSUME Typed, NEW w \in Workers,
         ExecuteCall(w) \/ Reaches(w) \/ ContainerFinished(w) \/ (\E answered \in BOOLEAN : KeepPrivate(w, answered))
  PROVE  Typed'
<1> DEFINE t == attempt[w].t
<1>1. ~IdleWorker(w)
  BY DEF ExecuteCall, Executable, Reaches, ContainerFinished, KeepPrivate, At
<1>2. /\ attempt[w] \in Attempt /\ t \in Targets /\ attempt[w].made \in 0 .. MaxObjects
      /\ attempt \in [Workers -> Attempt \cup {Idle}]
      /\ target[t].ext \in 0 .. MaxObjects /\ object \in [Targets -> [ObjectIds -> ObjectStates]]
  BY <1>1, AttemptType DEF Typed, TypeOK, TargetRow
<1>3. CASE ExecuteCall(w)
  <2>1. [attempt[w] EXCEPT !.pc = CallOf(t, attempt[w].kind), !.ext = target[t].ext] \in Attempt
    <3>1. CallOf(t, attempt[w].kind) \in {"upload", "container", "send", "ready"}
      BY <1>3 DEF ExecuteCall, CallOf
    <3> QED BY <1>2, <3>1 DEF Attempt
  <2>2. attempt' = [attempt EXCEPT ![w] = [attempt[w] EXCEPT !.pc = CallOf(t, attempt[w].kind), !.ext = target[t].ext]]
    BY <1>2, <1>3 DEF ExecuteCall
  <2>3. attempt' \in [Workers -> Attempt \cup {Idle}]
    BY <1>2, <2>1, <2>2
  <2> QED BY <1>3, <2>3 DEF ExecuteCall, Typed, TypeOK, rows, clock, ghosts, bounds
<1>4. CASE Reaches(w)
  <2>1. PICK id \in ObjectIds :
          /\ attempt' = [attempt EXCEPT ![w].made = id]
          /\ object' = [object EXCEPT ![t][id] =
               CASE attempt[w].pc = "upload" -> "scheduled"
                 [] attempt[w].pc = "container" -> "container"
                 [] attempt[w].pc = "publish" -> "public"
                 [] OTHER -> IF @ = "none" THEN "accepted" ELSE @]
    BY <1>4 DEF Reaches
  <2>2. object' \in [Targets -> [ObjectIds -> ObjectStates]]
    BY <1>2, <2>1 DEF ObjectStates
  <2>3. [attempt[w] EXCEPT !.made = id] \in Attempt
    BY <1>2 DEF Attempt, ObjectIds
  <2>4. attempt' \in [Workers -> Attempt \cup {Idle}]
    BY <1>2, <2>1, <2>3
  <2> QED BY <1>4, <2>2, <2>4 DEF Reaches, Typed, TypeOK, rows, clock, ghosts, bounds
<1>5. CASE ContainerFinished(w)
  <2>1. [attempt[w] EXCEPT !.pc = "publish"] \in Attempt
    BY <1>2 DEF Attempt
  <2>2. attempt' \in [Workers -> Attempt \cup {Idle}]
    BY <1>2, <1>5, <2>1 DEF ContainerFinished
  <2> QED BY <1>5, <2>2 DEF ContainerFinished, Typed, TypeOK, rows, clock, ghosts, bounds
<1>6. ASSUME NEW answered \in BOOLEAN, KeepPrivate(w, answered) PROVE Typed'
  <2>1. object' \in [Targets -> [ObjectIds -> ObjectStates]]
    BY <1>2, <1>6 DEF KeepPrivate, ObjectStates
  <2>2. unheld' \subseteq Targets \X (0 .. MaxObjects)
    BY <1>2, <1>6 DEF KeepPrivate, Typed, TypeOK
  <2>3. attempt' \in [Workers -> Attempt \cup {Idle}]
    BY <1>6, DoneTyped DEF KeepPrivate
  <2> QED BY <1>6, <2>1, <2>2, <2>3 DEF KeepPrivate, Typed, TypeOK, rows, clock, bounds
<1> QED BY <1>3, <1>4, <1>5, <1>6

LEMMA ClaimTyped ==
  ASSUME Typed, NEW w \in Workers, NEW t \in Targets, NEW kind \in Kinds, Claim(w, t, kind)
  PROVE  Typed'
<1> DEFINE new == [job[t][kind] EXCEPT !.status = "running", !.lockedBy = w]
           rows1 == [job[t] EXCEPT ![kind] = new]
           began == [pc |-> "claimed", t |-> t, kind |-> kind, ext |-> 0, fence |-> fence[t], made |-> 0]
<1>1. new \in SweptRow
  BY RowsOf DEF SweptRow, JobRow, JobStatus, Asked
<1>2. rows1 \in [Kinds -> SweptRow]
  <2> HIDE DEF new
  <2> QED BY <1>1, RowsOf
<1>3. job' = [job EXCEPT ![t] = rows1]
  BY DEF Claim, Typed, TypeOK, JobRow
<1>4. began \in Attempt
  BY VideoBoundsAssumption DEF Attempt, Typed, TypeOK
<1>5. attempt' \in [Workers -> Attempt \cup {Idle}]
  <2>1. attempt' = [attempt EXCEPT ![w] = began]
    BY DEF Claim
  <2> HIDE DEF began
  <2> QED BY <1>4, <2>1 DEF Typed, TypeOK
<1>6. /\ target' = target /\ draft' = draft
      /\ UNCHANGED <<route, fence, clock, object, recon, asking, holds, unheld, bounds>>
  BY DEF Claim, ghosts
<1>7. unheld' \subseteq Targets \X (0 .. MaxObjects) /\ target[t] \in TargetRow
  BY <1>6 DEF Typed, TypeOK
<1> HIDE DEF rows1
<1> QED BY <1>2, <1>3, <1>5, <1>6, <1>7, RowsTyped

LEMMA ContainersTyped ==
  ASSUME Typed, NEW w \in Workers, ~IdleWorker(w), NEW class,
         ContainerProcessing(w) \/ ContainerInvalid(w, class)
  PROVE  Typed'
<1> DEFINE t == attempt[w].t
           spent == Spent(job[t]["publish"], "queued")
           rows1 == [job[t] EXCEPT !["publish"] = spent]
           rows2 == [job[t] EXCEPT !["prepare"] = Requeued(job[t]["prepare"]), !["publish"] = spent]
           row1 == [target[t] EXCEPT !.status = "prepared"]
           row2 == [target[t] EXCEPT !.status = "scheduled", !.ext = 0]
<1>1. /\ t \in Targets /\ target[t] \in TargetRow /\ "publish" \in Kinds /\ "prepare" \in Kinds
      /\ job[t]["publish"] \in JobRow /\ job[t]["prepare"] \in JobRow /\ job[t] \in [Kinds -> SweptRow]
  <2>1. t \in Targets /\ "publish" \in Kinds /\ "prepare" \in Kinds
    BY AttemptType DEF Typed, Kinds
  <2> QED BY <2>1, RowsOf
<1>2. spent \in SweptRow /\ Requeued(job[t]["prepare"]) \in SweptRow
  BY <1>1, RowType DEF JobStatus
<1>3. rows1 \in [Kinds -> SweptRow] /\ rows2 \in [Kinds -> SweptRow]
  <2> HIDE DEF spent
  <2> QED BY <1>1, <1>2
<1>4. row1 \in TargetRow /\ row2 \in TargetRow
  <2>1. 0 \in 0 .. MaxObjects
    BY VideoBoundsAssumption
  <2> HIDE DEF t
  <2> QED BY <1>1, <2>1 DEF TargetRow, TargetStatus
<1>5. /\ attempt' \in [Workers -> Attempt \cup {Idle}]
      /\ draft' = draft \/ draft' = Refreshed(draft, target')
      /\ UNCHANGED <<route, fence, clock, object, recon, asking, holds, unheld, bounds>>
  BY DoneTyped DEF ContainerProcessing, ContainerInvalid, ghosts
<1>6. unheld' \subseteq Targets \X (0 .. MaxObjects)
  BY <1>5 DEF Typed, TypeOK
<1>7. \/ job' = [job EXCEPT ![t] = rows1] /\ target' = [target EXCEPT ![t] = row1]
      \/ job' = [job EXCEPT ![t] = rows2] /\ target' = [target EXCEPT ![t] = row2]
      \/ job' = job /\ target' = target
  BY <1>1 DEF ContainerProcessing, ContainerInvalid, Typed, TypeOK, TargetRow
<1> HIDE DEF rows1, rows2, row1, row2, t
<1> QED BY <1>1, <1>3, <1>4, <1>5, <1>6, <1>7, RowsTyped

LEMMA RecoverTyped ==
  ASSUME Typed, NEW t \in Targets, NEW kind \in Kinds, Recover(t, kind)
  PROVE  Typed'
<1> DEFINE doubt == MayHaveReachedAudience(kind, t)
           next == AfterFailure("unknown", job[t][kind].attempt)
           new == Spent(job[t][kind], IF doubt THEN "verification_required" ELSE next)
           rows1 == [job[t] EXCEPT ![kind] = new]
           row == [target[t] EXCEPT !.status = IF doubt THEN "verification_required"
                                               ELSE IF next = "queued" THEN "scheduled" ELSE "failed"]
<1>1. new \in SweptRow
  <2>1. next \in JobStatus /\ "verification_required" \in JobStatus
    BY FailureType DEF JobStatus
  <2> HIDE DEF next, doubt
  <2> QED BY <2>1, RowsOf, RowType
<1>2. rows1 \in [Kinds -> SweptRow]
  <2> HIDE DEF new
  <2> QED BY <1>1, RowsOf
<1>3. row \in TargetRow
  BY RowsOf DEF TargetRow, TargetStatus
<1>4. job' = [job EXCEPT ![t] = rows1] /\ target' = [target EXCEPT ![t] = row]
  BY DEF Recover, Typed, TypeOK
<1>5. /\ draft' = Refreshed(draft, target')
      /\ UNCHANGED <<route, fence, clock, object, attempt, recon, asking, holds, unheld, bounds>>
  BY DEF Recover, ghosts, actors
<1>6. unheld' \subseteq Targets \X (0 .. MaxObjects) /\ attempt' \in [Workers -> Attempt \cup {Idle}]
  BY <1>5 DEF Typed, TypeOK
<1> HIDE DEF rows1, row
<1> QED BY <1>2, <1>3, <1>4, <1>5, <1>6, RowsTyped

LEMMA SweepsTyped ==
  ASSUME Typed,
         \/ \E t \in Targets, kind \in Kinds : ReconClaim(t, kind)
         \/ ReconAnswers \/ ReconDefer \/ Prune
  PROVE  Typed'
<1>1. ASSUME NEW t \in Targets, NEW kind \in Kinds, ReconClaim(t, kind) PROVE Typed'
  <2> DEFINE new == [job[t][kind] EXCEPT !.lockedBy = "recon"]
             rows1 == [job[t] EXCEPT ![kind] = new]
  <2>1. new \in SweptRow
    BY <1>1, RowsOf DEF ReconClaim, InDoubt, SweptRow, JobRow, Asked
  <2>2. rows1 \in [Kinds -> SweptRow] /\ job' = [job EXCEPT ![t] = rows1]
    <3>1. job' = [job EXCEPT ![t] = rows1]
      BY <1>1 DEF ReconClaim, Typed, TypeOK, JobRow
    <3> HIDE DEF new
    <3> QED BY <2>1, <3>1, RowsOf
  <2>3. job' \in [Targets -> [Kinds -> SweptRow]] /\ job' \in [Targets -> [Kinds -> JobRow]]
    <3> HIDE DEF rows1
    <3> QED BY <2>2, WriteTyped, RowsOf
  <2>4. recon' \in Question \cup {Idle}
    BY <1>1, RowsOf DEF ReconClaim, Question, TargetRow, ObjectStates
  <2> QED BY <1>1, <2>3, <2>4 DEF ReconClaim, Typed, TypeOK, rows, clock, ghosts, bounds
<1>2. CASE ReconAnswers
  <2>1. recon \in Question /\ recon.t \in Targets /\ Subject \in ObjectIds
    BY <1>2 DEF ReconAnswers, Typed, TypeOK, Question, Subject, ObjectIds
  <2>2. object[recon.t][Subject] \in ObjectStates
    BY <2>1 DEF Typed, TypeOK
  <2>3. recon' \in Question \cup {Idle}
    BY <1>2, <2>1, <2>2 DEF ReconAnswers, Question
  <2> QED BY <1>2, <2>3 DEF ReconAnswers, Typed, TypeOK, rows, clock, ghosts, bounds
<1>3. CASE ReconDefer
  <2> DEFINE t == recon.t
             row == job[t][recon.kind]
             new == [row EXCEPT !.lockedBy = "none", !.reconcile = @ + 1]
             rows1 == [job[t] EXCEPT ![recon.kind] = new]
  <2>1. recon \in Question /\ t \in Targets /\ recon.kind \in Kinds
    BY <1>3 DEF ReconDefer, Typed, TypeOK, Question
  <2>2. row \in SweptRow /\ row \in JobRow
    BY <2>1, RowsOf
  <2>3. Asked(row) => new \in SweptRow
    <3>1. Asked(row) => row.reconcile + 1 \in 0 .. ReconcileMax
      BY <2>2, VideoBoundsAssumption DEF SweptRow, JobRow
    <3> HIDE DEF row
    <3> QED BY <2>2, <3>1 DEF SweptRow, JobRow, Asked
  <2>4. (Asked(row) /\ job' = [job EXCEPT ![t] = rows1]) \/ job' = job
    BY <1>3, <2>1 DEF ReconDefer, Typed, TypeOK, JobRow
  <2>5. Asked(row) => rows1 \in [Kinds -> SweptRow]
    <3> HIDE DEF new
    <3> QED BY <2>1, <2>3, RowsOf
  <2>6. job' \in [Targets -> [Kinds -> SweptRow]] /\ job' \in [Targets -> [Kinds -> JobRow]]
    <3>1. job \in [Targets -> [Kinds -> SweptRow]] /\ job \in [Targets -> [Kinds -> JobRow]]
          /\ target[t] \in TargetRow
      BY <2>1 DEF Typed, TypeOK
    <3> HIDE DEF rows1, row, t
    <3> QED BY <2>1, <2>4, <2>5, <3>1, WriteTyped
  <2> QED BY <1>3, <2>6 DEF ReconDefer, Typed, TypeOK, clock, ghosts, bounds
<1>4. CASE Prune
  BY <1>4 DEF Prune, Typed, TypeOK, DraftRow, DraftStatus, clock, actors, ghosts, bounds
<1> QED BY <1>1, <1>2, <1>3, <1>4

LEMMA ConfirmTyped ==
  ASSUME Typed, ReconConfirm
  PROVE  Typed'
<1> DEFINE t == recon.t
           rows1 == [k \in Kinds |-> IF Asked(job[t][k]) THEN Unlocked(job[t][k], "completed") ELSE job[t][k]]
           row == [target[t] EXCEPT !.status = IF recon.kind = "prepare" THEN "prepared" ELSE "published", !.ext = Subject]
<1>1. recon \in Question /\ t \in Targets /\ recon.kind \in Kinds /\ Subject \in 0 .. MaxObjects
  BY VideoBoundsAssumption DEF ReconConfirm, Typed, TypeOK, Question, Subject
<1>2. rows1 \in [Kinds -> SweptRow]
  <2> HIDE DEF t
  <2> QED BY <1>1, RowsOf, RowType DEF JobStatus
<1>3. row \in TargetRow
  <2> HIDE DEF t
  <2> QED BY <1>1, RowsOf DEF TargetRow, TargetStatus
<1>4. \/ job' = [job EXCEPT ![t] = rows1] /\ target' = [target EXCEPT ![t] = row]
      \/ job' = [job EXCEPT ![t] = rows1] /\ target' = target
      \/ job' = job /\ target' = target
  BY <1>1 DEF ReconConfirm, Typed, TypeOK, TargetRow
<1>5. job' \in [Targets -> [Kinds -> SweptRow]] /\ job' \in [Targets -> [Kinds -> JobRow]] /\ target' \in [Targets -> TargetRow]
  <2>1. job \in [Targets -> [Kinds -> SweptRow]] /\ job \in [Targets -> [Kinds -> JobRow]] /\ target \in [Targets -> TargetRow]
    BY DEF Typed, TypeOK
  <2> HIDE DEF rows1, row, t
  <2> QED BY <1>1, <1>2, <1>3, <1>4, <2>1, WriteTyped
<1>6. draft' \in DraftRow
  <2>1. draft' = draft \/ draft' = Refreshed(draft, target')
    BY DEF ReconConfirm
  <2>2. draft \in DraftRow
    BY DEF Typed, TypeOK
  <2> QED BY <2>1, <2>2, RefreshedType
<1>7. UNCHANGED <<route, fence, due, past, soon, object, attempt, asking, holds, unheld, ops, crashes>> /\ recon' = Idle
  BY DEF ReconConfirm, clock, ghosts, bounds
<1> HIDE DEF rows1, row, t
<1> QED BY <1>5, <1>6, <1>7 DEF Typed, TypeOK

LEMMA PlatformTyped ==
  ASSUME Typed,
         \/ \E t \in Targets, k \in ObjectIds : GoesPublic(t, k) \/ RefusedByPlatform(t, k)
         \/ \E t \in Targets : TimePasses(t) \/ RetryDue(t)
         \/ AskAnswers \/ AnswerDropped
         \/ \E t \in Targets : AskBeforeRetry(t) \/ Settle(t)
         \/ \E t \in Targets, k \in ObjectIds, answered \in BOOLEAN : Hold(t, k, answered)
         \/ Crash
  PROVE  Typed'
<1>1. ASSUME NEW t \in Targets, NEW k \in ObjectIds, GoesPublic(t, k) \/ RefusedByPlatform(t, k) PROVE Typed'
  <2>1. object' \in [Targets -> [ObjectIds -> ObjectStates]]
    <3>1. PICK v \in {"public", "refused"} : object' = [object EXCEPT ![t][k] = v]
      BY <1>1 DEF GoesPublic, RefusedByPlatform
    <3>2. v \in ObjectStates /\ object \in [Targets -> [ObjectIds -> ObjectStates]]
      BY DEF Typed, TypeOK, ObjectStates
    <3> QED BY <3>1, <3>2
  <2>2. UNCHANGED <<route, draft, target, job, fence, due, past, soon, attempt, recon, asking, holds, unheld, ops, crashes>>
    BY <1>1 DEF GoesPublic, RefusedByPlatform, rows, clock, actors, ghosts, bounds
  <2> QED BY <2>1, <2>2 DEF Typed, TypeOK
<1>2. ASSUME NEW t \in Targets, TimePasses(t) \/ RetryDue(t) PROVE Typed'
  BY <1>2 DEF TimePasses, RetryDue, Typed, TypeOK, rows, actors, ghosts, bounds
<1>3. CASE AskAnswers
  <2> DEFINE t == asking.t
             k == IF asking.prov # 0 THEN asking.prov ELSE asking.fence
  <2>1. asking \in Command /\ t \in Targets /\ k \in ObjectIds
    BY <1>3 DEF AskAnswers, Typed, TypeOK, Command, ObjectIds
  <2>2. object' = [object EXCEPT ![t][k] = IF @ = "none" THEN "accepted" ELSE @] /\ asking' = [asking EXCEPT !.seen = object'[t][k]]
    BY <1>3 DEF AskAnswers
  <2> HIDE DEF k, t
  <2>3. object' \in [Targets -> [ObjectIds -> ObjectStates]]
    BY <2>1, <2>2 DEF Typed, TypeOK, ObjectStates
  <2>4. asking' \in Command
    BY <2>1, <2>2, <2>3 DEF Command
  <2>5. asking'.prov = asking.prov /\ asking'.fence = asking.fence /\ asking # Idle
    BY <1>3, <2>1, <2>2 DEF AskAnswers, Command
  <2> QED BY <1>3, <2>3, <2>4, <2>5 DEF AskAnswers, Typed, TypeOK, rows, clock, ghosts, bounds
<1>4. CASE AnswerDropped
  BY <1>4 DEF AnswerDropped, Typed, TypeOK, rows, clock, ghosts, bounds
<1>5. ASSUME NEW t \in Targets, AskBeforeRetry(t) \/ Settle(t) PROVE Typed'
  <2>1. PICK op \in {"retry", "settle"} : Ask(op, t)
    BY <1>5 DEF AskBeforeRetry, Settle
  <2>2. target[t] \in TargetRow /\ fence[t] \in 0 .. MaxObjects
    BY DEF Typed, TypeOK
  <2>3. asking' \in Command
    BY <2>1, <2>2 DEF Ask, Command, TargetRow, ObjectStates
  <2>4. asking'.prov # 0 \/ asking'.fence # 0
    <3>1. target[t].prov # 0 \/ fence[t] # 0
      BY <1>5, <2>2 DEF AskBeforeRetry, Settle, Askable
    <3> QED BY <2>1, <3>1 DEF Ask
  <2>5. ops' \in 0 .. MaxOps /\ ops < MaxOps
    BY <1>5, VideoBoundsAssumption DEF AskBeforeRetry, Settle, Issued, Typed, TypeOK
  <2>6. UNCHANGED <<route, draft, target, job, fence, due, past, soon, object, attempt, recon, holds, unheld, crashes>>
    BY <1>5 DEF AskBeforeRetry, Settle, rows, clock, ghosts
  <2> QED BY <2>3, <2>4, <2>5, <2>6 DEF Typed, TypeOK
<1>6. ASSUME NEW t \in Targets, NEW k \in ObjectIds, NEW answered \in BOOLEAN, Hold(t, k, answered)
      PROVE  Typed'
  <2>1. object' \in [Targets -> [ObjectIds -> ObjectStates]]
    BY <1>6 DEF Hold, Typed, TypeOK, ObjectStates
  <2>2. unheld' \subseteq Targets \X (0 .. MaxObjects) /\ holds' \subseteq Targets \X ObjectIds
    BY <1>6, VideoBoundsAssumption DEF Hold, Typed, TypeOK, ObjectIds
  <2> QED BY <1>6, <2>1, <2>2 DEF Hold, Typed, TypeOK, rows, clock, bounds
<1>7. CASE Crash
  <2>1. unheld' \subseteq Targets \X (0 .. MaxObjects)
    <3>1. \A w \in Workers : At(w, {"upload", "hold"}) => <<attempt[w].t, attempt[w].made>> \in Targets \X (0 .. MaxObjects)
      BY AttemptType DEF At, Typed
    <3>2. holds \subseteq Targets \X (0 .. MaxObjects) /\ unheld \subseteq Targets \X (0 .. MaxObjects)
      BY VideoBoundsAssumption DEF Typed, TypeOK, ObjectIds
    <3> QED BY <1>7, <3>1, <3>2 DEF Crash
  <2>2. attempt' \in [Workers -> Attempt \cup {Idle}] /\ crashes' \in 0 .. MaxCrashes
    BY <1>7, VideoBoundsAssumption DEF Crash, Typed, TypeOK
  <2> QED BY <1>7, <2>1, <2>2 DEF Crash, Typed, TypeOK, rows, clock
<1> QED BY <1>1, <1>2, <1>3, <1>4, <1>5, <1>6, <1>7

LEMMA OpsType == ASSUME Typed, NEW op, Issued(op) PROVE ops' \in 0 .. MaxOps
  BY VideoBoundsAssumption DEF Issued, Typed, TypeOK

\* Arming jobs and the fences of a set of targets.
LEMMA ArmTyped ==
  ASSUME Typed, NEW ts \in SUBSET Targets, NEW kinds \in SUBSET Kinds, NEW early \in BOOLEAN, Arm(ts, kinds, early)
  PROVE  /\ job' \in [Targets -> [Kinds -> SweptRow]] /\ job' \in [Targets -> [Kinds -> JobRow]]
         /\ fence' \in [Targets -> 0 .. MaxObjects] /\ due' \in [Targets -> BOOLEAN] /\ soon' \in [Targets -> BOOLEAN]
<1>1. job' = [t \in Targets |-> [k \in Kinds |-> IF t \in ts /\ k \in kinds THEN Requeued(job[t][k]) ELSE job[t][k]]]
  BY DEF Arm
<1>2. \A t \in Targets, k \in Kinds : Requeued(job[t][k]) \in SweptRow
  BY RowsOf, RowType DEF JobStatus
<1>3. job' \in [Targets -> [Kinds -> SweptRow]]
  BY <1>1, <1>2, RowsOf
<1>4. job' \in [Targets -> [Kinds -> JobRow]]
  BY <1>3 DEF SweptRow
<1>5. fence' \in [Targets -> 0 .. MaxObjects]
  <2>1. \A t \in Targets : fence[t] \in 0 .. MaxObjects /\ (t \in ts => fence[t] < MaxObjects)
    BY DEF Arm, Typed, TypeOK
  <2>2. \A t \in Targets : (IF t \in ts THEN fence[t] + 1 ELSE fence[t]) \in 0 .. MaxObjects
    BY <2>1, VideoBoundsAssumption
  <2> QED BY <2>2 DEF Arm
<1>6. due' \in [Targets -> BOOLEAN] /\ soon' \in [Targets -> BOOLEAN]
  BY DEF Arm, Typed, TypeOK
<1> QED BY <1>3, <1>4, <1>5, <1>6

LEMMA RetryWriteTyped ==
  ASSUME Typed, NEW t \in Targets, NEW tg \in TargetRow, RetryWrite(t, tg)
  PROVE  /\ job' \in [Targets -> [Kinds -> SweptRow]] /\ job' \in [Targets -> [Kinds -> JobRow]]
         /\ fence' \in [Targets -> 0 .. MaxObjects] /\ due' \in [Targets -> BOOLEAN] /\ soon' \in [Targets -> BOOLEAN]
         /\ target' \in [Targets -> TargetRow] /\ draft' \in DraftRow
<1>1. PICK kinds \in SUBSET Kinds : Arm({t}, kinds, TRUE)
  BY DEF RetryWrite, Kinds
<1>2. target' \in [Targets -> TargetRow]
  <2>1. 0 \in 0 .. MaxObjects
    BY VideoBoundsAssumption
  <2>2. [tg EXCEPT !.status = "prepared"] \in TargetRow /\ [tg EXCEPT !.status = "scheduled", !.ext = 0] \in TargetRow
    BY <2>1 DEF TargetRow, TargetStatus
  <2> QED BY <2>2 DEF RetryWrite, Typed, TypeOK
<1>3. draft' \in DraftRow
  BY DEF RetryWrite, Typed, TypeOK, DraftRow, DraftStatus
<1> QED BY <1>1, <1>2, <1>3, ArmTyped

LEMMA AnswersTyped ==
  ASSUME Typed, AnswerRecorded
  PROVE  Typed'
<1> DEFINE t == asking.t
           k == IF asking.prov # 0 THEN asking.prov ELSE asking.fence
           row == Recorded(k, asking.seen, asking.prov # 0)
<1>1. asking \in Command /\ t \in Targets /\ k \in 0 .. MaxObjects
  BY DEF AnswerRecorded, Typed, TypeOK, Command
<1>2. row \in TargetRow
  <2> HIDE DEF k
  <2> QED BY <1>1, VideoBoundsAssumption DEF Recorded, TargetRow, TargetStatus
<1>3. UNCHANGED <<route, past, object, attempt, recon, holds, unheld, ops, crashes>> /\ asking' = Idle
  BY DEF AnswerRecorded, ghosts, bounds
<1>4. RetryWrite(t, row) \/ (target' = [target EXCEPT ![t] = row] /\ draft' = Refreshed(draft, target') /\ UNCHANGED <<job, fence, due, soon>>)
  BY DEF AnswerRecorded
<1>5. /\ job' \in [Targets -> [Kinds -> SweptRow]] /\ job' \in [Targets -> [Kinds -> JobRow]]
      /\ fence' \in [Targets -> 0 .. MaxObjects] /\ due' \in [Targets -> BOOLEAN] /\ soon' \in [Targets -> BOOLEAN]
      /\ target' \in [Targets -> TargetRow] /\ draft' \in DraftRow
  <2> HIDE DEF row, t
  <2>1. CASE RetryWrite(t, row)
    BY <1>1, <1>2, <2>1, RetryWriteTyped
  <2>2. CASE target' = [target EXCEPT ![t] = row] /\ draft' = Refreshed(draft, target') /\ UNCHANGED <<job, fence, due, soon>>
    BY <1>1, <1>2, <2>2, RefreshedType DEF Typed, TypeOK
  <2> QED BY <1>4, <2>1, <2>2
<1> HIDE DEF row, t, k
<1> QED BY <1>3, <1>5 DEF Typed, TypeOK

LEMMA OperatorsTyped ==
  ASSUME Typed,
         \/ \E chosen \in SUBSET Targets : ChooseTargets(chosen) \/ Schedule(chosen)
         \/ \E t \in Targets : Remove(t) \/ Retry(t)
         \/ \E t \in Targets, k \in ObjectIds : SettleKnown(t, k)
         \/ Cancel
  PROVE  Typed'
<1>0. NoTarget \in TargetRow /\ [NoTarget EXCEPT !.status = "editing"] \in TargetRow /\ NoRow \in SweptRow /\ NoRow \in JobRow
  <2>1. 0 \in 0 .. MaxObjects /\ 0 \in 0 .. AttemptCap /\ 0 \in 0 .. ReconcileMax
    BY VideoBoundsAssumption DEF AttemptCap
  <2> QED BY <2>1 DEF NoTarget, TargetRow, TargetStatus, NoRow, JobRow, JobStatus, SweptRow, Asked
<1>1. ASSUME NEW chosen \in SUBSET Targets, ChooseTargets(chosen) PROVE Typed'
  <2>1. ops' \in 0 .. MaxOps
    BY <1>1, OpsType DEF ChooseTargets
  <2>2. target' \in [Targets -> TargetRow] /\ job' \in [Targets -> [Kinds -> SweptRow]] /\ job' \in [Targets -> [Kinds -> JobRow]]
    BY <1>0, <1>1 DEF ChooseTargets
  <2>3. draft' \in DraftRow
    BY <1>1 DEF ChooseTargets, Typed, TypeOK, DraftRow, DraftStatus
  <2> QED BY <1>1, <2>1, <2>2, <2>3 DEF ChooseTargets, Typed, TypeOK, clock, actors, ghosts
<1>2. ASSUME NEW chosen \in SUBSET Targets, Schedule(chosen) PROVE Typed'
  <2>1. ops' \in 0 .. MaxOps /\ Arm(chosen, Kinds, FALSE)
    BY <1>2, OpsType DEF Schedule
  <2>2. target' \in [Targets -> TargetRow]
    <3>1. \A t \in Targets : target[t] \in TargetRow /\ [target[t] EXCEPT !.status = "scheduled"] \in TargetRow
      BY DEF Typed, TypeOK, TargetRow, TargetStatus
    <3> QED BY <1>2, <3>1 DEF Schedule
  <2>3. draft' \in DraftRow /\ past' \in [Targets -> BOOLEAN]
    BY <1>2 DEF Schedule, Typed, TypeOK, DraftRow, DraftStatus
  <2>4. /\ job' \in [Targets -> [Kinds -> SweptRow]] /\ job' \in [Targets -> [Kinds -> JobRow]]
        /\ fence' \in [Targets -> 0 .. MaxObjects] /\ due' \in [Targets -> BOOLEAN] /\ soon' \in [Targets -> BOOLEAN]
    BY <2>1, ArmTyped
  <2>5. UNCHANGED <<route, object, attempt, recon, asking, holds, unheld, crashes>>
    BY <1>2 DEF Schedule, actors, ghosts
  <2> QED BY <2>1, <2>2, <2>3, <2>4, <2>5 DEF Typed, TypeOK
<1>3. ASSUME NEW t \in Targets, Remove(t) PROVE Typed'
  <2>1. ops' \in 0 .. MaxOps
    BY <1>3, OpsType DEF Remove
  <2>2. target' \in [Targets -> TargetRow] /\ job' \in [Targets -> [Kinds -> SweptRow]] /\ job' \in [Targets -> [Kinds -> JobRow]]
    BY <1>0, <1>3 DEF Remove, Typed, TypeOK
  <2>3. draft' \in DraftRow
    <3>1. draft \in DraftRow
      BY DEF Typed, TypeOK
    <3>2. [draft EXCEPT !.status = "cancelled", !.retention = TRUE] \in DraftRow
      BY <3>1 DEF DraftRow, DraftStatus
    <3> QED BY <1>3, <3>1, <3>2, RefreshedType DEF Remove
  <2> QED BY <1>3, <2>1, <2>2, <2>3 DEF Remove, Typed, TypeOK, clock, actors, ghosts
<1>4. ASSUME NEW t \in Targets, Retry(t) PROVE Typed'
  <2>1. ops' \in 0 .. MaxOps /\ RetryWrite(t, target[t])
    BY <1>4, OpsType DEF Retry
  <2>2. UNCHANGED <<route, past, object, attempt, recon, asking, holds, unheld, crashes>>
    BY <1>4 DEF Retry, actors, ghosts
  <2>3. target[t] \in TargetRow
    BY DEF Typed, TypeOK
  <2>4. /\ job' \in [Targets -> [Kinds -> SweptRow]] /\ job' \in [Targets -> [Kinds -> JobRow]]
        /\ fence' \in [Targets -> 0 .. MaxObjects] /\ due' \in [Targets -> BOOLEAN] /\ soon' \in [Targets -> BOOLEAN]
        /\ target' \in [Targets -> TargetRow] /\ draft' \in DraftRow
    BY <2>1, <2>3, RetryWriteTyped
  <2> QED BY <2>1, <2>2, <2>4 DEF Typed, TypeOK
<1>5. ASSUME NEW t \in Targets, NEW k \in ObjectIds, SettleKnown(t, k) PROVE Typed'
  <2>1. ops' \in 0 .. MaxOps
    BY <1>5, OpsType DEF SettleKnown
  <2>2. target' \in [Targets -> TargetRow]
    <3>1. [status |-> "published", ext |-> k, prov |-> target[t].prov] \in TargetRow
      <4>1. target[t].prov \in 0 .. MaxObjects /\ k \in 0 .. MaxObjects
        BY VideoBoundsAssumption DEF Typed, TypeOK, TargetRow, ObjectIds
      <4> QED BY <4>1 DEF TargetRow, TargetStatus
    <3> QED BY <1>5, <3>1 DEF SettleKnown, Typed, TypeOK
  <2>3. draft' \in DraftRow
    <3>1. draft' = Refreshed(draft, target') /\ draft \in DraftRow
      BY <1>5 DEF SettleKnown, Typed, TypeOK
    <3> QED BY <3>1, RefreshedType
  <2> QED BY <1>5, <2>1, <2>2, <2>3 DEF SettleKnown, Typed, TypeOK, clock, actors, ghosts
<1>6. CASE Cancel
  <2>1. ops' \in 0 .. MaxOps
    BY <1>6, OpsType DEF Cancel
  <2>2. job' \in [Targets -> [Kinds -> SweptRow]]
    BY <1>6, RowsOf, RowType DEF Cancel, JobStatus
  <2>3. job' \in [Targets -> [Kinds -> JobRow]]
    BY <2>2 DEF SweptRow
  <2>4. target' \in [Targets -> TargetRow]
    <3>1. \A t \in Targets : target[t] \in TargetRow /\ [target[t] EXCEPT !.status = "cancelled"] \in TargetRow
      BY DEF Typed, TypeOK, TargetRow, TargetStatus
    <3> QED BY <1>6, <3>1 DEF Cancel
  <2>5. holds' \subseteq Targets \X ObjectIds
    <3>1. \A t \in Targets : target[t].ext # 0 => target[t].ext \in ObjectIds
      BY VideoBoundsAssumption DEF Typed, TypeOK, TargetRow, ObjectIds
    <3> QED BY <1>6, <3>1 DEF Cancel
  <2>6. draft' \in DraftRow
    BY <1>6 DEF Cancel, Typed, TypeOK, DraftRow, DraftStatus
  <2> QED BY <1>6, <2>1, <2>2, <2>3, <2>4, <2>5, <2>6 DEF Cancel, Typed, TypeOK, clock, ghosts
<1> QED BY <1>1, <1>2, <1>3, <1>4, <1>5, <1>6

LEMMA InitTyped == Init => Typed
<1> SUFFICES ASSUME Init PROVE Typed
  OBVIOUS
<1>1. /\ 0 \in 0 .. MaxObjects /\ 0 \in 0 .. AttemptCap /\ 0 \in 0 .. ReconcileMax /\ 0 \in 0 .. MaxOps
      /\ 0 \in 0 .. MaxCrashes
  BY VideoBoundsAssumption DEF AttemptCap
<1>2. [NoTarget EXCEPT !.status = "editing"] \in TargetRow /\ NoRow \in SweptRow /\ NoRow \in JobRow
  BY <1>1 DEF NoTarget, TargetRow, TargetStatus, NoRow, JobRow, JobStatus, SweptRow, Asked
<1>3. route \in [Targets -> AllRoutes]
  BY VideoChoicesAssumption DEF Init
<1> QED BY <1>1, <1>2, <1>3 DEF Init, Typed, TypeOK, DraftRow, DraftStatus, ObjectStates

LEMMA NextTyped == Typed /\ [Next]_vars => Typed'
<1> SUFFICES ASSUME Typed, [Next]_vars PROVE Typed'
  OBVIOUS
<1>1. ASSUME NEW w \in Workers, Working(w) PROVE Typed'
  <2>1. ASSUME NEW t \in Targets, NEW kind \in Kinds, Claim(w, t, kind) PROVE Typed'
    BY <2>1, ClaimTyped
  <2>2. CASE ~IdleWorker(w)
    <3>1. ASSUME NEW class \in ErrorClasses, Refused(w, class) \/ Unread(w, class) \/ ContainerInvalid(w, class) PROVE Typed'
      BY <2>2, <3>1, FailuresTyped, ContainersTyped
    <3> QED BY <1>1, <2>1, <2>2, <3>1, CompletionsTyped, FailuresTyped, MovesTyped, ContainersTyped
               DEF Working, ErrorClasses
  <2>3. CASE IdleWorker(w)
    <3>1. \E t \in Targets, kind \in Kinds : Claim(w, t, kind)
      BY <1>1, <2>3 DEF Working, ExecuteNothing, ExecuteUnready, ExecuteCheckpoint, ExecuteYouTubePublish,
         ExecuteCall, Executable, Uploaded, ContainerCreated, ContainerFinished, ContainerProcessing,
         ReelPublished, ProviderAnswered, Lost, Refused, Unread, ContainerInvalid, KeepPrivate, At
    <3> QED BY <2>1, <3>1
  <2> QED BY <2>2, <2>3
<1>2. CASE Sweeping
  BY <1>2, RecoverTyped, SweepsTyped, ConfirmTyped DEF Sweeping
<1>3. CASE Platform
  BY <1>3, MovesTyped, PlatformTyped, SweepsTyped DEF Platform
<1>4. CASE Operating
  BY <1>4, OperatorsTyped, PlatformTyped, AnswersTyped DEF Operating
<1>5. CASE Crash
  BY <1>5, PlatformTyped
<1>6. CASE UNCHANGED vars
  BY <1>6 DEF vars, rows, clock, actors, ghosts, bounds, Typed, TypeOK
<1> QED BY <1>1, <1>2, <1>3, <1>4, <1>5, <1>6 DEF Next

\* Every column and record of the video half holds what its type says, whatever
\* the order of workers, sweeps, platforms and commands.
THEOREM VideoTypes == Spec => []TypeOK
<1>1. Typed => TypeOK
  BY DEF Typed
<1> QED BY <1>1, InitTyped, NextTyped, PTL DEF Spec

-----------------------------------------------------------------------------
(* The rows, the attempts and the questions agree: the invariant *)

InOrder == "unprepared" \notin Faults
Readable == "unread_answer" \notin Faults

Status(t) == target[t].status
Frozen(t) == Status(t) \in {"verification_required", "cancelled"}
Open(t) == Status(t) \in {"scheduled", "prepared"}
On(w, t, kind) == ~IdleWorker(w) /\ attempt[w].t = t /\ attempt[w].kind = kind
Owns(w, t, kind) == job[t][kind].status = "running" /\ job[t][kind].lockedBy = w
\* Steps only one attempt at a time makes, because what a lost one did is in doubt.
Solo(t, kind) == \/ route[t] = "youtube" /\ kind = "prepare"
                 \/ route[t] = "native" /\ kind = "publish"

\* What a target's status says of its two jobs, and they of each other.
FlowOf(rt, status, ext, prov, pre, pub, fenceOf, dueOf, pastOf) ==
  /\ status \in {"absent", "editing"} => fenceOf = 0
  /\ fenceOf = 0 => status \in {"absent", "editing", "cancelled"} /\ pre = "no_row" /\ pub = "no_row"
                    /\ ext = 0 /\ prov = 0
  /\ pre \in {"queued", "running"} => status = "scheduled" /\ pub = "queued"
  /\ pub = "running" => status \in {"scheduled", "prepared"} /\ pre = "completed" /\ pastOf
  /\ pub = "queued" /\ pre = "completed" => status \in {"scheduled", "prepared"}
  /\ pre = "verification_required" =>
       /\ rt = "youtube" /\ status \in {"verification_required", "cancelled"} /\ ext = 0
       /\ pub # "verification_required"
       /\ status = "verification_required" => pub = "queued"
  /\ status = "prepared" => pub \in {"queued", "running"}
  /\ dueOf => pastOf
  /\ status = "published" => ext # 0
  /\ rt = "youtube" /\ ext # 0 => status \in {"prepared", "published", "verification_required", "cancelled"}
Flow(t) == FlowOf(route[t], target[t].status, target[t].ext, target[t].prov,
                  job[t]["prepare"].status, job[t]["publish"].status, fence[t], due[t], past[t] \/ soon[t])

\* What an attempt is for, and what it means that its lock is gone.
AttemptOf(w, t) ==
  ~IdleWorker(w) /\ attempt[w].t = t =>
    LET a == attempt[w] IN
    /\ Status(t) \notin {"absent", "editing"}
    /\ a.fence # 0 /\ a.fence <= fence[t]
    /\ Owns(w, t, a.kind) => a.fence = fence[t]
    /\ a.pc \in {"upload", "hold"} => a.kind = "prepare" /\ route[t] = "youtube"
    /\ a.pc = "container" => a.kind = "prepare" /\ route[t] = "native"
    /\ a.pc = "send" => a.kind = "publish" /\ route[t] = "zernio"
    /\ a.pc \in {"ready", "publish"} => a.kind = "publish" /\ route[t] = "native"
    /\ a.pc \in {"claimed", "ready"} => a.made = 0
    /\ a.pc = "hold" => a.made # 0 /\ Frozen(t)
    /\ Solo(t, a.kind) /\ ~Owns(w, t, a.kind) => Frozen(t)
    /\ a.kind = "prepare" /\ route[t] = "youtube" => target[t].ext = 0
    /\ a.pc = "upload" /\ Owns(w, t, a.kind) => ~draft.pruned

Line(t) ==
  /\ Flow(t)
  /\ \A w \in Workers : AttemptOf(w, t)
  /\ \A w, v \in Workers, kind \in Kinds : On(w, t, kind) /\ On(v, t, kind) /\ Solo(t, kind) => w = v

DraftInv ==
  /\ \A t \in Targets : Open(t) => draft.status = "scheduled"
  /\ draft.pruned => \A t \in Targets : route[t] = "youtube" => Status(t) # "prepared"
ReconFacts ==
  recon # Idle =>
    /\ recon.kind = "prepare" => route[recon.t] = "youtube"
    /\ recon.seen # "none" => Subject # 0
    /\ route[recon.t] = "youtube" =>
         /\ Frozen(recon.t) /\ recon.ext = target[recon.t].ext
         /\ job[recon.t][recon.kind].status = "verification_required"
AskFacts ==
  asking # Idle => route[asking.t] = "zernio" /\ asking.status \in {"failed", "verification_required", "published"}
QuestionInv == ReconFacts /\ AskFacts
RowsInv == Typed /\ (\A t \in Targets : Line(t)) /\ DraftInv /\ QuestionInv /\ SourceKept

-----------------------------------------------------------------------------
(* What steps do to the rows *)

\* Nothing that a target's rows and attempts depend on has changed, except that
\* an attempt may be over.
SameRows(t) ==
  /\ route'[t] = route[t] /\ target'[t] = target[t] /\ job'[t] = job[t] /\ fence'[t] = fence[t]
  /\ due'[t] = due[t] /\ past'[t] = past[t] /\ soon'[t] = soon[t]
SameLine(t) ==
  /\ SameRows(t) /\ draft'.pruned = draft.pruned
  /\ \A v \in Workers : ~IdleWorker(v)' /\ attempt'[v].t = t => attempt'[v] = attempt[v]

LEMMA SameLineKept == ASSUME NEW t \in Targets, Line(t), SameLine(t) PROVE Line(t)'
<1>1. Flow(t)'
  BY DEF Line, Flow, SameLine, SameRows
<1>2. ASSUME NEW w \in Workers PROVE AttemptOf(w, t)'
  <2>1. AttemptOf(w, t)
    BY DEF Line
  <2> QED BY <2>1 DEF AttemptOf, SameLine, SameRows, IdleWorker, Owns, Status, Frozen, Solo
<1>3. ASSUME NEW w \in Workers, NEW v \in Workers, NEW kind \in Kinds,
             On(w, t, kind)', On(v, t, kind)', Solo(t, kind)'
      PROVE  w = v
  <2>1. On(w, t, kind) /\ On(v, t, kind) /\ Solo(t, kind)
    BY <1>3 DEF On, SameLine, SameRows, IdleWorker, Solo
  <2> QED BY <2>1 DEF Line
<1> QED BY <1>1, <1>2, <1>3 DEF Line

Other(kind) == IF kind = "prepare" THEN "publish" ELSE "prepare"

\* An attempt is over.
Ending(w, t, kind) ==
  /\ On(w, t, kind) /\ Done(w)
  /\ UNCHANGED <<route, fence, due, past, soon, recon, asking, holds>>
  /\ unheld \subseteq unheld'
\* An attempt whose lock is gone changes no row.
Dropped(w, t, kind) ==
  /\ Ending(w, t, kind) /\ ~Owns(w, t, kind) /\ UNCHANGED <<draft, target, job>>
  /\ attempt[w].pc = "upload" /\ attempt[w].made # 0 => <<t, attempt[w].made>> \in unheld'
\* Its two jobs get the statuses mine and other, and nobody else's lock moves.
Wrote(w, t, kind, mine, other) ==
  /\ \A u \in Targets : u # t => job'[u] = job[u]
  /\ job'[t][kind].status = mine /\ job'[t][Other(kind)].status = other
  /\ \A v \in Workers, k \in Kinds : v # w => (Owns(v, t, k)' <=> Owns(v, t, k))
  /\ mine # "running"
\* An attempt that still holds it writes its target's row and its two jobs.
Settled(w, t, kind, row, mine, other) ==
  /\ Ending(w, t, kind) /\ Owns(w, t, kind) /\ UNCHANGED object
  /\ row \in TargetRow /\ target' = [target EXCEPT ![t] = row]
  /\ Wrote(w, t, kind, mine, other)
  /\ (draft' = draft) \/ (draft' = Refreshed(draft, target'))

Same(t, kind) == job[t][Other(kind)].status
\* The job is done: a checkpoint, an object made, an upload whose time has come
\* or a Reel that is out.
Prepared(w, t, kind, row, mine, other) ==
  /\ kind = "prepare" /\ mine = "completed" /\ other = Same(t, kind)
  /\ row.status = "prepared" /\ row.prov = target[t].prov
  /\ \/ route[t] = "zernio" /\ row.ext = target[t].ext /\ attempt[w].made = 0
     \/ /\ route[t] # "zernio" /\ row.ext = attempt[w].made /\ attempt[w].made # 0
        /\ attempt[w].pc \in {"upload", "container"}
Published(w, t, kind, row, mine, other) ==
  /\ kind = "publish" /\ mine = "completed" /\ other = Same(t, kind)
  /\ row.status = "published" /\ draft' = Refreshed(draft, target')
  /\ \/ route[t] = "youtube" /\ target[t].ext # 0 /\ row.ext = target[t].ext /\ row.prov = target[t].prov
     \/ /\ route[t] = "native" /\ attempt[w].made # 0 /\ attempt[w].pc = "publish"
        /\ row.ext = attempt[w].made /\ row.prov = target[t].prov
     \/ /\ route[t] = "zernio" /\ attempt[w].made # 0 /\ attempt[w].pc = "send"
        /\ row.ext = attempt[w].made /\ row.prov = attempt[w].made /\ object[t][attempt[w].made] = "public"
\* Nobody knows whether the call reached anyone.
Doubted(w, t, kind, row, mine, other) ==
  /\ Solo(t, kind) \/ (kind = "publish" /\ route[t] = "zernio")
  /\ mine = "verification_required" /\ other = Same(t, kind)
  /\ row.status = "verification_required" /\ row.ext = target[t].ext
  /\ draft' = Refreshed(draft, target')
  /\ attempt[w].pc = "upload" => <<t, attempt[w].made>> \in unheld'
  /\ \/ row.prov = target[t].prov /\ (NamesOlderPost(t, kind) => "older_post" \in Faults)
     \/ route[t] = "zernio" /\ row.prov = attempt[w].made /\ attempt[w].made # 0
\* It did not, and is tried again or given up.
Failed(w, t, kind, row, mine, other) ==
  /\ row.ext = target[t].ext /\ row.prov = target[t].prov
  /\ \/ mine = "queued" /\ row.status = "scheduled" /\ other = Same(t, kind)
     \/ /\ mine = "failed" /\ row.status = "failed"
        /\ other = IF kind = "prepare" /\ Same(t, kind) = "queued" THEN "cancelled" ELSE Same(t, kind)
  /\ draft' = Refreshed(draft, target')
  /\ attempt[w].made # 0 => attempt[w].pc = "container" \/ ~Readable
  /\ attempt[w].made # 0 /\ attempt[w].pc = "upload" => <<t, attempt[w].made>> \in unheld'
  /\ route[t] = "youtube" /\ kind = "publish" => draft.pruned \/ target[t].ext = 0
\* Instagram still works on the container, or threw it away.
Processing(w, t, kind, row, mine, other) ==
  /\ kind = "publish" /\ route[t] = "native" /\ mine = "queued" /\ attempt[w].made = 0
  /\ row.prov = target[t].prov
  /\ \/ other = Same(t, kind) /\ row.status = "prepared" /\ row.ext = target[t].ext
     \/ other = "queued" /\ row.status = "scheduled" /\ row.ext = 0
Outcome(w, t, kind, row, mine, other) ==
  \/ Prepared(w, t, kind, row, mine, other) \/ Published(w, t, kind, row, mine, other)
  \/ Doubted(w, t, kind, row, mine, other) \/ Failed(w, t, kind, row, mine, other)
  \/ Processing(w, t, kind, row, mine, other)
Ends(w, t, kind) ==
  \/ Dropped(w, t, kind)
  \/ \E row \in TargetRow, mine, other \in JobStatus :
       Settled(w, t, kind, row, mine, other) /\ Outcome(w, t, kind, row, mine, other)

-----------------------------------------------------------------------------
(* The worker's steps in those terms *)

LEMMA JobsWritten ==
  ASSUME Typed, NEW w \in Workers, NEW t \in Targets, NEW kind \in Kinds, Owns(w, t, kind),
         NEW jobs \in [Kinds -> SweptRow], job' = [job EXCEPT ![t] = jobs],
         jobs[kind].lockedBy = "none", jobs[kind].status # "running",
         LET o == Other(kind) IN
           jobs[o] = job[t][o] \/ (job[t][o].status # "running" /\ jobs[o].status # "running")
  PROVE  Wrote(w, t, kind, jobs[kind].status, jobs[Other(kind)].status)
<1>1. job'[t] = jobs /\ \A u \in Targets : u # t => job'[u] = job[u]
  BY DEF Typed, TypeOK
<1>2. ASSUME NEW v \in Workers, NEW k \in Kinds, v # w PROVE Owns(v, t, k)' <=> Owns(v, t, k)
  <2>1. CASE k = kind
    BY <1>1, <1>2, <2>1 DEF Owns
  <2>2. CASE k = Other(kind)
    BY <1>1, <2>2 DEF Owns
  <2> QED BY <2>1, <2>2 DEF Kinds, Other
<1> QED BY <1>1, <1>2 DEF Wrote

LEMMA HoldsIs ==
  ASSUME NEW w \in Workers, NEW t \in Targets, NEW kind \in Kinds, On(w, t, kind)
  PROVE  Holds(w) <=> Owns(w, t, kind)
  BY DEF On, Holds, Owns

\* completeVideoJob
LEMMA CompleteEffect ==
  ASSUME Typed, NEW w \in Workers, NEW t \in Targets, NEW kind \in Kinds, On(w, t, kind),
         NEW row, Complete(w, t, row)
  PROVE  \/ ~Owns(w, t, kind) /\ UNCHANGED <<job, target>>
         \/ Owns(w, t, kind) /\ target' = [target EXCEPT ![t] = row]
            /\ Wrote(w, t, kind, "completed", Same(t, kind))
<1>1. CASE ~Owns(w, t, kind)
  BY <1>1, HoldsIs DEF Complete
<1>2. CASE Owns(w, t, kind)
  <2> DEFINE jobs == [job[t] EXCEPT ![kind] = Unlocked(@, "completed")]
  <2>1. job[t] \in [Kinds -> SweptRow] /\ job[t][kind] \in JobRow /\ Other(kind) \in Kinds /\ Other(kind) # kind
    BY RowsOf DEF Other, Kinds
  <2>2. Unlocked(job[t][kind], "completed") \in SweptRow
    BY <2>1, RowType DEF JobStatus
  <2>3. jobs \in [Kinds -> SweptRow] /\ jobs[kind] = Unlocked(job[t][kind], "completed") /\ jobs[Other(kind)] = job[t][Other(kind)]
    BY <2>1, <2>2
  <2>4. job' = [job EXCEPT ![t] = jobs] /\ target' = [target EXCEPT ![t] = row]
    BY <1>2, HoldsIs DEF Complete, On, Typed, TypeOK
  <2>5. jobs[kind].lockedBy = "none" /\ jobs[kind].status = "completed"
    BY <2>1, <2>3 DEF Unlocked, JobRow
  <2> HIDE DEF jobs
  <2>6. Wrote(w, t, kind, jobs[kind].status, jobs[Other(kind)].status)
    BY <1>2, <2>3, <2>4, <2>5, JobsWritten
  <2> QED BY <1>2, <2>3, <2>4, <2>5, <2>6 DEF Same
<1> QED BY <1>1, <1>2

\* failVideoJob
LEMMA FailEffect ==
  ASSUME Typed, NEW w \in Workers, NEW t \in Targets, NEW kind \in Kinds, On(w, t, kind),
         NEW class, FailJob(w, class)
  PROVE  \/ ~Owns(w, t, kind) /\ UNCHANGED <<job, target, draft>>
         \/ /\ Owns(w, t, kind) /\ draft' = Refreshed(draft, target')
            /\ \E next \in {"queued", "failed"} :
                 /\ target' = [target EXCEPT ![t].status = IF next = "queued" THEN "scheduled" ELSE "failed"]
                 /\ Wrote(w, t, kind, next, IF kind = "prepare" /\ next = "failed" /\ Same(t, kind) = "queued"
                                              THEN "cancelled" ELSE Same(t, kind))
<1>1. CASE ~Owns(w, t, kind)
  BY <1>1, HoldsIs DEF FailJob
<1>2. CASE Owns(w, t, kind)
  <2> DEFINE o == Other(kind)
             next == AfterFailure(class, job[t][kind].attempt)
             jobs == [k \in Kinds |->
                   IF k = kind THEN Spent(job[t][kind], next)
                   ELSE IF EndsPublication(kind, next) /\ job[t][k].status = "queued"
                     THEN Unlocked(job[t][k], "cancelled") ELSE job[t][k]]
  <2>1. next \in {"queued", "failed"}
    BY FailureType
  <2>2. job' = [job EXCEPT ![t] = jobs] /\ draft' = Refreshed(draft, target')
        /\ target' = [target EXCEPT ![t].status = IF next = "queued" THEN "scheduled" ELSE "failed"]
    BY <1>2, HoldsIs DEF FailJob, On, Typed, TypeOK
  <2> HIDE DEF next
  <2>3. /\ o \in Kinds /\ o # kind /\ job[t][kind] \in JobRow /\ job[t][o] \in JobRow
        /\ \A k \in Kinds : job[t][k] \in SweptRow
        /\ \A k \in Kinds : Unlocked(job[t][k], "cancelled") \in SweptRow
        /\ Spent(job[t][kind], next) \in SweptRow
    BY <2>1, RowsOf, RowType DEF Other, Kinds, JobStatus
  <2>4. jobs \in [Kinds -> SweptRow] /\ jobs[kind] = Spent(job[t][kind], next)
        /\ jobs[o] = IF EndsPublication(kind, next) /\ job[t][o].status = "queued"
                       THEN Unlocked(job[t][o], "cancelled") ELSE job[t][o]
    BY <2>3
  <2> HIDE DEF jobs
  <2>5. jobs[kind].lockedBy = "none" /\ jobs[kind].status = next
    BY <2>3, <2>4 DEF Spent, Unlocked, JobRow
  <2>6. Unlocked(job[t][o], "cancelled").status = "cancelled"
    BY <2>3 DEF Unlocked, JobRow
  <2>7. jobs[o] = job[t][o] \/ (job[t][o].status # "running" /\ jobs[o].status # "running")
    BY <2>4, <2>6
  <2>8. Wrote(w, t, kind, jobs[kind].status, jobs[o].status)
    BY <1>2, <2>1, <2>2, <2>4, <2>5, <2>7, JobsWritten
  <2>9. jobs[o].status = IF kind = "prepare" /\ next = "failed" /\ Same(t, kind) = "queued"
                           THEN "cancelled" ELSE Same(t, kind)
    BY <2>4, <2>6 DEF EndsPublication, Same
  <2> HIDE DEF o
  <2> QED BY <1>2, <2>1, <2>2, <2>5, <2>8, <2>9
<1> QED BY <1>1, <1>2

\* requireVideoVerification
LEMMA VerifyEffect ==
  ASSUME Typed, NEW w \in Workers, NEW t \in Targets, NEW kind \in Kinds, On(w, t, kind),
         NEW prov \in 0 .. MaxObjects, RequireVerification(w, prov)
  PROVE  \/ ~Owns(w, t, kind) /\ UNCHANGED <<job, target, draft>>
         \/ /\ Owns(w, t, kind) /\ draft' = Refreshed(draft, target')
            /\ target' = [target EXCEPT ![t].status = "verification_required", ![t].prov = prov]
            /\ Wrote(w, t, kind, "verification_required", Same(t, kind))
<1>1. CASE ~Owns(w, t, kind)
  BY <1>1, HoldsIs DEF RequireVerification
<1>2. CASE Owns(w, t, kind)
  <2> DEFINE jobs == [job[t] EXCEPT ![kind] = Spent(@, "verification_required")]
  <2>1. /\ job[t] \in [Kinds -> SweptRow] /\ job[t][kind] \in JobRow
        /\ Other(kind) \in Kinds /\ Other(kind) # kind
    BY RowsOf DEF Other, Kinds
  <2>2. Spent(job[t][kind], "verification_required") \in SweptRow
    BY <2>1, RowType DEF JobStatus
  <2>3. /\ jobs \in [Kinds -> SweptRow] /\ jobs[kind] = Spent(job[t][kind], "verification_required")
        /\ jobs[Other(kind)] = job[t][Other(kind)]
    BY <2>1, <2>2
  <2>4. /\ job' = [job EXCEPT ![t] = jobs] /\ draft' = Refreshed(draft, target')
        /\ target' = [target EXCEPT ![t].status = "verification_required", ![t].prov = prov]
    BY <1>2, HoldsIs DEF RequireVerification, On, Typed, TypeOK
  <2>5. jobs[kind].lockedBy = "none" /\ jobs[kind].status = "verification_required"
    BY <2>1, <2>3 DEF Spent, Unlocked, JobRow
  <2> HIDE DEF jobs
  <2>6. Wrote(w, t, kind, jobs[kind].status, jobs[Other(kind)].status)
    BY <1>2, <2>3, <2>4, <2>5, JobsWritten
  <2> QED BY <1>2, <2>3, <2>4, <2>5, <2>6 DEF Same
<1> QED BY <1>1, <1>2

\* The row a target has after its status, and an id, were written.
LEMMA StatusWritten ==
  ASSUME Typed, NEW t \in Targets, NEW s \in TargetStatus, target' = [target EXCEPT ![t].status = s]
  PROVE  \E row \in TargetRow :
           row.status = s /\ row.ext = target[t].ext /\ row.prov = target[t].prov /\ target' = [target EXCEPT ![t] = row]
<1> DEFINE row == [target[t] EXCEPT !.status = s]
<1>1. target \in [Targets -> TargetRow] /\ target[t] \in TargetRow
  BY DEF Typed, TypeOK
<1>2. row \in TargetRow /\ row.status = s /\ row.ext = target[t].ext /\ row.prov = target[t].prov
  BY <1>1 DEF TargetRow
<1>3. target' = [target EXCEPT ![t] = row]
  BY <1>1
<1> HIDE DEF row
<1> QED BY <1>2, <1>3

\* The facts about one attempt that its steps need.
LEMMA AttemptFacts ==
  ASSUME Typed, NEW w \in Workers, NEW t \in Targets, NEW kind \in Kinds, Line(t), On(w, t, kind)
  PROVE  /\ AttemptOf(w, t) /\ Flow(t) /\ ~IdleWorker(w) /\ attempt[w].t = t /\ attempt[w].kind = kind
         /\ attempt[w].made \in 0 .. MaxObjects /\ attempt[w].ext \in 0 .. MaxObjects
         /\ (Owns(w, t, kind) => Open(t))
         /\ (Holds(w) <=> Owns(w, t, kind))
         /\ target[t] \in TargetRow /\ Same(t, kind) \in JobStatus
<1>1. AttemptOf(w, t) /\ Flow(t) /\ ~IdleWorker(w) /\ attempt[w].t = t /\ attempt[w].kind = kind
  BY DEF Line, On
<1>2. attempt[w].made \in 0 .. MaxObjects /\ attempt[w].ext \in 0 .. MaxObjects
  BY <1>1, AttemptType DEF Typed
<1>3. Owns(w, t, kind) => Open(t)
  BY <1>1 DEF Owns, Flow, FlowOf, Open, Status, Kinds
<1>4. target[t] \in TargetRow /\ Same(t, kind) \in JobStatus
  BY RowsOf DEF Same, Other, Kinds, JobRow
<1> QED BY <1>1, <1>2, <1>3, <1>4, HoldsIs

LEMMA CompletionsEnd ==
  ASSUME Typed, NEW w \in Workers, NEW t \in Targets, NEW kind \in Kinds, Line(t), On(w, t, kind),
         \/ ExecuteNothing(w) \/ ExecuteCheckpoint(w) \/ ExecuteYouTubePublish(w)
         \/ (Uploaded(w) /\ Holds(w)) \/ ContainerCreated(w) \/ ReelPublished(w)
         \/ (ProviderAnswered(w) /\ object[t][attempt[w].made] = "public")
  PROVE  Ends(w, t, kind)
<1> DEFINE made == attempt[w].made
<1>0. /\ AttemptOf(w, t) /\ ~IdleWorker(w) /\ attempt[w].t = t /\ attempt[w].kind = kind
      /\ made \in 0 .. MaxObjects /\ (Owns(w, t, kind) => Open(t)) /\ (Holds(w) <=> Owns(w, t, kind))
      /\ target[t] \in TargetRow /\ Same(t, kind) \in JobStatus
  BY AttemptFacts
<1>1. Ending(w, t, kind) /\ UNCHANGED object
  BY <1>0 DEF ExecuteNothing, ExecuteCheckpoint, ExecuteYouTubePublish, Uploaded, ContainerCreated,
     ReelPublished, ProviderAnswered, Ending, clock, ghosts
<1>2. PICK row : Complete(w, t, row) /\
        \/ ExecuteNothing(w) /\ row = target[t]
        \/ ExecuteCheckpoint(w) /\ row = [target[t] EXCEPT !.status = "prepared"]
        \/ ExecuteYouTubePublish(w) /\ row = [target[t] EXCEPT !.status = "published"]
        \/ (Uploaded(w) \/ ContainerCreated(w)) /\ row = [target[t] EXCEPT !.status = "prepared", !.ext = made]
        \/ ReelPublished(w) /\ row = [target[t] EXCEPT !.status = "published", !.ext = made]
        \/ /\ ProviderAnswered(w) /\ object[t][made] = "public"
           /\ row = [status |-> "published", ext |-> made, prov |-> made]
  BY <1>0 DEF ExecuteNothing, ExecuteCheckpoint, ExecuteYouTubePublish, Uploaded, ContainerCreated,
     ReelPublished, ProviderAnswered
<1>3. draft' = draft \/ (Holds(w) /\ draft' = Refreshed(draft, target'))
  BY <1>0 DEF ExecuteNothing, ExecuteCheckpoint, ExecuteYouTubePublish, Uploaded, ContainerCreated,
     ReelPublished, ProviderAnswered
<1>4. CASE ~Owns(w, t, kind)
  <2>1. UNCHANGED <<job, target, draft>>
    BY <1>0, <1>2, <1>3, <1>4, CompleteEffect
  <2>2. ~Uploaded(w) /\ (attempt[w].pc = "upload" => made = 0)
    BY <1>0, <1>4 DEF ExecuteNothing, ExecuteCheckpoint, ExecuteYouTubePublish, ContainerCreated,
       ReelPublished, ProviderAnswered, Executable, At, Uploaded
  <2> QED BY <1>1, <1>4, <2>1, <2>2 DEF Ends, Dropped
<1>5. CASE Owns(w, t, kind)
  <2>1. target' = [target EXCEPT ![t] = row] /\ Wrote(w, t, kind, "completed", Same(t, kind))
    BY <1>2, <1>5, CompleteEffect
  <2>2. ~ExecuteNothing(w)
    BY <1>0, <1>5 DEF ExecuteNothing, Open, Status
  <2>3. row \in TargetRow /\ row.status \in {"prepared", "published"}
        /\ (ExecuteCheckpoint(w) => row.status = "prepared" /\ row.ext = target[t].ext /\ row.prov = target[t].prov)
        /\ (ExecuteYouTubePublish(w) => row.status = "published" /\ row.ext = target[t].ext /\ row.prov = target[t].prov)
        /\ (Uploaded(w) \/ ContainerCreated(w) => row.status = "prepared" /\ row.ext = made /\ row.prov = target[t].prov)
        /\ (ReelPublished(w) => row.status = "published" /\ row.ext = made /\ row.prov = target[t].prov)
        /\ (ProviderAnswered(w) => row.status = "published" /\ row.ext = made /\ row.prov = made)
    <3> HIDE DEF made
    <3>1. ExecuteCheckpoint(w) \/ ExecuteYouTubePublish(w) => attempt[w].pc = "claimed"
      BY DEF ExecuteCheckpoint, ExecuteYouTubePublish, Executable, At
    <3>2. (Uploaded(w) => attempt[w].pc = "upload") /\ (ContainerCreated(w) => attempt[w].pc = "container")
          /\ (ReelPublished(w) => attempt[w].pc = "publish") /\ (ProviderAnswered(w) => attempt[w].pc = "send")
      BY DEF Uploaded, ContainerCreated, ReelPublished, ProviderAnswered, At
    <3>3. ~(ExecuteCheckpoint(w) /\ ExecuteYouTubePublish(w))
      BY DEF ExecuteCheckpoint, ExecuteYouTubePublish
    <3>4. \A s \in {"prepared", "published"} :
            LET r == [target[t] EXCEPT !.status = s] IN
              r \in TargetRow /\ r.status = s /\ r.ext = target[t].ext /\ r.prov = target[t].prov
      BY <1>0 DEF TargetRow, TargetStatus
    <3>5. \A s \in {"prepared", "published"} :
            LET r == [target[t] EXCEPT !.status = s, !.ext = made] IN
              r \in TargetRow /\ r.status = s /\ r.ext = made /\ r.prov = target[t].prov
      BY <1>0 DEF TargetRow, TargetStatus
    <3>6. LET r == [status |-> "published", ext |-> made, prov |-> made] IN
              r \in TargetRow /\ r.status = "published" /\ r.ext = made /\ r.prov = made
      BY <1>0 DEF TargetRow, TargetStatus
    <3> QED BY <1>2, <2>2, <3>1, <3>2, <3>3, <3>4, <3>5, <3>6
  <2>4. Settled(w, t, kind, row, "completed", Same(t, kind))
    BY <1>1, <1>3, <1>5, <2>1, <2>3 DEF Settled
  <2>5. CASE ExecuteCheckpoint(w)
    <3>1. attempt[w].made = 0 /\ kind = "prepare" /\ route[t] = "zernio"
      BY <1>0, <2>5 DEF ExecuteCheckpoint, Executable, At, AttemptOf
    <3>2. Prepared(w, t, kind, row, "completed", Same(t, kind))
      BY <2>3, <2>5, <3>1 DEF Prepared
    <3> QED BY <1>0, <2>3, <2>4, <3>2 DEF Ends, Outcome, JobStatus
  <2>6. CASE Uploaded(w) \/ ContainerCreated(w)
    <3>1. made # 0 /\ attempt[w].pc \in {"upload", "container"} /\ kind = "prepare" /\ route[t] # "zernio"
      BY <1>0, <2>6 DEF Uploaded, ContainerCreated, At, AttemptOf
    <3>2. Prepared(w, t, kind, row, "completed", Same(t, kind))
      BY <2>3, <2>6, <3>1 DEF Prepared
    <3> QED BY <1>0, <2>3, <2>4, <3>2 DEF Ends, Outcome, JobStatus
  <2>7. CASE ExecuteYouTubePublish(w) \/ ReelPublished(w) \/ ProviderAnswered(w)
    <3>1. draft' = Refreshed(draft, target')
      BY <1>0, <1>2, <1>5, <2>7 DEF ExecuteYouTubePublish, ReelPublished, ProviderAnswered,
         RequireVerification, ExecuteNothing, ExecuteCheckpoint, Uploaded, ContainerCreated, Executable, At
    <3>2. \/ /\ ExecuteYouTubePublish(w) /\ kind = "publish" /\ route[t] = "youtube" /\ target[t].ext # 0
          \/ /\ ReelPublished(w) /\ kind = "publish" /\ route[t] = "native" /\ made # 0 /\ attempt[w].pc = "publish"
          \/ /\ ProviderAnswered(w) /\ kind = "publish" /\ route[t] = "zernio" /\ made # 0 /\ attempt[w].pc = "send"
             /\ object[t][made] = "public"
      BY <1>0, <1>2, <2>7 DEF ExecuteYouTubePublish, ReelPublished, ProviderAnswered, ExecuteNothing,
         ExecuteCheckpoint, Uploaded, ContainerCreated, Executable, At, AttemptOf
    <3>3. Published(w, t, kind, row, "completed", Same(t, kind))
      BY <2>3, <3>1, <3>2 DEF Published
    <3> QED BY <1>0, <2>3, <2>4, <3>3 DEF Ends, Outcome, JobStatus
  <2> QED BY <2>2, <2>5, <2>6, <2>7
<1> QED BY <1>4, <1>5

LEMMA DroppedEnd ==
  ASSUME NEW w \in Workers, NEW t \in Targets, NEW kind \in Kinds, Ending(w, t, kind), ~Owns(w, t, kind),
         UNCHANGED <<job, target, draft>>,
         attempt[w].pc = "upload" /\ attempt[w].made # 0 => <<t, attempt[w].made>> \in unheld'
  PROVE  Ends(w, t, kind)
  BY DEF Ends, Dropped

LEMMA FailuresEnd ==
  ASSUME Typed, NEW w \in Workers, NEW t \in Targets, NEW kind \in Kinds, Line(t), On(w, t, kind),
         ExecuteUnready(w) \/ \E class \in ErrorClasses : Refused(w, class) \/ Unread(w, class)
  PROVE  Ends(w, t, kind)
<1> DEFINE made == attempt[w].made
<1>0. /\ AttemptOf(w, t) /\ ~IdleWorker(w) /\ attempt[w].t = t /\ attempt[w].kind = kind
      /\ target[t] \in TargetRow /\ Same(t, kind) \in JobStatus
  BY AttemptFacts
<1>1. PICK class : FailJob(w, class)
  BY DEF ExecuteUnready, Refused, Unread, Fail
<1>2. Ending(w, t, kind) /\ UNCHANGED object
  <2>1. unheld \subseteq unheld'
    BY DEF ExecuteUnready, Refused, Unread, Fail, ghosts
  <2> QED BY <1>0, <1>1, <2>1 DEF FailJob, Ending, clock
<1>3. /\ made # 0 => attempt[w].pc = "container" \/ ~Readable
      /\ made # 0 /\ attempt[w].pc = "upload" => <<t, made>> \in unheld'
      /\ route[t] = "youtube" /\ kind = "publish" => draft.pruned \/ target[t].ext = 0
  BY <1>0 DEF ExecuteUnready, Refused, Unread, Readable, Executable, At, AttemptOf
<1>4. CASE ~Owns(w, t, kind)
  BY <1>1, <1>2, <1>3, <1>4, FailEffect, DroppedEnd
<1>5. CASE Owns(w, t, kind)
  <2>1. draft' = Refreshed(draft, target')
    BY <1>1, <1>5, FailEffect
  <2>2. PICK next \in {"queued", "failed"} :
                 /\ target' = [target EXCEPT ![t].status = IF next = "queued" THEN "scheduled" ELSE "failed"]
                 /\ Wrote(w, t, kind, next, IF kind = "prepare" /\ next = "failed" /\ Same(t, kind) = "queued"
                                              THEN "cancelled" ELSE Same(t, kind))
    BY <1>1, <1>5, FailEffect
  <2> DEFINE s == IF next = "queued" THEN "scheduled" ELSE "failed"
             other == IF kind = "prepare" /\ next = "failed" /\ Same(t, kind) = "queued" THEN "cancelled" ELSE Same(t, kind)
  <2>3. s \in TargetStatus /\ other \in JobStatus /\ next \in JobStatus /\ next # "running"
    BY <1>0, <2>2 DEF TargetStatus, JobStatus
  <2>4. target' = [target EXCEPT ![t].status = s] /\ Wrote(w, t, kind, next, other)
    BY <2>2
  <2>5. s = (IF next = "queued" THEN "scheduled" ELSE "failed")
        /\ other = (IF kind = "prepare" /\ next = "failed" /\ Same(t, kind) = "queued" THEN "cancelled" ELSE Same(t, kind))
    OBVIOUS
  <2> HIDE DEF s, other
  <2>7. PICK row \in TargetRow :
           /\ row.status = s /\ row.ext = target[t].ext /\ row.prov = target[t].prov
           /\ target' = [target EXCEPT ![t] = row]
    BY <2>3, <2>4, StatusWritten
  <2>8. Settled(w, t, kind, row, next, other)
    BY <1>2, <1>5, <2>1, <2>4, <2>7 DEF Settled
  <2>9. Failed(w, t, kind, row, next, other)
    BY <1>3, <2>1, <2>2, <2>5, <2>7 DEF Failed
  <2>10. Outcome(w, t, kind, row, next, other)
    BY <2>9 DEF Outcome
  <2> QED BY <2>3, <2>8, <2>10 DEF Ends
<1> QED BY <1>4, <1>5

LEMMA DoubtsEnd ==
  ASSUME Typed, NEW w \in Workers, NEW t \in Targets, NEW kind \in Kinds, Line(t), On(w, t, kind),
         Lost(w) \/ (ProviderAnswered(w) /\ object[t][attempt[w].made] # "public")
  PROVE  Ends(w, t, kind)
<1> DEFINE made == attempt[w].made
           prov == IF Lost(w) THEN target[t].prov ELSE made
<1>0. /\ AttemptOf(w, t) /\ ~IdleWorker(w) /\ attempt[w].t = t /\ attempt[w].kind = kind
      /\ target[t] \in TargetRow /\ Same(t, kind) \in JobStatus /\ made \in 0 .. MaxObjects
  BY AttemptFacts
<1>1. RequireVerification(w, prov)
  BY <1>0 DEF Lost, ProviderAnswered
<1>2. prov \in 0 .. MaxObjects
  BY <1>0 DEF TargetRow
<1>3. /\ Lost(w) => /\ prov = target[t].prov /\ (NamesOlderPost(t, kind) => "older_post" \in Faults)
                    /\ attempt[w].pc \in {"upload", "send", "publish"}
                    /\ attempt[w].pc = "upload" => unheld' = unheld \cup {<<t, made>>}
                    /\ attempt[w].pc # "upload" => unheld' = unheld
      /\ ~Lost(w) => prov = made /\ made # 0 /\ route[t] = "zernio" /\ unheld' = unheld /\ attempt[w].pc = "send"
  BY <1>0 DEF Lost, ProviderAnswered, At, AttemptOf
<1> HIDE DEF prov
<1>4. Ending(w, t, kind) /\ UNCHANGED object
  BY <1>0, <1>1, <1>3 DEF RequireVerification, Ending, clock
<1>5. Solo(t, kind) \/ (kind = "publish" /\ route[t] = "zernio")
  BY <1>0, <1>3 DEF AttemptOf, Solo
<1>6. attempt[w].pc = "upload" => <<t, made>> \in unheld'
  BY <1>3
<1>7. CASE ~Owns(w, t, kind)
  BY <1>1, <1>2, <1>4, <1>6, <1>7, VerifyEffect, DroppedEnd
<1>8. CASE Owns(w, t, kind)
  <2>1. draft' = Refreshed(draft, target') /\ Wrote(w, t, kind, "verification_required", Same(t, kind))
        /\ target' = [target EXCEPT ![t].status = "verification_required", ![t].prov = prov]
    BY <1>1, <1>2, <1>8, VerifyEffect
  <2>2. "verification_required" \in TargetStatus /\ "verification_required" \in JobStatus
    BY DEF TargetStatus, JobStatus
  <2> DEFINE row == [target[t] EXCEPT !.status = "verification_required", !.prov = prov]
  <2>3. /\ row \in TargetRow /\ target' = [target EXCEPT ![t] = row]
        /\ row.status = "verification_required" /\ row.ext = target[t].ext /\ row.prov = prov
    <3>1. target \in [Targets -> TargetRow]
      BY DEF Typed, TypeOK
    <3>2. target' = [target EXCEPT ![t] = row]
      BY <2>1, <3>1
    <3>3. row \in TargetRow /\ row.status = "verification_required" /\ row.ext = target[t].ext /\ row.prov = prov
      BY <1>0, <1>2, <2>2 DEF TargetRow
    <3> HIDE DEF row
    <3> QED BY <3>2, <3>3
  <2> HIDE DEF row
  <2>4. Settled(w, t, kind, row, "verification_required", Same(t, kind))
    BY <1>4, <1>8, <2>1, <2>3 DEF Settled
  <2>5. Doubted(w, t, kind, row, "verification_required", Same(t, kind))
    BY <1>3, <1>5, <1>6, <2>1, <2>3 DEF Doubted
  <2>6. Outcome(w, t, kind, row, "verification_required", Same(t, kind))
    BY <2>5 DEF Outcome
  <2> QED BY <1>0, <2>2, <2>3, <2>4, <2>6 DEF Ends
<1> QED BY <1>7, <1>8

LEMMA ContainersEnd ==
  ASSUME Typed, NEW w \in Workers, NEW t \in Targets, NEW kind \in Kinds, Line(t), On(w, t, kind),
         \/ (ContainerFinished(w) /\ ~Holds(w)) \/ ContainerProcessing(w)
         \/ \E class \in ErrorClasses : ContainerInvalid(w, class)
  PROVE  Ends(w, t, kind)
<1> DEFINE made == attempt[w].made
<1>0. /\ AttemptOf(w, t) /\ ~IdleWorker(w) /\ attempt[w].t = t /\ attempt[w].kind = kind
      /\ target[t] \in TargetRow /\ Same(t, kind) \in JobStatus /\ (Holds(w) <=> Owns(w, t, kind))
  BY AttemptFacts
<1>1. Ending(w, t, kind) /\ UNCHANGED object
  BY <1>0 DEF ContainerFinished, ContainerProcessing, ContainerInvalid, Ending, Done, rows, clock, ghosts,
     bounds
<1>2. made = 0 /\ attempt[w].pc # "upload" /\ kind = "publish" /\ route[t] = "native"
  BY <1>0 DEF ContainerFinished, ContainerProcessing, ContainerInvalid, At, AttemptOf
<1>3. CASE ~Owns(w, t, kind)
  <2>1. UNCHANGED <<job, target, draft>>
    BY <1>0, <1>3 DEF ContainerFinished, ContainerProcessing, ContainerInvalid, rows
  <2> QED BY <1>1, <1>2, <1>3, <2>1, DroppedEnd
<1>4. CASE Owns(w, t, kind)
  <2> DEFINE pre == job[t]["prepare"]
             pub == job[t]["publish"]
  <2>1. /\ job[t] \in [Kinds -> SweptRow] /\ pre \in JobRow /\ pub \in JobRow /\ pub \in SweptRow
        /\ Spent(pub, "queued") \in SweptRow /\ Requeued(pre) \in SweptRow
        /\ "prepare" \in Kinds /\ "publish" \in Kinds
    BY RowsOf, RowType DEF Kinds, JobStatus
  <2>2. /\ Spent(pub, "queued").status = "queued" /\ Spent(pub, "queued").lockedBy = "none"
        /\ Requeued(pre).status = "queued" /\ Requeued(pre).lockedBy = "none"
    BY <2>1 DEF Spent, Requeued, Unlocked, JobRow
  <2>3. CASE ContainerProcessing(w)
    <3> DEFINE jobs == [job[t] EXCEPT !["publish"] = Spent(@, "queued")]
    <3>1. jobs \in [Kinds -> SweptRow] /\ jobs["publish"] = Spent(pub, "queued") /\ jobs["prepare"] = pre
      BY <2>1
    <3>2. /\ job' = [job EXCEPT ![t] = jobs] /\ draft' = draft
          /\ target' = [target EXCEPT ![t].status = "prepared"]
      BY <1>0, <1>4, <2>3 DEF ContainerProcessing, Typed, TypeOK
    <3> HIDE DEF jobs
    <3>3. Wrote(w, t, kind, "queued", Same(t, kind))
      BY <1>2, <1>4, <2>2, <3>1, <3>2, JobsWritten DEF Other, Same
    <3>4. "prepared" \in TargetStatus
      BY DEF TargetStatus
    <3>5. PICK row \in TargetRow :
             /\ row.status = "prepared" /\ row.ext = target[t].ext /\ row.prov = target[t].prov
             /\ target' = [target EXCEPT ![t] = row]
      BY <3>2, <3>4, StatusWritten
    <3>6. Settled(w, t, kind, row, "queued", Same(t, kind))
      BY <1>1, <1>4, <3>2, <3>3, <3>5 DEF Settled
    <3>7. Processing(w, t, kind, row, "queued", Same(t, kind))
      BY <1>2, <3>5 DEF Processing
    <3>8. Outcome(w, t, kind, row, "queued", Same(t, kind)) /\ "queued" \in JobStatus
      BY <3>7 DEF Outcome, JobStatus
    <3> QED BY <1>0, <3>6, <3>8 DEF Ends
  <2>4. CASE \E class \in ErrorClasses : ContainerInvalid(w, class)
    <3> DEFINE jobs == [job[t] EXCEPT !["prepare"] = Requeued(@), !["publish"] = Spent(@, "queued")]
    <3>1. jobs \in [Kinds -> SweptRow] /\ jobs["publish"] = Spent(pub, "queued") /\ jobs["prepare"] = Requeued(pre)
      BY <2>1
    <3>2. /\ job' = [job EXCEPT ![t] = jobs] /\ draft' = Refreshed(draft, target')
          /\ target' = [target EXCEPT ![t].status = "scheduled", ![t].ext = 0]
      BY <1>0, <1>4, <2>4 DEF ContainerInvalid, Typed, TypeOK
    <3> HIDE DEF jobs
    <3>3. pre.status # "running"
      BY <1>0, <1>2, <1>4, AttemptFacts DEF Flow, FlowOf, Owns
    <3>4. Wrote(w, t, kind, "queued", "queued")
      <4>1. jobs[kind].lockedBy = "none" /\ jobs[kind].status = "queued" /\ jobs[Other(kind)].status = "queued"
            /\ job[t][Other(kind)].status # "running"
        BY <1>2, <2>2, <3>1, <3>3 DEF Other
      <4>2. Wrote(w, t, kind, jobs[kind].status, jobs[Other(kind)].status)
        BY <1>4, <3>1, <3>2, <4>1, JobsWritten
      <4> QED BY <4>1, <4>2
    <3>5. "scheduled" \in TargetStatus /\ 0 \in 0 .. MaxObjects
      BY VideoBoundsAssumption DEF TargetStatus
    <3> DEFINE row == [target[t] EXCEPT !.status = "scheduled", !.ext = 0]
    <3>6. /\ row \in TargetRow /\ target' = [target EXCEPT ![t] = row]
          /\ row.status = "scheduled" /\ row.ext = 0 /\ row.prov = target[t].prov
      <4>1. target \in [Targets -> TargetRow]
        BY DEF Typed, TypeOK
      <4>2. target' = [target EXCEPT ![t] = row]
        BY <3>2, <4>1
      <4>3. row \in TargetRow /\ row.status = "scheduled" /\ row.ext = 0 /\ row.prov = target[t].prov
        BY <1>0, <3>5 DEF TargetRow
      <4> HIDE DEF row
      <4> QED BY <4>2, <4>3
    <3> HIDE DEF row
    <3>7. Settled(w, t, kind, row, "queued", "queued")
      BY <1>1, <1>4, <3>2, <3>4, <3>6 DEF Settled
    <3>8. Processing(w, t, kind, row, "queued", "queued")
      BY <1>2, <3>6 DEF Processing
    <3>9. Outcome(w, t, kind, row, "queued", "queued") /\ "queued" \in JobStatus
      BY <3>8 DEF Outcome, JobStatus
    <3> QED BY <3>6, <3>7, <3>9 DEF Ends
  <2> QED BY <1>0, <1>4, <2>3, <2>4
<1> QED BY <1>3, <1>4

\* refreshVideoDraftStatus
LEMMA RefreshedSays ==
  ASSUME NEW d \in DraftRow, NEW tg
  PROVE  /\ Refreshed(d, tg).pruned = d.pruned
         /\ (\E t \in Targets : tg[t].status \in {"scheduled", "prepared"}) => Refreshed(d, tg).status = "scheduled"
         /\ Refreshed(d, tg).retention /\ Refreshed(d, tg).status # "editing" => StatusesOf(tg) \subseteq FinalStatus \/ StatusesOf(tg) = {}
<1> DEFINE found == StatusesOf(tg)
<1>1. ASSUME NEW t \in Targets, tg[t].status \in {"scheduled", "prepared"}
      PROVE  found # {} /\ ~(found \subseteq FinalStatus)
  BY <1>1 DEF StatusesOf, Present, FinalStatus
<1>2. found # {} => /\ Refreshed(d, tg).retention = (found \subseteq FinalStatus)
                    /\ ~(found \subseteq FinalStatus) => Refreshed(d, tg).status = "scheduled"
  BY DEF Refreshed, DraftRow
<1>3. Refreshed(d, tg).pruned = d.pruned
  BY DEF Refreshed, DraftRow
<1> HIDE DEF found
<1>4. found = StatusesOf(tg)
  BY DEF found
<1> QED BY <1>1, <1>2, <1>3, <1>4

\* While somebody holds one of a target's jobs, no other attempt at a step that
\* only one may make is about.
LEMMA Alone ==
  ASSUME Typed, NEW t \in Targets, Line(t), NEW w \in Workers, NEW kind \in Kinds, On(w, t, kind),
         Owns(w, t, kind),
         NEW v \in Workers, v # w, NEW k \in Kinds, On(v, t, k)
  PROVE  ~Solo(t, k)
<1> SUFFICES ASSUME Solo(t, k) PROVE FALSE
  OBVIOUS
<1>1. Open(t) /\ Flow(t) /\ AttemptOf(v, t)
  BY AttemptFacts
<1>2. CASE k = kind
  BY <1>2 DEF Line
<1>3. CASE k # kind /\ ~Owns(v, t, k)
  BY <1>1, <1>3 DEF AttemptOf, On, Open, Frozen, Status
<1>4. CASE k # kind /\ Owns(v, t, k)
  BY <1>1, <1>4 DEF Flow, FlowOf, Owns, Kinds
<1> QED BY <1>2, <1>3, <1>4

LEMMA SettledOthers ==
  ASSUME Typed, NEW w \in Workers, NEW t \in Targets, NEW kind \in Kinds, NEW row \in TargetRow, NEW mine,
         NEW other,
         Settled(w, t, kind, row, mine, other)
  PROVE  /\ \A u \in Targets : u # t => SameLine(u)
         /\ target'[t] = row /\ target' \in [Targets -> TargetRow]
         /\ \A v \in Workers : v # w => attempt'[v] = attempt[v] /\ (IdleWorker(v)' <=> IdleWorker(v))
         /\ IdleWorker(w)' /\ draft'.pruned = draft.pruned
<1>1. draft'.pruned = draft.pruned
  BY RefreshedSays DEF Settled, Typed, TypeOK
<1>2. target'[t] = row /\ target' \in [Targets -> TargetRow] /\ \A u \in Targets : u # t => target'[u] = target[u]
  BY DEF Settled, Typed, TypeOK
<1>3. /\ \A v \in Workers : v # w => attempt'[v] = attempt[v] /\ (IdleWorker(v)' <=> IdleWorker(v))
      /\ IdleWorker(w)'
  BY DEF Settled, Ending, Done, IdleWorker, Typed, TypeOK
<1>4. ASSUME NEW u \in Targets, u # t PROVE SameLine(u)
  <2>1. SameRows(u)
    BY <1>2, <1>4 DEF Settled, Ending, Wrote, SameRows
  <2> QED BY <1>1, <1>3, <2>1 DEF SameLine
<1> QED BY <1>1, <1>2, <1>3, <1>4

LEMMA SettledFlow ==
  ASSUME Typed, NEW w \in Workers, NEW t \in Targets, NEW kind \in Kinds, Line(t), DraftInv,
         NEW row \in TargetRow, NEW mine, NEW other,
         Settled(w, t, kind, row, mine, other), Outcome(w, t, kind, row, mine, other)
  PROVE  Flow(t)' /\ row.status \notin {"absent", "editing", "cancelled"}
<1> DEFINE pre == job[t]["prepare"].status
           pub == job[t]["publish"].status
           preN == job'[t]["prepare"].status
           pubN == job'[t]["publish"].status
<1>1. /\ FlowOf(route[t], target[t].status, target[t].ext, target[t].prov, pre, pub, fence[t], due[t], past[t] \/ soon[t])
      /\ kind = "prepare" => pre = "running" /\ Same(t, kind) = pub /\ preN = mine /\ pubN = other
      /\ kind = "publish" => pub = "running" /\ Same(t, kind) = pre /\ pubN = mine /\ preN = other
      /\ kind = "prepare" \/ kind = "publish"
  BY DEF Line, Flow, Settled, Wrote, Owns, Same, Other, Kinds
<1>2. target'[t] = row /\ route'[t] = route[t] /\ fence'[t] = fence[t] /\ due'[t] = due[t]
      /\ past'[t] = past[t] /\ soon'[t] = soon[t]
  BY SettledOthers DEF Settled, Ending
<1>3. AttemptOf(w, t) /\ ~IdleWorker(w) /\ attempt[w].t = t /\ attempt[w].kind = kind
  BY AttemptFacts DEF Settled, Ending
<1>4. draft.pruned /\ route[t] = "youtube" => target[t].status # "prepared"
  BY DEF DraftInv, Status
<1> HIDE DEF pre, pub, preN, pubN
<1>5. FlowOf(route[t], row.status, row.ext, row.prov, preN, pubN, fence[t], due[t], past[t] \/ soon[t])
      /\ row.status \notin {"absent", "editing", "cancelled"}
  <2>1. CASE Prepared(w, t, kind, row, mine, other)
    BY <1>1, <1>3, <2>1 DEF Prepared, FlowOf, AttemptOf
  <2>2. CASE Published(w, t, kind, row, mine, other)
    BY <1>1, <1>3, <2>2 DEF Published, FlowOf
  <2>3. CASE Doubted(w, t, kind, row, mine, other)
    BY <1>1, <1>3, <2>3 DEF Doubted, FlowOf, AttemptOf, Solo
  <2>4. CASE Failed(w, t, kind, row, mine, other)
    BY <1>1, <1>3, <1>4, <2>4 DEF Failed, FlowOf, AttemptOf
  <2>5. CASE Processing(w, t, kind, row, mine, other)
    BY <1>1, <2>5 DEF Processing, FlowOf
  <2> QED BY <2>1, <2>2, <2>3, <2>4, <2>5 DEF Outcome
<1>6. Flow(t)'
  BY <1>2, <1>5 DEF Flow, preN, pubN
<1> QED BY <1>5, <1>6

LEMMA SettledLine ==
  ASSUME Typed, NEW w \in Workers, NEW t \in Targets, NEW kind \in Kinds, Line(t), DraftInv,
         NEW row \in TargetRow, NEW mine, NEW other,
         Settled(w, t, kind, row, mine, other), Outcome(w, t, kind, row, mine, other)
  PROVE  Line(t)'
<1>1. Flow(t)' /\ row.status \notin {"absent", "editing"}
  BY SettledFlow
<1>2. /\ target'[t] = row /\ IdleWorker(w)'
      /\ \A v \in Workers : v # w => attempt'[v] = attempt[v] /\ (IdleWorker(v)' <=> IdleWorker(v))
  BY SettledOthers
<1>3. On(w, t, kind) /\ Owns(w, t, kind) /\ route'[t] = route[t] /\ fence'[t] = fence[t]
      /\ \A v \in Workers, k \in Kinds : v # w => (Owns(v, t, k)' <=> Owns(v, t, k))
  BY DEF Settled, Ending, Wrote
<1>4. ASSUME NEW v \in Workers PROVE AttemptOf(v, t)'
  <2> SUFFICES ASSUME v # w, ~IdleWorker(v), attempt[v].t = t PROVE AttemptOf(v, t)'
    BY <1>2 DEF AttemptOf
  <2> DEFINE k == attempt[v].kind
  <2>1. k \in Kinds
    BY AttemptType DEF Typed
  <2>2. ~Solo(t, k) /\ AttemptOf(v, t)
    BY <1>3, <2>1, Alone DEF On, Line
  <2>3. attempt'[v] = attempt[v] /\ (Owns(v, t, k)' <=> Owns(v, t, k))
    BY <1>2, <1>3, <2>1
  <2> QED BY <1>1, <1>2, <1>3, <2>1, <2>2, <2>3 DEF AttemptOf, Status, Solo, Kinds
<1>5. ASSUME NEW v \in Workers, NEW u \in Workers, NEW k \in Kinds, On(v, t, k)', On(u, t, k)', Solo(t, k)'
      PROVE  v = u
  <2>1. On(v, t, k) /\ On(u, t, k) /\ Solo(t, k)
    BY <1>2, <1>3, <1>5 DEF On, Solo
  <2> QED BY <2>1 DEF Line
<1> QED BY <1>1, <1>4, <1>5 DEF Line

\* A target that is still to go out has a draft without a deadline.
LEMMA OpenMeans ==
  ASSUME Typed, DraftInv, SourceKept, NEW t \in Targets, Open(t)
  PROVE  draft.status = "scheduled" /\ ~draft.retention
<1>1. draft.status = "scheduled" /\ draft.retention \in BOOLEAN
  BY DEF DraftInv, Typed, TypeOK, DraftRow
<1>2. target[t].status \in StatusesOf(target) /\ target[t].status \notin FinalStatus
  BY DEF StatusesOf, Present, Open, Status, FinalStatus
<1> QED BY <1>1, <1>2 DEF SourceKept

\* A step that refreshes the draft, or leaves it while a target is open.
LEMMA DraftFollows ==
  ASSUME Typed, DraftInv, SourceKept,
         \/ draft' = Refreshed(draft, target')
         \/ (draft' = draft /\ \E t \in Targets : Open(t))
         \/ (draft' = draft /\ target' = target),
         \A t \in Targets : draft.pruned /\ route'[t] = "youtube" => Status(t)' # "prepared"
  PROVE  DraftInv' /\ SourceKept'
<1>0. draft \in DraftRow
  BY DEF Typed, TypeOK
<1>1. CASE draft' = Refreshed(draft, target')
  <2>1. \A t \in Targets : Open(t)' => draft'.status = "scheduled"
    BY <1>0, <1>1, RefreshedSays DEF Open, Status
  <2>2. draft'.pruned = draft.pruned
    BY <1>0, <1>1, RefreshedSays
  <2>3. DraftInv'
    BY <2>1, <2>2 DEF DraftInv
  <2>4. draft'.retention /\ draft'.status # "editing" => StatusesOf(target') \subseteq FinalStatus
    BY <1>0, <1>1, RefreshedSays
  <2>5. SourceKept'
    BY <2>4 DEF SourceKept, StatusesOf, Present
  <2> QED BY <2>3, <2>5
<1>2. CASE draft' = draft /\ \E t \in Targets : Open(t)
  <2>1. draft'.status = "scheduled" /\ ~draft'.retention /\ draft'.pruned = draft.pruned
    BY <1>2, OpenMeans
  <2> QED BY <2>1 DEF DraftInv, SourceKept
<1>3. CASE draft' = draft /\ target' = target
  BY <1>3 DEF DraftInv, SourceKept, Open, Status, StatusesOf, Present
<1> QED BY <1>1, <1>2, <1>3

\* The questions under way stay what they are while the row they are about,
\* where it is in doubt, does.
LEMMA QuestionsStay ==
  ASSUME Typed, QuestionInv, UNCHANGED <<route, recon, asking>>,
         \A t \in Targets : route[t] = "youtube" /\ Frozen(t) =>
            /\ Frozen(t)' /\ target'[t].ext = target[t].ext
            /\ \A k \in Kinds : job[t][k].status = "verification_required" => job'[t][k].status = "verification_required"
  PROVE  QuestionInv'
<1>1. recon # Idle => recon.t \in Targets /\ recon.kind \in Kinds
  BY DEF Typed, TypeOK, Question
<1> QED BY <1>1 DEF QuestionInv, ReconFacts, AskFacts, Subject

LEMMA EndsKeep ==
  ASSUME RowsInv, Typed', NEW w \in Workers, NEW t \in Targets, NEW kind \in Kinds, Ends(w, t, kind)
  PROVE  RowsInv'
<1>1. CASE Dropped(w, t, kind)
  <2>1. \A u \in Targets : SameLine(u)
    BY <1>1 DEF Dropped, Ending, Done, SameLine, SameRows, IdleWorker, RowsInv, Typed, TypeOK
  <2>2. \A u \in Targets : Line(u)'
    BY <2>1, SameLineKept DEF RowsInv
  <2>3. DraftInv' /\ SourceKept'
    <3>1. \A u \in Targets : draft.pruned /\ route'[u] = "youtube" => Status(u)' # "prepared"
      BY <1>1 DEF Dropped, Ending, RowsInv, DraftInv, Status
    <3> QED BY <1>1, <3>1, DraftFollows DEF Dropped, RowsInv
  <2>4. QuestionInv'
    <3>1. UNCHANGED <<route, recon, asking, target, job>>
      BY <1>1 DEF Dropped, Ending
    <3> QED BY <3>1 DEF RowsInv, QuestionInv, ReconFacts, AskFacts, Frozen, Status, Subject
  <2> QED BY <2>2, <2>3, <2>4 DEF RowsInv
<1>2. ASSUME NEW row \in TargetRow, NEW mine, NEW other,
             Settled(w, t, kind, row, mine, other), Outcome(w, t, kind, row, mine, other)
      PROVE  RowsInv'
  <2>1. Typed /\ DraftInv /\ SourceKept /\ QuestionInv /\ Line(t)
    BY DEF RowsInv
  <2>2. On(w, t, kind) /\ Owns(w, t, kind) /\ UNCHANGED <<route, recon, asking>>
        /\ ((draft' = draft) \/ (draft' = Refreshed(draft, target')))
        /\ \A u \in Targets : u # t => job'[u] = job[u]
    BY <1>2 DEF Settled, Ending, Wrote
  <2>3. /\ \A u \in Targets : u # t => SameLine(u)
        /\ target'[t] = row /\ Open(t) /\ AttemptOf(w, t)
    BY <1>2, <2>1, <2>2, SettledOthers, AttemptFacts
  <2>4. \A u \in Targets : Line(u)'
    <3>1. Line(t)'
      BY <1>2, <2>1, SettledLine
    <3>2. \A u \in Targets : u # t => Line(u)'
      BY <2>3, SameLineKept DEF RowsInv
    <3> QED BY <3>1, <3>2
  <2>5. DraftInv' /\ SourceKept'
    <3>1. ASSUME NEW u \in Targets, draft.pruned, route'[u] = "youtube" PROVE Status(u)' # "prepared"
      <4>1. CASE u # t
        BY <2>1, <2>3, <3>1, <4>1 DEF SameLine, SameRows, DraftInv, Status
      <4>2. CASE u = t
        <5>1. route[t] = "youtube" /\ attempt[w].kind = kind /\ attempt[w].t = t /\ ~IdleWorker(w)
          BY <2>2, <3>1, <4>2 DEF On
        <5>2. row.status # "prepared"
          BY <1>2, <2>2, <2>3, <3>1, <5>1 DEF Outcome, Prepared, Published, Doubted, Failed, Processing,
             AttemptOf
        <5> QED BY <2>3, <4>2, <5>2 DEF Status
      <4> QED BY <4>1, <4>2
    <3>2. (draft' = Refreshed(draft, target')) \/ (draft' = draft /\ \E u \in Targets : Open(u))
      BY <2>2, <2>3
    <3> QED BY <2>1, <3>1, <3>2, DraftFollows
  <2>6. QuestionInv'
    <3>1. ASSUME NEW u \in Targets, Frozen(u)
          PROVE  /\ Frozen(u)' /\ target'[u].ext = target[u].ext
                 /\ \A k \in Kinds : job[u][k].status = "verification_required" => job'[u][k].status = "verification_required"
      <4>1. u # t
        BY <2>3, <3>1 DEF Open, Frozen, Status
      <4> QED BY <2>2, <2>3, <3>1, <4>1 DEF SameLine, SameRows, Frozen, Status
    <3> QED BY <2>1, <2>2, <3>1, QuestionsStay
  <2> QED BY <2>4, <2>5, <2>6 DEF RowsInv
<1> QED BY <1>1, <1>2 DEF Ends

\* A step that only moves one attempt on.
LEMMA MovedKeep ==
  ASSUME RowsInv, Typed', NEW w \in Workers, NEW t \in Targets, NEW kind \in Kinds, On(w, t, kind),
         UNCHANGED <<route, draft, target, job, fence, due, past, soon, recon, asking>>,
         \A v \in Workers : v # w => attempt'[v] = attempt[v],
         attempt'[w].t = t, attempt'[w].kind = kind, AttemptOf(w, t)'
  PROVE  RowsInv'
<1>1. ASSUME NEW u \in Targets, u # t PROVE Line(u)'
  <2>1. SameLine(u)
    BY <1>1 DEF SameLine, SameRows
  <2> QED BY <2>1, SameLineKept DEF RowsInv
<1>2. Line(t)'
  <2>1. Flow(t)'
    BY DEF RowsInv, Line, Flow
  <2>2. ASSUME NEW v \in Workers PROVE AttemptOf(v, t)'
    <3>1. CASE v = w
      BY <3>1
    <3>2. CASE v # w
      <4>1. AttemptOf(v, t)
        BY DEF RowsInv, Line
      <4> QED BY <3>2, <4>1 DEF AttemptOf, IdleWorker, Owns, Status, Frozen, Solo
    <3> QED BY <3>1, <3>2
  <2>3. ASSUME NEW v \in Workers, NEW u \in Workers, NEW k \in Kinds, On(v, t, k)', On(u, t, k)',
               Solo(t, k)'
        PROVE  v = u
    <3>1. On(v, t, k) /\ On(u, t, k) /\ Solo(t, k)
      BY <2>3 DEF On, IdleWorker, Solo
    <3> QED BY <3>1 DEF RowsInv, Line
  <2> QED BY <2>1, <2>2, <2>3 DEF Line
<1>3. DraftInv' /\ SourceKept' /\ QuestionInv'
  BY DEF RowsInv, DraftInv, SourceKept, QuestionInv, ReconFacts, AskFacts, Status, Open, Frozen, Subject,
     StatusesOf, Present
<1> QED BY <1>1, <1>2, <1>3 DEF RowsInv

LEMMA MovesKeep ==
  ASSUME RowsInv, Typed', NEW w \in Workers, NEW t \in Targets, NEW kind \in Kinds, On(w, t, kind),
         \/ ExecuteCall(w) \/ Reaches(w) \/ (ContainerFinished(w) /\ Holds(w)) \/ (Uploaded(w) /\ ~Holds(w))
  PROVE  RowsInv'
<1> DEFINE a == attempt[w]
           b == attempt'[w]
<1>0. /\ AttemptOf(w, t) /\ ~IdleWorker(w) /\ a.t = t /\ a.kind = kind /\ (Holds(w) <=> Owns(w, t, kind))
      /\ a \in Attempt /\ attempt \in [Workers -> Attempt \cup {Idle}]
  BY AttemptFacts, AttemptType DEF RowsInv, Typed, TypeOK
<1>1. /\ UNCHANGED <<route, draft, target, job, fence, due, past, soon, recon, asking>>
      /\ \A v \in Workers : v # w => attempt'[v] = attempt[v]
  BY <1>0 DEF ExecuteCall, Reaches, ContainerFinished, Uploaded, Complete, rows, clock
<1>2. /\ b.t = t /\ b.kind = kind /\ b.fence = a.fence
      /\ \/ /\ ExecuteCall(w) /\ b.pc = CallOf(t, kind) /\ CallOf(t, kind) # "none" /\ ~draft.pruned
            /\ a.pc = "claimed" /\ b.made = a.made
         \/ /\ b.pc = a.pc /\ a.pc \in {"upload", "container", "send", "publish"}
         \/ /\ a.pc = "ready" /\ b.pc = "publish" /\ b.made = a.made
         \/ /\ a.pc = "upload" /\ b.pc = "hold" /\ ~Owns(w, t, kind) /\ b.made = a.made /\ a.made # 0
  <2>1. CASE ExecuteCall(w)
    <3>1. b = [a EXCEPT !.pc = CallOf(t, kind), !.ext = target[t].ext]
      BY <1>0, <2>1 DEF ExecuteCall
    <3> HIDE DEF b
    <3> QED BY <1>0, <2>1, <3>1 DEF ExecuteCall, Executable, At, Attempt
  <2>2. CASE Reaches(w)
    <3>1. PICK id \in ObjectIds : attempt' = [attempt EXCEPT ![w].made = id]
      BY <2>2 DEF Reaches
    <3>2. b = [a EXCEPT !.made = id]
      BY <1>0, <3>1
    <3> HIDE DEF b
    <3> QED BY <1>0, <2>2, <3>2 DEF Reaches, At, Attempt
  <2>3. CASE ContainerFinished(w) /\ Holds(w)
    <3>1. b = [a EXCEPT !.pc = "publish"]
      BY <1>0, <2>3 DEF ContainerFinished
    <3> HIDE DEF b
    <3> QED BY <1>0, <2>3, <3>1 DEF ContainerFinished, At, Attempt
  <2>4. CASE Uploaded(w) /\ ~Holds(w)
    <3>1. b = [a EXCEPT !.pc = "hold"]
      BY <1>0, <2>4 DEF Uploaded
    <3> HIDE DEF b
    <3> QED BY <1>0, <2>4, <3>1 DEF Uploaded, At, Attempt
  <2> QED BY <2>1, <2>2, <2>3, <2>4
<1>3. ~IdleWorker(w)' \/ IdleWorker(w)'
  OBVIOUS
<1>4. (Owns(w, t, kind)' <=> Owns(w, t, kind)) /\ (Frozen(t)' <=> Frozen(t)) /\ (Solo(t, kind)' <=> Solo(t, kind))
      /\ route'[t] = route[t] /\ target'[t] = target[t] /\ fence'[t] = fence[t] /\ draft' = draft
  BY <1>1 DEF Owns, Frozen, Status, Solo
<1>5. AttemptOf(w, t)'
  <2>1. CASE ExecuteCall(w) /\ b.pc = CallOf(t, kind) /\ CallOf(t, kind) # "none" /\ ~draft.pruned
             /\ a.pc = "claimed" /\ b.made = a.made
    <3>1. /\ b.pc = "upload" => kind = "prepare" /\ route[t] = "youtube"
          /\ b.pc = "container" => kind = "prepare" /\ route[t] = "native"
          /\ b.pc = "send" => kind = "publish" /\ route[t] = "zernio"
          /\ b.pc = "ready" => kind = "publish" /\ route[t] = "native"
          /\ b.pc \notin {"claimed", "publish", "hold"}
      BY <2>1 DEF CallOf
    <3> QED BY <1>0, <1>2, <1>4, <2>1, <3>1 DEF AttemptOf, Status
  <2>2. CASE b.pc = a.pc /\ a.pc \in {"upload", "container", "send", "publish"}
    BY <1>0, <1>2, <1>4, <2>2 DEF AttemptOf, Status
  <2>3. CASE a.pc = "ready" /\ b.pc = "publish" /\ b.made = a.made
    BY <1>0, <1>2, <1>4, <2>3 DEF AttemptOf, Status
  <2>4. CASE a.pc = "upload" /\ b.pc = "hold" /\ ~Owns(w, t, kind) /\ b.made = a.made /\ a.made # 0
    BY <1>0, <1>2, <1>4, <2>4 DEF AttemptOf, Status, Solo
  <2> QED BY <1>2, <2>1, <2>2, <2>3, <2>4
<1> QED BY <1>1, <1>2, <1>5, MovedKeep

LEMMA ClaimKeeps ==
  ASSUME RowsInv, InOrder, Typed', NEW w \in Workers, NEW t \in Targets, NEW kind \in Kinds, Claim(w, t, kind)
  PROVE  RowsInv'
<1> DEFINE o == Other(kind)
<1>0. /\ Typed /\ Line(t) /\ Flow(t) /\ o \in Kinds /\ o # kind /\ "prepare" \in Kinds /\ "publish" \in Kinds
      /\ kind = "prepare" \/ kind = "publish"
      /\ job[t][kind] \in JobRow /\ fence[t] \in 0 .. MaxObjects
  BY RowsOf DEF RowsInv, Line, Other, Kinds, Typed, TypeOK
<1>1. UNCHANGED <<route, draft, target, fence, due, past, soon, recon, asking>>
  BY DEF Claim, clock
<1>2. /\ \A u \in Targets : u # t => job'[u] = job[u]
      /\ job'[t][o] = job[t][o] /\ job'[t][kind].status = "running" /\ job'[t][kind].lockedBy = w
      /\ job[t][kind].status = "queued"
      /\ kind = "publish" => due[t] /\ job[t]["prepare"].status = "completed"
  BY <1>0 DEF Claim, InOrder, Typed, TypeOK, JobRow
<1>3. /\ attempt'[w] = [pc |-> "claimed", t |-> t, kind |-> kind, ext |-> 0, fence |-> fence[t], made |-> 0]
      /\ \A v \in Workers : v # w => attempt'[v] = attempt[v]
      /\ IdleWorker(w)
  BY <1>0 DEF Claim, Typed, TypeOK
<1>4. target[t].status \notin {"absent", "editing"} /\ Open(t) /\ fence[t] # 0
  BY <1>0, <1>2 DEF Flow, FlowOf, Open, Status
<1>5. ASSUME NEW u \in Targets, u # t PROVE Line(u)'
  <2>1. SameLine(u)
    BY <1>1, <1>2, <1>3, <1>5 DEF SameLine, SameRows
  <2> QED BY <2>1, SameLineKept DEF RowsInv
<1>6. Flow(t)'
  <2>1. CASE kind = "prepare"
    BY <1>0, <1>1, <1>2, <2>1 DEF Flow, FlowOf, Other
  <2>2. CASE kind = "publish"
    BY <1>0, <1>1, <1>2, <2>2 DEF Flow, FlowOf, Other
  <2> QED BY <1>0, <2>1, <2>2
<1>7. ASSUME NEW v \in Workers, v # w, ~IdleWorker(v), attempt[v].t = t
      PROVE  attempt[v].kind \in Kinds /\ AttemptOf(v, t)'
             /\ (Solo(t, attempt[v].kind) => FALSE)
  <2> DEFINE k == attempt[v].kind
  <2>1. k \in Kinds /\ AttemptOf(v, t)
    BY <1>0, <1>7, AttemptType DEF Typed, Line
  <2>2. attempt'[v] = attempt[v]
    BY <1>3, <1>7
  <2>3. Owns(v, t, k)' <=> Owns(v, t, k)
    <3>1. CASE k = kind
      BY <1>2, <1>7, <2>2, <3>1 DEF Owns
    <3>2. CASE k = o
      BY <1>2, <2>2, <3>2 DEF Owns
    <3> QED BY <1>0, <2>1, <3>1, <3>2 DEF Kinds
  <2>4. ~Solo(t, k)
    <3>1. Owns(v, t, k) \/ ~Solo(t, k)
      BY <1>4, <1>7, <2>1 DEF AttemptOf, Frozen, Open, Status
    <3>2. Owns(v, t, k) /\ Solo(t, k) => FALSE
      <4>1. job[t][kind].status = "queued" /\ (kind = "publish" => job[t]["prepare"].status = "completed")
        BY <1>2
      <4> QED BY <1>0, <2>1, <4>1 DEF Owns, Flow, FlowOf, Kinds, Solo
    <3> QED BY <3>1, <3>2
  <2>5. attempt'[v] = attempt[v] /\ target'[t] = target[t] /\ route'[t] = route[t] /\ fence'[t] = fence[t] /\ draft' = draft
    BY <1>1, <1>3, <1>7
  <2>6. AttemptOf(v, t)'
    BY <1>7, <2>1, <2>3, <2>5 DEF AttemptOf, IdleWorker, Status, Frozen, Solo
  <2> QED BY <2>1, <2>4, <2>6
<1>8. AttemptOf(w, t)'
  <2>1. Owns(w, t, kind)'
    BY <1>2 DEF Owns
  <2>2. kind = "prepare" /\ route[t] = "youtube" => target[t].ext = 0
    BY <1>0, <1>2 DEF Flow, FlowOf
  <2> QED BY <1>0, <1>1, <1>3, <1>4, <2>1, <2>2 DEF AttemptOf, Status, Solo
<1>9. ASSUME NEW v \in Workers PROVE AttemptOf(v, t)'
  BY <1>3, <1>7, <1>8 DEF AttemptOf, IdleWorker
<1>10. ASSUME NEW v \in Workers, NEW u \in Workers, NEW k \in Kinds, On(v, t, k)', On(u, t, k)', Solo(t, k)'
       PROVE  v = u
  <2>1. Solo(t, k)
    BY <1>1, <1>10 DEF Solo
  <2>2. v = w /\ u = w
    BY <1>3, <1>7, <1>10, <2>1 DEF On, IdleWorker
  <2> QED BY <2>2
<1>11. Line(t)'
  BY <1>6, <1>9, <1>10 DEF Line
<1>12. DraftInv' /\ SourceKept'
  BY <1>1 DEF RowsInv, DraftInv, SourceKept, Status, Open, StatusesOf, Present
<1>13. QuestionInv'
  <2>1. ASSUME NEW u \in Targets, Frozen(u)
        PROVE  /\ Frozen(u)' /\ target'[u].ext = target[u].ext
               /\ \A k \in Kinds : job[u][k].status = "verification_required" => job'[u][k].status = "verification_required"
    BY <1>0, <1>1, <1>2, <2>1 DEF Frozen, Status, Kinds
  <2> QED BY <1>1, <2>1, QuestionsStay DEF RowsInv
<1> QED BY <1>5, <1>11, <1>12, <1>13 DEF RowsInv

\* A step that changes no row: at most attempts end, or a question moves on.
LEMMA StillKeep ==
  ASSUME RowsInv, Typed', UNCHANGED <<route, draft, target, job, fence, due, past, soon>>,
         \A v \in Workers : attempt'[v] = attempt[v] \/ IdleWorker(v)', QuestionInv'
  PROVE  RowsInv'
<1>1. ASSUME NEW u \in Targets PROVE Line(u)'
  <2>1. SameLine(u)
    BY DEF SameLine, SameRows
  <2> QED BY <2>1, SameLineKept DEF RowsInv
<1>2. DraftInv' /\ SourceKept'
  BY DEF RowsInv, DraftInv, SourceKept, Status, Open, StatusesOf, Present
<1> QED BY <1>1, <1>2 DEF RowsInv

\* A step that writes a target's row and jobs while no attempt moves.
LEMMA LineWritten ==
  ASSUME Typed, Typed', NEW t \in Targets, Line(t), attempt' = attempt, route' = route,
         draft'.pruned = draft.pruned, Flow(t)', fence[t] <= fence'[t],
         \A v \in Workers, k \in Kinds : On(v, t, k) =>
           /\ target'[t].status \notin {"absent", "editing"}
           /\ Owns(v, t, k)' => Owns(v, t, k) /\ fence'[t] = fence[t]
           /\ Solo(t, k) => (Owns(v, t, k)' \/ Frozen(t)') /\ target'[t].ext = target[t].ext
  PROVE  Line(t)'
<1>1. ASSUME NEW v \in Workers, ~IdleWorker(v), attempt[v].t = t PROVE AttemptOf(v, t)'
  <2>0. attempt[v].kind \in Kinds
    BY <1>1, AttemptType DEF Typed
  <2> DEFINE a == attempt[v]
  <2>1. PICK k \in Kinds : a.kind = k
    BY <2>0
  <2>2. On(v, t, k) /\ AttemptOf(v, t)
    BY <1>1, <2>1 DEF On, Line
  <2>3. a.fence \in Nat /\ fence[t] \in Nat /\ fence'[t] \in Nat
    BY <1>1, AttemptType DEF Typed, TypeOK
  <2>4. /\ target'[t].status \notin {"absent", "editing"}
        /\ Owns(v, t, k)' => Owns(v, t, k) /\ fence'[t] = fence[t]
        /\ Solo(t, k) => (Owns(v, t, k)' \/ Frozen(t)') /\ target'[t].ext = target[t].ext
    BY <2>2
  <2>5. a.pc = "hold" => Frozen(t)'
    <3>1. a.pc = "hold" => Frozen(t) /\ Solo(t, k)
      BY <1>1, <2>1, <2>2 DEF AttemptOf, Solo
    <3>2. Frozen(t) => ~Owns(v, t, k)
      BY <2>2, AttemptFacts DEF Frozen, Open, Status
    <3> QED BY <2>4, <3>1, <3>2
  <2>6. attempt'[v] = a
    OBVIOUS
  <2>7. Owns(v, t, attempt[v].kind)' <=> Owns(v, t, k)'
    BY <2>1, <2>6 DEF Owns
  <2> QED BY <1>1, <2>1, <2>2, <2>3, <2>4, <2>5, <2>6, <2>7 DEF AttemptOf, Status, Solo, Owns
<1>2. ASSUME NEW v \in Workers PROVE AttemptOf(v, t)'
  BY <1>1 DEF AttemptOf, IdleWorker
<1>3. ASSUME NEW v \in Workers, NEW u \in Workers, NEW k \in Kinds, On(v, t, k)', On(u, t, k)', Solo(t, k)'
      PROVE  v = u
  <2>1. On(v, t, k) /\ On(u, t, k) /\ Solo(t, k)
    BY <1>3 DEF On, IdleWorker, Solo
  <2> QED BY <2>1 DEF Line
<1> QED BY <1>2, <1>3 DEF Line

\* What the platforms and the clock do, and what is asked and dropped.
LEMMA PlatformKeeps ==
  ASSUME RowsInv, Typed',
         \/ \E t \in Targets, k \in ObjectIds : GoesPublic(t, k) \/ RefusedByPlatform(t, k)
         \/ AskAnswers \/ AnswerDropped \/ ReconAnswers
         \/ \E t \in Targets : AskBeforeRetry(t) \/ Settle(t)
         \/ \E t \in Targets, k \in ObjectIds, answered \in BOOLEAN : Hold(t, k, answered)
         \/ Crash
  PROVE  RowsInv'
<1>1. UNCHANGED <<route, draft, target, job, fence, due, past, soon>>
  BY DEF GoesPublic, RefusedByPlatform, AskAnswers, AnswerDropped, ReconAnswers, AskBeforeRetry, Settle,
     Hold, Crash, rows, clock
<1>2. \A v \in Workers : attempt'[v] = attempt[v] \/ IdleWorker(v)'
  BY DEF GoesPublic, RefusedByPlatform, AskAnswers, AnswerDropped, ReconAnswers, AskBeforeRetry, Settle,
     Hold, Crash, actors, IdleWorker
<1>3. \/ recon' = recon \/ recon' = Idle
      \/ /\ recon \in Question /\ recon' \in Question /\ recon'.t = recon.t /\ recon'.kind = recon.kind
         /\ recon'.ext = recon.ext /\ recon'.prov = recon.prov /\ Subject # 0
  <2>1. CASE ReconAnswers
    <3>1. recon \in Question
      BY <2>1 DEF ReconAnswers, RowsInv, Typed, TypeOK
    <3>2. recon' = [recon EXCEPT !.seen = object[recon.t][Subject]] /\ Subject # 0 /\ recon' # Idle
      BY <2>1, <3>1 DEF ReconAnswers, Question, Idle
    <3>3. recon' \in Question
      BY <3>2 DEF Typed, TypeOK
    <3> QED BY <3>1, <3>2, <3>3 DEF Question
  <2>2. CASE ~ReconAnswers
    BY <2>2 DEF GoesPublic, RefusedByPlatform, AskAnswers, AnswerDropped, AskBeforeRetry, Settle, Hold,
       Crash, actors
  <2> QED BY <2>1, <2>2
<1>4. \/ asking' = asking \/ asking' = Idle
      \/ asking # Idle /\ asking'.t = asking.t /\ asking'.status = asking.status
      \/ route[asking'.t] = "zernio" /\ asking'.status \in {"failed", "verification_required", "published"}
  <2>1. CASE AskAnswers
    <3>1. asking \in Command /\ asking # Idle
      BY <2>1 DEF AskAnswers, RowsInv, Typed, TypeOK
    <3> QED BY <2>1, <3>1 DEF AskAnswers, Command
  <2>2. ASSUME NEW t \in Targets, AskBeforeRetry(t) \/ Settle(t) 
        PROVE  route[asking'.t] = "zernio" /\ asking'.status \in {"failed", "verification_required", "published"}
    BY <2>2 DEF AskBeforeRetry, Settle, Ask, Askable
  <2>3. CASE ~AskAnswers /\ ~\E t \in Targets : AskBeforeRetry(t) \/ Settle(t)
    BY <2>3 DEF GoesPublic, RefusedByPlatform, AnswerDropped, ReconAnswers, Hold, Crash, actors
  <2> QED BY <2>1, <2>2, <2>3
<1>5. QuestionInv'
  <2>1. QuestionInv
    BY DEF RowsInv
  <2>2. recon' = recon \/ recon' = Idle => ReconFacts'
    BY <1>1, <2>1 DEF QuestionInv, ReconFacts, AskFacts, Frozen, Status, Subject
  <2>3. recon \in Question /\ recon' \in Question /\ recon'.t = recon.t /\ recon'.kind = recon.kind
         /\ recon'.ext = recon.ext /\ recon'.prov = recon.prov /\ Subject # 0 => ReconFacts'
    <3> SUFFICES ASSUME recon \in Question, recon' \in Question, recon'.t = recon.t, recon'.kind = recon.kind,
                        recon'.ext = recon.ext, recon'.prov = recon.prov, Subject # 0
                 PROVE ReconFacts'
      OBVIOUS
    <3>1. recon # Idle
      BY DEF Question, Idle
    <3> QED BY <1>1, <2>1, <3>1 DEF QuestionInv, ReconFacts, AskFacts, Frozen, Status, Subject
  <2>4. AskFacts'
    BY <1>1, <1>4, <2>1 DEF QuestionInv, ReconFacts, AskFacts
  <2> QED BY <1>3, <2>2, <2>3, <2>4 DEF QuestionInv, ReconFacts, AskFacts
<1> QED BY <1>1, <1>2, <1>5, StillKeep

LEMMA ClockKeeps ==
  ASSUME RowsInv, Typed', NEW t \in Targets, TimePasses(t) \/ RetryDue(t)
  PROVE  RowsInv'
<1>1. UNCHANGED <<route, draft, target, job, fence, attempt, recon, asking>>
      /\ soon' = soon /\ (past[t] => past'[t]) /\ (due'[t] => due[t] \/ past'[t] \/ soon[t])
      /\ \A u \in Targets : u # t => due'[u] = due[u] /\ past'[u] = past[u]
  BY DEF TimePasses, RetryDue, rows, actors, RowsInv, Typed, TypeOK
<1>2. ASSUME NEW u \in Targets, u # t PROVE Line(u)'
  <2>1. SameLine(u)
    BY <1>1, <1>2 DEF SameLine, SameRows
  <2> QED BY <2>1, SameLineKept DEF RowsInv
<1>3. Line(t)'
  <2>1. Flow(t)'
    BY <1>1 DEF RowsInv, Line, Flow, FlowOf
  <2>2. fence[t] <= fence'[t]
    BY <1>1 DEF RowsInv, Typed, TypeOK
  <2>3. ASSUME NEW v \in Workers, NEW k \in Kinds, On(v, t, k)
        PROVE /\ target'[t].status \notin {"absent", "editing"}
              /\ Owns(v, t, k)' => Owns(v, t, k) /\ fence'[t] = fence[t]
              /\ Solo(t, k) => (Owns(v, t, k)' \/ Frozen(t)') /\ target'[t].ext = target[t].ext
    BY <1>1, <2>3 DEF RowsInv, Line, AttemptOf, On, Owns, Frozen, Status
  <2> QED BY <1>1, <2>1, <2>2, <2>3, LineWritten DEF RowsInv
<1>4. DraftInv' /\ SourceKept' /\ QuestionInv'
  BY <1>1 DEF RowsInv, DraftInv, SourceKept, QuestionInv, ReconFacts, AskFacts, Status, Open, StatusesOf,
     Present, Frozen, Subject
<1> QED BY <1>2, <1>3, <1>4 DEF RowsInv

\* recoverVideoLocks
LEMMA RecoverKeeps ==
  ASSUME RowsInv, Typed', NEW t \in Targets, NEW kind \in Kinds, Recover(t, kind)
  PROVE  RowsInv'
<1> DEFINE o == Other(kind)
           doubt == MayHaveReachedAudience(kind, t)
           next == AfterFailure("unknown", job[t][kind].attempt)
           s == IF doubt THEN "verification_required" ELSE IF next = "queued" THEN "scheduled" ELSE "failed"
           n == IF doubt THEN "verification_required" ELSE next
<1>0. /\ Typed /\ Line(t) /\ Flow(t) /\ DraftInv /\ SourceKept /\ QuestionInv
      /\ o \in Kinds /\ o # kind /\ job[t][kind] \in JobRow /\ target[t] \in TargetRow
      /\ kind = "prepare" \/ kind = "publish"
  BY RowsOf DEF RowsInv, Line, Other, Kinds
<1>1. /\ UNCHANGED <<route, fence, due, past, soon, attempt, recon, asking>>
      /\ draft' = Refreshed(draft, target') /\ job[t][kind].status = "running"
      /\ target' = [target EXCEPT ![t].status = s]
      /\ job' = [job EXCEPT ![t][kind] = Spent(job[t][kind], n)]
  BY DEF Recover, clock, actors
<1>2. /\ \A u \in Targets : u # t => job'[u] = job[u]
      /\ job'[t][o] = job[t][o] /\ job'[t][kind].status = n
      /\ n \in {"verification_required", "queued", "failed"}
      /\ n = "verification_required" <=> doubt
      /\ s = IF doubt THEN "verification_required" ELSE IF n = "queued" THEN "scheduled" ELSE "failed"
  <2>1. n \in {"verification_required", "queued", "failed"} /\ (n = "verification_required" <=> doubt)
        /\ s = IF doubt THEN "verification_required" ELSE IF n = "queued" THEN "scheduled" ELSE "failed"
    BY FailureType
  <2> HIDE DEF n, s
  <2>2. Spent(job[t][kind], n).status = n
    BY <1>0 DEF Spent, Unlocked, JobRow
  <2> QED BY <1>0, <1>1, <2>1, <2>2 DEF Typed, TypeOK
<1>3. doubt <=> kind = "publish" \/ route[t] = "youtube"
  BY DEF MayHaveReachedAudience
<1> HIDE DEF n, s, doubt
<1>4. /\ target'[t].status = s /\ target'[t].ext = target[t].ext /\ target'[t].prov = target[t].prov
      /\ \A u \in Targets : u # t => target'[u] = target[u]
  BY <1>0, <1>1 DEF Typed, TypeOK, TargetRow
<1>5. draft'.pruned = draft.pruned
  BY <1>0, <1>1, RefreshedSays DEF Typed, TypeOK
<1>6. Open(t)
  BY <1>0, <1>1 DEF Flow, FlowOf, Open, Status
<1>7. ASSUME NEW u \in Targets, u # t PROVE Line(u)'
  <2>1. SameLine(u)
    BY <1>1, <1>2, <1>4, <1>5, <1>7 DEF SameLine, SameRows
  <2> QED BY <2>1, SameLineKept DEF RowsInv
<1>8. Flow(t)'
  <2>1. CASE kind = "prepare"
    BY <1>0, <1>1, <1>2, <1>3, <1>4, <2>1 DEF Flow, FlowOf, Other
  <2>2. CASE kind = "publish"
    BY <1>0, <1>1, <1>2, <1>3, <1>4, <2>2 DEF Flow, FlowOf, Other
  <2> QED BY <1>0, <2>1, <2>2
<1>9. Line(t)'
  <2>1. ASSUME NEW v \in Workers, NEW k \in Kinds, On(v, t, k)
        PROVE /\ target'[t].status \notin {"absent", "editing"}
              /\ Owns(v, t, k)' => Owns(v, t, k) /\ fence'[t] = fence[t]
              /\ Solo(t, k) => (Owns(v, t, k)' \/ Frozen(t)') /\ target'[t].ext = target[t].ext
    <3>1. target'[t].status \notin {"absent", "editing"}
      BY <1>2, <1>4
    <3>2. Owns(v, t, k)' => Owns(v, t, k) /\ fence'[t] = fence[t]
      <4>1. CASE k = kind
        BY <1>2, <4>1 DEF Owns
      <4>2. CASE k = o
        BY <1>1, <1>2, <4>2 DEF Owns
      <4> QED BY <1>0, <4>1, <4>2 DEF Kinds
    <3>3. Solo(t, k) => k = kind
      <4>1. Solo(t, k) => Owns(v, t, k)
        BY <1>0, <1>6, <2>1 DEF Line, AttemptOf, On, Open, Frozen, Status
      <4> QED BY <1>0, <1>1, <4>1 DEF Owns, Flow, FlowOf, Kinds
    <3>4. Solo(t, kind) => Frozen(t)'
      BY <1>2, <1>3, <1>4 DEF Solo, Frozen, Status
    <3> QED BY <1>4, <3>1, <3>2, <3>3, <3>4
  <2>2. fence[t] <= fence'[t]
    BY <1>0, <1>1 DEF Typed, TypeOK
  <2> QED BY <1>0, <1>1, <1>5, <1>8, <2>1, <2>2, LineWritten
<1>10. DraftInv' /\ SourceKept'
  <2>1. \A u \in Targets : draft.pruned /\ route'[u] = "youtube" => Status(u)' # "prepared"
    BY <1>0, <1>1, <1>2, <1>4 DEF DraftInv, Status
  <2> QED BY <1>0, <1>1, <2>1, DraftFollows
<1>11. QuestionInv'
  <2>1. ASSUME NEW u \in Targets, Frozen(u)
        PROVE  /\ Frozen(u)' /\ target'[u].ext = target[u].ext
               /\ \A k \in Kinds : job[u][k].status = "verification_required" => job'[u][k].status = "verification_required"
    <3>1. u # t
      BY <1>6, <2>1 DEF Open, Frozen, Status
    <3> QED BY <1>2, <1>4, <2>1, <3>1 DEF Frozen, Status
  <2> QED BY <1>0, <1>1, <2>1, QuestionsStay
<1> QED BY <1>7, <1>9, <1>10, <1>11 DEF RowsInv

\* A step that moves a lock of the sweep's only.
LEMMA SweepLockKeeps ==
  ASSUME RowsInv, Typed', UNCHANGED <<route, draft, target, fence, due, past, soon, attempt>>, QuestionInv',
         \A u \in Targets, k \in Kinds : job'[u][k].status = job[u][k].status
            /\ \A v \in Workers : Owns(v, u, k)' <=> Owns(v, u, k)
  PROVE  RowsInv'
<1>1. ASSUME NEW u \in Targets PROVE Line(u)'
  <2>1. Flow(u)'
    BY DEF RowsInv, Line, Flow, Kinds
  <2>2. fence[u] <= fence'[u]
    BY DEF RowsInv, Typed, TypeOK
  <2>3. ASSUME NEW v \in Workers, NEW k \in Kinds, On(v, u, k)
        PROVE /\ target'[u].status \notin {"absent", "editing"}
              /\ Owns(v, u, k)' => Owns(v, u, k) /\ fence'[u] = fence[u]
              /\ Solo(u, k) => (Owns(v, u, k)' \/ Frozen(u)') /\ target'[u].ext = target[u].ext
    BY <2>3 DEF RowsInv, Line, AttemptOf, On, Frozen, Status
  <2> QED BY <2>1, <2>2, <2>3, LineWritten DEF RowsInv
<1>2. DraftInv' /\ SourceKept'
  BY DEF RowsInv, DraftInv, SourceKept, Status, Open, StatusesOf, Present
<1> QED BY <1>1, <1>2 DEF RowsInv

\* A row in doubt gets another lock.
LEMMA DoubtLocked ==
  ASSUME Typed, NEW t \in Targets, NEW kind \in Kinds, job[t][kind].status = "verification_required",
         NEW row, row.status = "verification_required", job' = [job EXCEPT ![t][kind] = row]
  PROVE  \A u \in Targets, k \in Kinds : job'[u][k].status = job[u][k].status
            /\ \A v \in Workers : Owns(v, u, k)' <=> Owns(v, u, k)
  BY DEF Owns, Typed, TypeOK

LEMMA ReconMovesKeep ==
  ASSUME RowsInv, Typed', (\E t \in Targets, kind \in Kinds : ReconClaim(t, kind)) \/ ReconDefer
  PROVE  RowsInv'
<1>0. Typed /\ QuestionInv /\ \A t \in Targets : Flow(t)
  BY DEF RowsInv, Line
<1>1. ASSUME NEW t \in Targets, NEW kind \in Kinds, ReconClaim(t, kind) PROVE RowsInv'
  <2> DEFINE row == [job[t][kind] EXCEPT !.lockedBy = "recon"]
  <2>1. /\ UNCHANGED <<route, draft, target, fence, due, past, soon, attempt, asking>>
        /\ job[t][kind].status = "verification_required" /\ target[t].status = "verification_required"
        /\ recon' = [t |-> t, kind |-> kind, ext |-> target[t].ext, prov |-> target[t].prov, seen |-> "none"]
    BY <1>1 DEF ReconClaim, InDoubt, clock
  <2>2. job' = [job EXCEPT ![t][kind] = row]
    BY <1>0, <1>1 DEF ReconClaim, Typed, TypeOK
  <2>3. row.status = "verification_required"
    BY <1>0, <2>1, RowsOf DEF JobRow
  <2> HIDE DEF row
  <2>4. \A u \in Targets, k \in Kinds : job'[u][k].status = job[u][k].status
            /\ \A v \in Workers : Owns(v, u, k)' <=> Owns(v, u, k)
    BY <1>0, <2>1, <2>2, <2>3, DoubtLocked
  <2>5. ReconFacts'
    <3>1. kind = "prepare" => route[t] = "youtube"
      BY <1>0, <2>1 DEF Flow, FlowOf
    <3> QED BY <2>1, <2>4, <3>1 DEF ReconFacts, Frozen, Status
  <2>6. AskFacts'
    BY <1>0, <2>1 DEF QuestionInv, AskFacts
  <2> QED BY <2>1, <2>4, <2>5, <2>6, SweepLockKeeps DEF QuestionInv
<1>2. CASE ReconDefer
  <2> DEFINE t == recon.t
             row == [job[recon.t][recon.kind] EXCEPT !.lockedBy = "none", !.reconcile = @ + 1]
  <2>1. /\ UNCHANGED <<route, draft, target, fence, due, past, soon, attempt, asking>> /\ recon' = Idle
    BY <1>2 DEF ReconDefer, clock
  <2>2. recon.t \in Targets /\ recon.kind \in Kinds
    BY <1>0, <1>2 DEF ReconDefer, Typed, TypeOK, Question
  <2>3. ReconFacts' /\ AskFacts'
    BY <1>0, <2>1 DEF QuestionInv, ReconFacts, AskFacts
  <2>4. CASE job' = job
    BY <2>1, <2>3, <2>4, StillKeep DEF QuestionInv
  <2>5. CASE job' # job
    <3>1. job[recon.t][recon.kind].status = "verification_required"
          /\ job' = [job EXCEPT ![recon.t][recon.kind].lockedBy = "none", ![recon.t][recon.kind].reconcile = @ + 1]
      BY <1>2, <2>5 DEF ReconDefer, Asked
    <3>2. job' = [job EXCEPT ![recon.t][recon.kind] = row]
      <4>1. job \in [Targets -> [Kinds -> JobRow]] /\ job[recon.t][recon.kind] \in JobRow
        BY <1>0, <2>2 DEF Typed, TypeOK
      <4> QED BY <2>2, <3>1, <4>1 DEF JobRow
    <3>3. row.status = "verification_required"
      BY <1>0, <2>2, <3>1, RowsOf DEF JobRow
    <3> HIDE DEF row
    <3>4. \A u \in Targets, k \in Kinds : job'[u][k].status = job[u][k].status
            /\ \A v \in Workers : Owns(v, u, k)' <=> Owns(v, u, k)
      <4>1. PICK u \in Targets, k \in Kinds : u = recon.t /\ k = recon.kind
        BY <2>2
      <4>2. job[u][k].status = "verification_required" /\ job' = [job EXCEPT ![u][k] = row]
        BY <3>1, <3>2, <4>1
      <4> QED BY <1>0, <3>3, <4>2, DoubtLocked
    <3> QED BY <2>1, <2>3, <3>4, SweepLockKeeps DEF QuestionInv
  <2> QED BY <2>4, <2>5
<1> QED BY <1>1, <1>2

\* pruneExpiredVideos
LEMMA PruneKeeps ==
  ASSUME RowsInv, Typed', Prune
  PROVE  RowsInv'
<1>1. /\ UNCHANGED <<route, target, job, fence, due, past, soon, attempt, recon, asking>>
      /\ draft.status # "scheduled" /\ draft'.retention = FALSE /\ draft'.pruned
  BY DEF Prune, PrunableStatus, clock, actors
<1>2. \A u \in Targets : ~Open(u)
  BY <1>1 DEF RowsInv, DraftInv
<1>3. ASSUME NEW u \in Targets PROVE Line(u)'
  <2>1. Line(u) /\ Typed
    BY DEF RowsInv
  <2>2. Flow(u)'
    BY <1>1, <2>1 DEF Line, Flow
  <2>3. ASSUME NEW v \in Workers PROVE AttemptOf(v, u)'
    <3>1. AttemptOf(v, u)
      BY <2>1 DEF Line
    <3>2. CASE ~IdleWorker(v) /\ attempt[v].t = u
      <4>1. PICK k \in Kinds : attempt[v].kind = k
        BY <2>1, <3>2, AttemptType DEF Typed
      <4>2. ~Owns(v, u, k)
        BY <1>2, <2>1, <3>2, <4>1, AttemptFacts DEF On
      <4> QED BY <1>1, <3>1, <3>2, <4>1, <4>2 DEF AttemptOf, IdleWorker, Owns, Status, Frozen, Solo
    <3>3. CASE ~(~IdleWorker(v) /\ attempt[v].t = u)
      BY <1>1, <3>3 DEF AttemptOf, IdleWorker
    <3> QED BY <3>2, <3>3
  <2>4. ASSUME NEW v \in Workers, NEW w \in Workers, NEW k \in Kinds, On(v, u, k)', On(w, u, k)',
               Solo(u, k)'
        PROVE  v = w
    <3>1. On(v, u, k) /\ On(w, u, k) /\ Solo(u, k)
      BY <1>1, <2>4 DEF On, IdleWorker, Solo
    <3> QED BY <2>1, <3>1 DEF Line
  <2> QED BY <2>2, <2>3, <2>4 DEF Line
<1>4. DraftInv' /\ SourceKept' /\ QuestionInv'
  BY <1>1, <1>2 DEF RowsInv, DraftInv, SourceKept, QuestionInv, ReconFacts, AskFacts, Status, Open, Frozen,
     Subject
<1> QED BY <1>3, <1>4 DEF RowsInv

\* The sweep's confirmations are about publications: an upload in doubt has no id
\* to ask about, and an Instagram container no question.
LEMMA ConfirmIsPublish ==
  ASSUME RowsInv, recon # Idle, Confirmed
  PROVE  /\ recon.t \in Targets /\ recon.kind = "publish" /\ Subject # 0
         /\ route[recon.t] \in {"youtube", "zernio"}
         /\ job[recon.t]["prepare"].status # "verification_required"
         /\ route[recon.t] = "youtube" => Frozen(recon.t) /\ Subject = target[recon.t].ext
<1>1. Typed /\ ReconFacts /\ recon \in Question
  BY DEF RowsInv, QuestionInv, Typed, TypeOK
<1>2. recon.t \in Targets /\ recon.kind \in Kinds /\ recon.seen # "none"
  BY <1>1 DEF Question, Confirmed
<1>3. Flow(recon.t)
  BY <1>2 DEF RowsInv, Line
<1>4. Subject # 0 /\ (recon.kind = "prepare" => route[recon.t] = "youtube")
  BY <1>1, <1>2 DEF ReconFacts
<1>5. route[recon.t] \in {"youtube", "zernio"}
  BY <1>1, <1>2, <1>4 DEF Subject, Typed, TypeOK, AllRoutes
<1>6. CASE route[recon.t] = "youtube"
  <2>1. Frozen(recon.t) /\ Subject = target[recon.t].ext /\ job[recon.t][recon.kind].status = "verification_required"
    BY <1>1, <1>6 DEF ReconFacts, Subject
  <2>2. job[recon.t]["prepare"].status # "verification_required"
    BY <1>3, <1>4, <2>1 DEF Flow, FlowOf
  <2> QED BY <1>2, <1>4, <1>6, <2>1, <2>2 DEF Kinds
<1>7. CASE route[recon.t] = "zernio"
  BY <1>2, <1>3, <1>4, <1>7 DEF Flow, FlowOf, Kinds
<1> QED BY <1>5, <1>6, <1>7

\* completeReconciliation for a video, where it wrote anything.
LEMMA ConfirmWrites ==
  ASSUME RowsInv, ReconConfirm
  PROVE  /\ recon' = Idle /\ recon.t \in Targets /\ UNCHANGED <<route, fence, due, past, soon, attempt, asking>>
         /\ \/ UNCHANGED <<draft, target, job>>
            \/ /\ draft' = Refreshed(draft, target')
               /\ \A u \in Targets : u # recon.t => target'[u] = target[u] /\ job'[u] = job[u]
               /\ job[recon.t]["publish"].status = "verification_required"
               /\ job'[recon.t]["publish"].status = "completed" /\ job'[recon.t]["prepare"] = job[recon.t]["prepare"]
               /\ \/ target'[recon.t] = target[recon.t] /\ Status(recon.t) # "verification_required"
                  \/ /\ Status(recon.t) = "verification_required" /\ target'[recon.t].status = "published"
                     /\ target'[recon.t].ext = Subject /\ target'[recon.t].prov = target[recon.t].prov
<1>0. /\ Typed /\ recon.t \in Targets /\ recon.kind = "publish" /\ Subject # 0 /\ recon # Idle /\ Confirmed
      /\ job[recon.t]["prepare"].status # "verification_required"
  BY ConfirmIsPublish DEF ReconConfirm, RowsInv
<1>1. PICK t \in Targets : t = recon.t
  BY <1>0
<1>2. recon' = Idle /\ UNCHANGED <<route, fence, due, past, soon, attempt, asking>>
  BY DEF ReconConfirm, clock
<1>3. CASE ~\E k \in Kinds : Asked(job[t][k])
  <2>1. UNCHANGED <<draft, target, job>>
    BY <1>1, <1>3 DEF ReconConfirm
  <2> QED BY <1>0, <1>2, <2>1
<1>4. CASE \E k \in Kinds : Asked(job[t][k])
  <2> DEFINE new == [target[t] EXCEPT !.status = "published", !.ext = Subject]
  <2>1. /\ job' = [job EXCEPT ![t] = [k \in Kinds |-> IF Asked(job[t][k]) THEN Unlocked(job[t][k], "completed") ELSE job[t][k]]]
        /\ target' = IF target[t].status = "verification_required"
              THEN [target EXCEPT ![t].status = "published", ![t].ext = Subject] ELSE target
        /\ draft' = Refreshed(draft, target')
    BY <1>0, <1>1, <1>4 DEF ReconConfirm, Typed, TypeOK
  <2>2. Asked(job[t]["publish"]) /\ ~Asked(job[t]["prepare"]) /\ job[t]["publish"].status = "verification_required"
    BY <1>0, <1>1, <1>4 DEF Asked, Kinds
  <2>3. Unlocked(job[t]["publish"], "completed").status = "completed" /\ "publish" \in Kinds /\ "prepare" \in Kinds
    BY <1>0, RowsOf DEF Unlocked, JobRow, Kinds
  <2>4. /\ job'[t]["publish"].status = "completed" /\ job'[t]["prepare"] = job[t]["prepare"]
        /\ \A u \in Targets : u # t => job'[u] = job[u]
    BY <1>0, <2>1, <2>2, <2>3 DEF Typed, TypeOK
  <2>5. target \in [Targets -> TargetRow] /\ target[t] \in TargetRow
    BY <1>0 DEF Typed, TypeOK
  <2>6. new.status = "published" /\ new.ext = Subject /\ new.prov = target[t].prov
    BY <2>5 DEF TargetRow
  <2>7. CASE target[t].status = "verification_required"
    <3>1. target' = [target EXCEPT ![t] = new]
      BY <2>1, <2>5, <2>7
    <3> HIDE DEF new
    <3>2. target'[t] = new /\ \A u \in Targets : u # t => target'[u] = target[u]
      BY <2>5, <3>1
    <3> QED BY <1>1, <1>2, <2>1, <2>2, <2>4, <2>6, <2>7, <3>2 DEF Status
  <2>8. CASE target[t].status # "verification_required"
    BY <1>1, <1>2, <2>1, <2>2, <2>4, <2>8 DEF Status
  <2> QED BY <2>7, <2>8
<1> QED BY <1>1, <1>3, <1>4

LEMMA ConfirmKeeps ==
  ASSUME RowsInv, Typed', ReconConfirm
  PROVE  RowsInv'
<1>0. /\ Typed /\ recon # Idle /\ Confirmed /\ DraftInv /\ SourceKept /\ QuestionInv
      /\ recon' = Idle /\ recon.t \in Targets /\ UNCHANGED <<route, fence, due, past, soon, attempt, asking>>
  BY ConfirmWrites DEF RowsInv, ReconConfirm
<1>1. ReconFacts' /\ AskFacts'
  BY <1>0 DEF QuestionInv, ReconFacts, AskFacts
<1>2. CASE UNCHANGED <<draft, target, job>>
  BY <1>0, <1>1, <1>2, StillKeep DEF QuestionInv
<1>3. CASE ~UNCHANGED <<draft, target, job>>
  <2>1. PICK t \in Targets : t = recon.t
    BY <1>0
  <2>2. /\ draft' = Refreshed(draft, target')
        /\ \A u \in Targets : u # t => target'[u] = target[u] /\ job'[u] = job[u]
        /\ job[t]["publish"].status = "verification_required"
        /\ job'[t]["publish"].status = "completed" /\ job'[t]["prepare"] = job[t]["prepare"]
        /\ \/ target'[t] = target[t] /\ Status(t) # "verification_required"
           \/ /\ Status(t) = "verification_required" /\ target'[t].status = "published"
              /\ target'[t].ext = Subject /\ target'[t].prov = target[t].prov
    BY <1>3, <2>1, ConfirmWrites
  <2>3. /\ Line(t) /\ Subject # 0 /\ route[t] \in {"youtube", "zernio"}
        /\ job[t]["prepare"].status # "verification_required"
        /\ route[t] = "youtube" => Frozen(t) /\ Subject = target[t].ext
    BY <1>0, <2>1, ConfirmIsPublish DEF RowsInv
  <2>4. draft'.pruned = draft.pruned
    BY <1>0, <2>2, RefreshedSays DEF Typed, TypeOK
  <2>5. ASSUME NEW u \in Targets, u # t PROVE Line(u)'
    <3>1. SameLine(u)
      BY <1>0, <2>2, <2>4, <2>5 DEF SameLine, SameRows
    <3> QED BY <3>1, SameLineKept DEF RowsInv
  <2>6. Flow(t)'
    <3>1. Flow(t)
      BY <2>3 DEF Line
    <3> QED BY <1>0, <2>2, <2>3, <3>1 DEF Flow, FlowOf, Status, Frozen
  <2>7. Line(t)'
    <3>1. ASSUME NEW v \in Workers, NEW k \in Kinds, On(v, t, k)
          PROVE /\ target'[t].status \notin {"absent", "editing"}
                /\ Owns(v, t, k)' => Owns(v, t, k) /\ fence'[t] = fence[t]
                /\ Solo(t, k) => (Owns(v, t, k)' \/ Frozen(t)') /\ target'[t].ext = target[t].ext
      <4>1. AttemptOf(v, t) /\ ~IdleWorker(v) /\ attempt[v].t = t /\ attempt[v].kind = k
        BY <2>3, <3>1 DEF Line, On
      <4>2. ~Solo(t, k)
        BY <2>3, <4>1 DEF AttemptOf, Solo
      <4>3. target'[t].status \notin {"absent", "editing"}
        BY <2>2, <4>1 DEF AttemptOf, Status
      <4>4. Owns(v, t, k)' => Owns(v, t, k) /\ fence'[t] = fence[t]
        BY <1>0, <2>2 DEF Owns, Kinds
      <4> QED BY <4>2, <4>3, <4>4
    <3>2. fence[t] <= fence'[t]
      BY <1>0 DEF Typed, TypeOK
    <3> QED BY <1>0, <2>3, <2>4, <2>6, <3>1, <3>2, LineWritten
  <2>8. DraftInv' /\ SourceKept'
    <3>1. \A u \in Targets : draft.pruned /\ route'[u] = "youtube" => Status(u)' # "prepared"
      BY <1>0, <2>2 DEF DraftInv, Status
    <3> QED BY <1>0, <2>2, <3>1, DraftFollows
  <2> QED BY <1>1, <2>5, <2>7, <2>8 DEF RowsInv, QuestionInv
<1> QED BY <1>2, <1>3

\* replaceVideoTargets and removeVideoTarget: nothing is under way for what is
\* still being edited.
LEMMA EditingKeeps ==
  ASSUME RowsInv, Typed',
         (\E chosen \in SUBSET Targets : ChooseTargets(chosen)) \/ (\E t \in Targets : Remove(t))
  PROVE  RowsInv'
<1>0. Typed /\ DraftInv /\ SourceKept /\ ReconFacts /\ AskFacts /\ \A t \in Targets : Line(t) /\ Flow(t)
  BY DEF RowsInv, QuestionInv, Line
<1>1. PICK ts \in SUBSET Targets :
        /\ UNCHANGED <<route, fence, due, past, soon, attempt, recon, asking>>
        /\ \A t \in ts : /\ target[t].status \in {"absent", "editing"} /\ target'[t].status \in {"absent", "editing"}
                         /\ target'[t].ext = 0 /\ target'[t].prov = 0
                         /\ \A k \in Kinds : job'[t][k].status = "no_row"
        /\ \A t \in Targets \ ts : target'[t] = target[t] /\ job'[t] = job[t]
        /\ draft'.pruned = draft.pruned
        /\ \/ draft'.status = "editing" /\ ts = Targets
           \/ draft' = Refreshed(draft, target')
           \/ \A t \in Targets : target'[t].status = "absent"
  <2>1. ASSUME NEW chosen \in SUBSET Targets, ChooseTargets(chosen)
        PROVE /\ UNCHANGED <<route, fence, due, past, soon, attempt, recon, asking>>
              /\ \A t \in Targets : /\ target[t].status \in {"absent", "editing"} /\ target'[t].status \in {"absent", "editing"}
                         /\ target'[t].ext = 0 /\ target'[t].prov = 0
                         /\ \A k \in Kinds : job'[t][k].status = "no_row"
              /\ draft'.pruned = draft.pruned /\ draft'.status = "editing"
    <3>1. /\ UNCHANGED <<route, fence, due, past, soon, attempt, recon, asking>>
          /\ draft'.pruned = draft.pruned /\ draft'.status = "editing"
      BY <1>0, <2>1 DEF ChooseTargets, clock, actors, Typed, TypeOK, DraftRow
    <3>2. \A t \in Targets : target[t].status \in {"absent", "editing"}
      BY <2>1 DEF ChooseTargets
    <3>3. ASSUME NEW t \in Targets
          PROVE target'[t].status \in {"absent", "editing"} /\ target'[t].ext = 0 /\ target'[t].prov = 0
                /\ \A k \in Kinds : job'[t][k].status = "no_row"
      BY <2>1 DEF ChooseTargets, NoTarget, NoRow
    <3> QED BY <3>1, <3>2, <3>3
  <2>2. ASSUME NEW t \in Targets, Remove(t)
        PROVE /\ UNCHANGED <<route, fence, due, past, soon, attempt, recon, asking>>
              /\ target[t].status = "editing" /\ target'[t].status = "absent"
              /\ target'[t].ext = 0 /\ target'[t].prov = 0
              /\ \A k \in Kinds : job'[t][k].status = "no_row"
              /\ \A u \in Targets : u # t => target'[u] = target[u] /\ job'[u] = job[u]
              /\ draft'.pruned = draft.pruned
              /\ \/ draft' = Refreshed(draft, target')
                 \/ \A u \in Targets : target'[u].status = "absent"
    <3>1. UNCHANGED <<route, fence, due, past, soon, attempt, recon, asking>> /\ target[t].status = "editing"
      BY <2>2 DEF Remove, clock, actors
    <3>2. target' = [target EXCEPT ![t] = NoTarget] /\ job' = [job EXCEPT ![t] = [k \in Kinds |-> NoRow]]
      BY <2>2 DEF Remove
    <3>3. target'[t] = NoTarget /\ job'[t] = [k \in Kinds |-> NoRow]
          /\ \A u \in Targets : u # t => target'[u] = target[u] /\ job'[u] = job[u]
      BY <1>0, <3>2 DEF Typed, TypeOK
    <3>4. (draft' = Refreshed(draft, target')) \/ (Present(target') = {} /\ draft'.pruned = draft.pruned)
      BY <1>0, <2>2 DEF Remove, Typed, TypeOK, DraftRow
    <3>5. draft'.pruned = draft.pruned
      BY <1>0, <3>4, RefreshedSays DEF Typed, TypeOK
    <3>6. Present(target') = {} => \A u \in Targets : target'[u].status = "absent"
      BY DEF Present
    <3> QED BY <3>1, <3>3, <3>4, <3>5, <3>6 DEF NoTarget, NoRow
  <2>3. CASE \E chosen \in SUBSET Targets : ChooseTargets(chosen)
    <3>1. WITNESS Targets \in SUBSET Targets
    <3> QED BY <2>1, <2>3
  <2>4. ASSUME NEW t \in Targets, Remove(t)
        PROVE \E ts \in SUBSET Targets :
        /\ UNCHANGED <<route, fence, due, past, soon, attempt, recon, asking>>
        /\ \A u \in ts : /\ target[u].status \in {"absent", "editing"} /\ target'[u].status \in {"absent", "editing"}
                         /\ target'[u].ext = 0 /\ target'[u].prov = 0
                         /\ \A k \in Kinds : job'[u][k].status = "no_row"
        /\ \A u \in Targets \ ts : target'[u] = target[u] /\ job'[u] = job[u]
        /\ draft'.pruned = draft.pruned
        /\ \/ draft'.status = "editing" /\ ts = Targets
           \/ draft' = Refreshed(draft, target')
           \/ \A u \in Targets : target'[u].status = "absent"
    <3>1. WITNESS {t} \in SUBSET Targets
    <3> QED BY <2>2, <2>4
  <2> QED BY <2>3, <2>4
<1>2. ASSUME NEW t \in ts PROVE Line(t)'
  <2>1. fence[t] = 0 /\ t \in Targets /\ Line(t) /\ Typed
    BY <1>0, <1>1, <1>2 DEF Flow, FlowOf
  <2>2. Flow(t)'
    BY <1>0, <1>1, <1>2, <2>1 DEF Flow, FlowOf, Kinds
  <2>3. ASSUME NEW v \in Workers, NEW k \in Kinds, On(v, t, k) PROVE FALSE
    BY <1>1, <1>2, <2>1, <2>3 DEF Line, AttemptOf, On, Status
  <2>4. fence[t] <= fence'[t]
    BY <1>1, <2>1
  <2> QED BY <1>1, <2>1, <2>2, <2>3, <2>4, LineWritten
<1>3. ASSUME NEW t \in Targets \ ts PROVE Line(t)'
  <2>1. SameLine(t)
    BY <1>1, <1>3 DEF SameLine, SameRows
  <2> QED BY <1>0, <2>1, SameLineKept
<1>4. \A t \in Targets : (target'[t] = target[t] /\ job'[t] = job[t]) \/ (target[t].status \in {"absent", "editing"} /\ target'[t].status \in {"absent", "editing"})
  BY <1>1
<1>5. DraftInv' /\ SourceKept'
  <2>1. \A t \in Targets : draft.pruned /\ route'[t] = "youtube" => Status(t)' # "prepared"
    BY <1>0, <1>1, <1>4 DEF DraftInv, Status
  <2>2. CASE draft' = Refreshed(draft, target')
    BY <1>0, <2>1, <2>2, DraftFollows
  <2>3. CASE draft'.status = "editing" /\ ts = Targets
    BY <1>1, <2>1, <2>3 DEF DraftInv, SourceKept, Open, Status
  <2>4. CASE \A t \in Targets : target'[t].status = "absent"
    BY <1>1, <2>1, <2>4 DEF DraftInv, SourceKept, Open, Status, StatusesOf, Present
  <2> QED BY <1>1, <2>2, <2>3, <2>4
<1>6. QuestionInv'
  <2>1. \A u \in Targets : Frozen(u) => target'[u] = target[u] /\ job'[u] = job[u]
    BY <1>4 DEF Frozen, Status
  <2>2. \A u \in Targets : route[u] = "youtube" /\ Frozen(u) => Frozen(u)' /\ target'[u].ext = target[u].ext
            /\ \A k \in Kinds : job[u][k].status = "verification_required" => job'[u][k].status = "verification_required"
    BY <2>1 DEF Frozen, Status
  <2> QED BY <1>0, <1>1, <2>2, QuestionsStay DEF QuestionInv
<1> QED BY <1>2, <1>3, <1>5, <1>6 DEF RowsInv

\* insertVideoJob for both of a target's jobs.
LEMMA ArmWrites ==
  ASSUME Typed, NEW ts \in SUBSET Targets, NEW early \in BOOLEAN, Arm(ts, Kinds, early)
  PROVE  /\ \A t \in ts : /\ \A k \in Kinds : job[t][k].status # "running" /\ job'[t][k].status = "queued"
                          /\ fence'[t] = fence[t] + 1 /\ due'[t] = FALSE
         /\ \A t \in Targets \ ts : /\ job'[t] = job[t] /\ fence'[t] = fence[t]
                                    /\ due'[t] = due[t] /\ soon'[t] = soon[t]
<1>1. \A t \in Targets, k \in Kinds : Requeued(job[t][k]).status = "queued"
  BY RowsOf DEF Requeued, Unlocked, JobRow
<1>2. \A t \in Targets \ ts : job'[t] = job[t]
  <2>1. \A t \in Targets : job[t] \in [Kinds -> SweptRow]
    BY DEF Typed
  <2>2. \A t \in Targets \ ts : job'[t] = [k \in Kinds |-> job[t][k]]
    BY DEF Arm
  <2> QED BY <2>1, <2>2
<1> QED BY <1>1, <1>2 DEF Arm

\* A target whose jobs are armed again is nobody's, and no question is about an
\* upload of it.
LEMMA ArmedLine ==
  ASSUME RowsInv, Typed', NEW t \in Targets, UNCHANGED <<route, attempt>>, draft'.pruned = draft.pruned,
         \A k \in Kinds : job[t][k].status # "running" /\ job'[t][k].status = "queued",
         fence'[t] = fence[t] + 1, due'[t] = FALSE, target'[t].status = "scheduled",
         route[t] = "youtube" => target'[t].ext = 0,
         route[t] = "zernio" \/ ~Frozen(t)
  PROVE  Line(t)'
<1>0. Typed /\ Line(t) /\ fence[t] \in Nat
  BY DEF RowsInv, Typed, TypeOK
<1>1. Flow(t)'
  BY <1>0 DEF Flow, FlowOf, Kinds
<1>2. ASSUME NEW v \in Workers, NEW k \in Kinds, On(v, t, k)
      PROVE /\ target'[t].status \notin {"absent", "editing"}
            /\ Owns(v, t, k)' => Owns(v, t, k) /\ fence'[t] = fence[t]
            /\ Solo(t, k) => (Owns(v, t, k)' \/ Frozen(t)') /\ target'[t].ext = target[t].ext
  <2>1. ~Owns(v, t, k) /\ ~Owns(v, t, k)'
    BY DEF Owns
  <2>2. ~Solo(t, k)
    BY <1>0, <1>2, <2>1 DEF Line, AttemptOf, On, Solo
  <2> QED BY <2>1, <2>2
<1> QED BY <1>0, <1>1, <1>2, LineWritten

LEMMA ScheduleKeeps ==
  ASSUME RowsInv, Typed', NEW ts \in SUBSET Targets, Schedule(ts)
  PROVE  RowsInv'
<1>0. Typed /\ DraftInv /\ QuestionInv /\ \A t \in Targets : Line(t) /\ Flow(t)
  BY DEF RowsInv, Line
<1>1. /\ UNCHANGED <<route, attempt, recon, asking>> /\ Arm(ts, Kinds, FALSE)
      /\ draft'.status = "scheduled" /\ draft'.retention = FALSE /\ draft'.pruned = draft.pruned
  BY <1>0 DEF Schedule, actors, Typed, TypeOK, DraftRow
<1>2. /\ \A t \in ts : target[t].status \in Schedulable /\ target'[t].status = "scheduled" /\ target'[t].ext = target[t].ext
      /\ \A t \in Targets \ ts : target'[t] = target[t] /\ past'[t] = past[t]
  BY <1>0 DEF Schedule, Typed, TypeOK, TargetRow
<1>3. ASSUME NEW t \in ts PROVE Line(t)'
  <2>1. route[t] = "youtube" => target'[t].ext = 0
    BY <1>0, <1>2 DEF Flow, FlowOf, Schedulable
  <2>2. ~Frozen(t)
    BY <1>2 DEF Frozen, Status, Schedulable
  <2>3. /\ \A k \in Kinds : job[t][k].status # "running" /\ job'[t][k].status = "queued"
        /\ fence'[t] = fence[t] + 1 /\ due'[t] = FALSE
    BY <1>0, <1>1, ArmWrites
  <2> QED BY <1>1, <1>2, <2>1, <2>2, <2>3, ArmedLine
<1>4. ASSUME NEW t \in Targets \ ts PROVE Line(t)'
  <2>0. job'[t] = job[t] /\ fence'[t] = fence[t] /\ due'[t] = due[t] /\ soon'[t] = soon[t]
    BY <1>0, <1>1, <1>4, ArmWrites
  <2>1. SameLine(t)
    BY <1>1, <1>2, <1>4, <2>0 DEF SameLine, SameRows
  <2> QED BY <1>0, <2>1, SameLineKept
<1>5. DraftInv' /\ SourceKept'
  BY <1>0, <1>1, <1>2 DEF DraftInv, SourceKept, Status
<1>6. QuestionInv'
  <2>1. ASSUME NEW u \in Targets, Frozen(u) PROVE target'[u] = target[u] /\ job'[u] = job[u]
    <3>1. u \in Targets \ ts
      BY <1>2, <2>1 DEF Frozen, Status, Schedulable
    <3> QED BY <1>0, <1>1, <1>2, <3>1, ArmWrites
  <2>2. \A u \in Targets : route[u] = "youtube" /\ Frozen(u) => Frozen(u)' /\ target'[u].ext = target[u].ext
            /\ \A k \in Kinds : job[u][k].status = "verification_required" => job'[u][k].status = "verification_required"
    BY <2>1 DEF Frozen, Status
  <2> QED BY <1>0, <1>1, <2>2, QuestionsStay
<1> QED BY <1>3, <1>4, <1>5, <1>6 DEF RowsInv

\* retryVideoTarget's transaction, for a row with nothing to continue from.
LEMMA RetryWrites ==
  ASSUME Typed, NEW t \in Targets, NEW tg \in TargetRow, RetryWrite(t, tg), route[t] = "youtube" => tg.ext = 0
  PROVE  /\ \A k \in Kinds : job[t][k].status # "running" /\ job'[t][k].status = "queued"
         /\ fence'[t] = fence[t] + 1 /\ due'[t] = FALSE
         /\ target'[t].status = "scheduled" /\ target'[t].ext = 0 /\ target'[t].prov = tg.prov
         /\ \A u \in Targets : u # t => /\ job'[u] = job[u] /\ fence'[u] = fence[u] /\ due'[u] = due[u] /\ soon'[u] = soon[u]
                                        /\ target'[u] = target[u]
         /\ draft'.status = "scheduled" /\ draft'.retention = FALSE /\ draft'.pruned = draft.pruned
<1>1. Arm({t}, Kinds, TRUE)
  BY DEF RetryWrite
<1>2. target' = [target EXCEPT ![t] = [tg EXCEPT !.status = "scheduled", !.ext = 0]]
      /\ draft' = [draft EXCEPT !.status = "scheduled", !.retention = FALSE]
  BY DEF RetryWrite
<1>3. LET r == [tg EXCEPT !.status = "scheduled", !.ext = 0] IN r.status = "scheduled" /\ r.ext = 0 /\ r.prov = tg.prov
  BY DEF TargetRow
<1>4. target \in [Targets -> TargetRow] /\ draft \in DraftRow
  BY DEF Typed, TypeOK
<1>5. target'[t] = [tg EXCEPT !.status = "scheduled", !.ext = 0] /\ \A u \in Targets : u # t => target'[u] = target[u]
  BY <1>2, <1>4
<1>6. draft'.status = "scheduled" /\ draft'.retention = FALSE /\ draft'.pruned = draft.pruned
  BY <1>2, <1>4 DEF DraftRow
<1>7. /\ \A k \in Kinds : job[t][k].status # "running" /\ job'[t][k].status = "queued"
      /\ fence'[t] = fence[t] + 1 /\ due'[t] = FALSE
      /\ \A u \in Targets : u # t => job'[u] = job[u] /\ fence'[u] = fence[u] /\ due'[u] = due[u] /\ soon'[u] = soon[u]
  <2>1. {t} \in SUBSET Targets /\ t \in {t} /\ \A u \in Targets : u # t => u \in Targets \ {t}
    OBVIOUS
  <2> QED BY <1>1, <2>1, ArmWrites
<1> QED BY <1>3, <1>5, <1>6, <1>7

LEMMA RetriedKeep ==
  ASSUME RowsInv, Typed', NEW t \in Targets, NEW tg \in TargetRow, RetryWrite(t, tg),
         UNCHANGED <<route, past, attempt, recon>>, asking' = asking \/ asking' = Idle,
         route[t] = "youtube" => tg.ext = 0, route[t] = "zernio" \/ ~Frozen(t)
  PROVE  RowsInv'
<1>0. Typed /\ DraftInv /\ QuestionInv /\ \A u \in Targets : Line(u)
  BY DEF RowsInv
<1>1. /\ \A k \in Kinds : job[t][k].status # "running" /\ job'[t][k].status = "queued"
      /\ fence'[t] = fence[t] + 1 /\ due'[t] = FALSE
      /\ target'[t].status = "scheduled" /\ target'[t].ext = 0
      /\ \A u \in Targets : u # t => /\ job'[u] = job[u] /\ fence'[u] = fence[u] /\ due'[u] = due[u] /\ soon'[u] = soon[u]
                                     /\ target'[u] = target[u]
      /\ draft'.status = "scheduled" /\ draft'.retention = FALSE /\ draft'.pruned = draft.pruned
  BY <1>0, RetryWrites
<1>2. Line(t)'
  BY <1>1, ArmedLine
<1>3. ASSUME NEW u \in Targets, u # t PROVE Line(u)'
  <2>1. SameLine(u)
    BY <1>1, <1>3 DEF SameLine, SameRows
  <2> QED BY <1>0, <2>1, SameLineKept
<1>4. DraftInv' /\ SourceKept'
  BY <1>0, <1>1 DEF DraftInv, SourceKept, Status
<1>5. ReconFacts'
  <2>1. recon # Idle => recon.t \in Targets /\ recon.kind \in Kinds
    BY <1>0 DEF Typed, TypeOK, Question
  <2>2. \A u \in Targets : route[u] = "youtube" /\ Frozen(u) => target'[u] = target[u] /\ job'[u] = job[u]
    BY <1>1
  <2> QED BY <1>0, <2>1, <2>2 DEF QuestionInv, ReconFacts, Frozen, Status, Subject
<1>6. AskFacts'
  BY <1>0 DEF QuestionInv, AskFacts
<1> QED BY <1>2, <1>3, <1>4, <1>5, <1>6 DEF RowsInv, QuestionInv

LEMMA RetryKeeps ==
  ASSUME RowsInv, Typed', NEW t \in Targets, Retry(t)
  PROVE  RowsInv'
<1>1. /\ target[t] \in TargetRow /\ RetryWrite(t, target[t]) /\ target[t].status = "failed"
      /\ UNCHANGED <<route, past, attempt, recon, asking>>
  BY DEF Retry, RetryWrite, actors, RowsInv, Typed, TypeOK
<1>2. route[t] = "youtube" => target[t].ext = 0
  BY <1>1 DEF RowsInv, Line, Flow, FlowOf
<1>3. ~Frozen(t)
  BY <1>1 DEF Frozen, Status
<1> QED BY <1>1, <1>2, <1>3, RetriedKeep

\* record, and an operator's own word: a provider's row that has not gone out is
\* given an outcome, and nothing else moves.
LEMMA OutcomeKeeps ==
  ASSUME RowsInv, Typed', NEW t \in Targets, NEW row \in TargetRow, route[t] = "zernio",
         target' = [target EXCEPT ![t] = row], draft' = Refreshed(draft, target'),
         UNCHANGED <<route, job, fence, due, past, soon, attempt, recon>>, asking' = asking \/ asking' = Idle,
         target[t].status \in {"failed", "verification_required"},
         row.status \in {"published", "failed", "verification_required"}, row.status = "published" => row.ext # 0
  PROVE  RowsInv'
<1>0. Typed /\ DraftInv /\ SourceKept /\ QuestionInv /\ \A u \in Targets : Line(u) /\ Flow(u)
  BY DEF RowsInv, Line
<1>1. target'[t] = row /\ \A u \in Targets : u # t => target'[u] = target[u]
  BY <1>0 DEF Typed, TypeOK
<1>2. draft'.pruned = draft.pruned
  BY <1>0, RefreshedSays DEF Typed, TypeOK
<1>3. ASSUME NEW u \in Targets, u # t PROVE Line(u)'
  <2>1. SameLine(u)
    BY <1>1, <1>2, <1>3 DEF SameLine, SameRows
  <2> QED BY <1>0, <2>1, SameLineKept
<1>4. Line(t)'
  <2>1. Flow(t)'
    BY <1>0, <1>1 DEF Flow, FlowOf
  <2>2. ASSUME NEW v \in Workers, NEW k \in Kinds, On(v, t, k)
        PROVE /\ target'[t].status \notin {"absent", "editing"}
              /\ Owns(v, t, k)' => Owns(v, t, k) /\ fence'[t] = fence[t]
              /\ Solo(t, k) => (Owns(v, t, k)' \/ Frozen(t)') /\ target'[t].ext = target[t].ext
    BY <1>1 DEF Owns, Solo
  <2>3. fence[t] <= fence'[t]
    BY <1>0 DEF Typed, TypeOK
  <2> QED BY <1>0, <1>2, <2>1, <2>2, <2>3, LineWritten
<1>5. DraftInv' /\ SourceKept'
  <2>1. \A u \in Targets : draft.pruned /\ route'[u] = "youtube" => Status(u)' # "prepared"
    BY <1>0, <1>1 DEF DraftInv, Status
  <2> QED BY <1>0, <2>1, DraftFollows
<1>6. ReconFacts'
  <2>1. recon # Idle => recon.t \in Targets /\ recon.kind \in Kinds
    BY <1>0 DEF Typed, TypeOK, Question
  <2>2. \A u \in Targets : route[u] = "youtube" => target'[u] = target[u]
    BY <1>1
  <2> QED BY <1>0, <2>1, <2>2 DEF QuestionInv, ReconFacts, Frozen, Status, Subject
<1>7. AskFacts'
  BY <1>0 DEF QuestionInv, AskFacts
<1> QED BY <1>3, <1>4, <1>5, <1>6, <1>7 DEF RowsInv, QuestionInv

LEMMA RecordedIs ==
  ASSUME NEW k \in 0 .. MaxObjects, NEW seen, NEW refusable
  PROVE  /\ Recorded(k, seen, refusable) \in TargetRow /\ Recorded(k, seen, refusable).prov = k
         /\ Recorded(k, seen, refusable).status \in {"published", "failed", "verification_required"}
         /\ Recorded(k, seen, refusable).ext = IF seen = "public" THEN k ELSE 0
         /\ (Recorded(k, seen, refusable).status = "published") <=> (seen = "public")
         /\ Recorded(k, seen, refusable).status = "failed" => refusable /\ seen = "refused"
<1>1. 0 \in 0 .. MaxObjects
  BY VideoBoundsAssumption
<1>2. PICK e \in 0 .. MaxObjects : e = IF seen = "public" THEN k ELSE 0
  BY <1>1
<1>3. PICK s \in {"published", "failed", "verification_required"} :
        s = IF seen = "public" THEN "published" ELSE IF refusable /\ seen = "refused" THEN "failed" ELSE "verification_required"
  OBVIOUS
<1>4. Recorded(k, seen, refusable) = [ext |-> e, prov |-> k, status |-> s]
  BY <1>2, <1>3 DEF Recorded
<1>5. s \in TargetStatus
  BY DEF TargetStatus
<1> QED BY <1>2, <1>3, <1>4, <1>5 DEF TargetRow

\* The post an answer is about, and what is recorded of it.
AskedPost == IF asking.prov # 0 THEN asking.prov ELSE asking.fence
RecordedRow == Recorded(AskedPost, asking.seen, asking.prov # 0)
LEMMA AnswerIs ==
  ASSUME RowsInv, AnswerRecorded
  PROVE  /\ asking.t \in Targets /\ route[asking.t] = "zernio" /\ AskedPost \in ObjectIds
         /\ RecordedRow \in TargetRow /\ RecordedRow.prov = AskedPost
         /\ RecordedRow.status \in {"published", "failed", "verification_required"}
         /\ RecordedRow.ext = IF asking.seen = "public" THEN AskedPost ELSE 0
         /\ (RecordedRow.status = "published") <=> (asking.seen = "public")
         /\ target[asking.t].status \in {"failed", "verification_required"} /\ target[asking.t].ext = 0
         /\ target[asking.t].status = asking.status
         /\ asking' = Idle /\ UNCHANGED <<route, past, object, attempt, recon, holds, unheld>>
         /\ \/ /\ RetryWrite(asking.t, RecordedRow) /\ RecordedRow.status = "failed" /\ asking.op = "retry"
            \/ /\ target' = [target EXCEPT ![asking.t] = RecordedRow] /\ draft' = Refreshed(draft, target')
               /\ UNCHANGED <<job, fence, due, soon>>
<1>1. asking \in Command /\ asking # Idle /\ AskFacts
  BY DEF AnswerRecorded, RowsInv, QuestionInv, Typed, TypeOK
<1>2. asking.t \in Targets /\ route[asking.t] = "zernio" /\ asking.status \in {"failed", "verification_required", "published"}
  BY <1>1 DEF AskFacts, Command
<1>3. AskedPost \in 0 .. MaxObjects /\ AskedPost \in ObjectIds
  BY <1>1 DEF AskedPost, Command, RowsInv, Typed, ObjectIds
<1>4. target[asking.t].status = asking.status /\ target[asking.t].ext = 0
  BY DEF AnswerRecorded, StillAsked
<1>5. asking.status # "published"
  BY <1>2, <1>4 DEF RowsInv, Line, Flow, FlowOf
<1> DEFINE k == AskedPost
           row == Recorded(k, asking.seen, asking.prov # 0)
<1>6. /\ row \in TargetRow /\ row.prov = k /\ row.status \in {"published", "failed", "verification_required"}
      /\ row.ext = IF asking.seen = "public" THEN k ELSE 0
      /\ (row.status = "published") <=> (asking.seen = "public")
  BY <1>3, RecordedIs
<1>7. asking' = Idle /\ UNCHANGED <<route, past, object, attempt, recon, holds, unheld>>
  BY DEF AnswerRecorded, ghosts
<1>8. \/ RetryWrite(asking.t, row) /\ row.status = "failed" /\ asking.op = "retry"
      \/ /\ target' = [target EXCEPT ![asking.t] = row] /\ draft' = Refreshed(draft, target')
         /\ UNCHANGED <<job, fence, due, soon>>
  BY DEF AnswerRecorded, AskedPost
<1>9. RecordedRow = row
  BY DEF RecordedRow
<1> HIDE DEF row, k
<1> QED BY <1>2, <1>3, <1>4, <1>5, <1>6, <1>7, <1>8, <1>9 DEF k

LEMMA AnswerKeeps ==
  ASSUME RowsInv, Typed', AnswerRecorded
  PROVE  RowsInv'
<1>1. PICK t \in Targets : t = asking.t
  BY AnswerIs
<1>2. PICK row \in TargetRow : row = RecordedRow
  BY AnswerIs
<1>3. /\ route[t] = "zernio" /\ row.status \in {"published", "failed", "verification_required"}
      /\ target[t].status \in {"failed", "verification_required"}
      /\ asking' = Idle /\ UNCHANGED <<route, past, attempt, recon>>
      /\ row.status = "published" => row.ext # 0
  <2>1. AskedPost # 0
    BY AnswerIs DEF ObjectIds
  <2> QED BY <1>1, <1>2, <2>1, AnswerIs
<1>4. CASE RetryWrite(t, row)
  BY <1>3, <1>4, RetriedKeep
<1>5. CASE target' = [target EXCEPT ![t] = row] /\ draft' = Refreshed(draft, target') /\ UNCHANGED <<job, fence, due, soon>>
  BY <1>3, <1>5, OutcomeKeeps
<1> QED BY <1>1, <1>2, <1>4, <1>5, AnswerIs

LEMMA SettleKnownKeeps ==
  ASSUME RowsInv, Typed', NEW t \in Targets, NEW k \in ObjectIds, SettleKnown(t, k)
  PROVE  RowsInv'
<1> DEFINE row == [status |-> "published", ext |-> k, prov |-> target[t].prov]
<1>1. /\ target' = [target EXCEPT ![t] = row] /\ draft' = Refreshed(draft, target')
      /\ UNCHANGED <<route, job, fence, due, past, soon, attempt, recon, asking>> /\ route[t] = "zernio"
      /\ target[t].ext = 0 /\ target[t].status \in {"verification_required", "published", "failed"}
  BY DEF SettleKnown, clock, actors, RowsInv, Typed, TypeOK
<1>2. row \in TargetRow /\ row.status = "published" /\ row.ext # 0
  <2>1. target[t].prov \in 0 .. MaxObjects /\ k \in 0 .. MaxObjects /\ k # 0
    BY VideoBoundsAssumption DEF RowsInv, Typed, TypeOK, TargetRow, ObjectIds
  <2> QED BY <2>1 DEF TargetRow, TargetStatus
<1>3. target[t].status \in {"failed", "verification_required"}
  BY <1>1 DEF RowsInv, Line, Flow, FlowOf
<1> HIDE DEF row
<1> QED BY <1>1, <1>2, <1>3, OutcomeKeeps

\* cancelVideo
LEMMA CancelWrites ==
  ASSUME Typed, Cancel
  PROVE  /\ UNCHANGED <<route, fence, due, past, soon, attempt, recon, asking, object, unheld>>
         /\ draft'.status = "cancelled" /\ draft'.pruned = draft.pruned
         /\ \A t \in Targets :
              /\ \A k \in Kinds : job[t][k].status # "running" /\ job'[t][k].status = IF job[t][k].status = "queued" THEN "cancelled" ELSE job[t][k].status
              /\ target'[t].ext = target[t].ext /\ target'[t].prov = target[t].prov
              /\ target'[t].status = IF target[t].status \in {"absent", "published"} THEN target[t].status ELSE "cancelled"
<1>1. UNCHANGED <<route, fence, due, past, soon, attempt, recon, asking, object, unheld>>
      /\ draft'.status = "cancelled" /\ draft'.pruned = draft.pruned
  BY DEF Cancel, clock, ghosts, Typed, TypeOK, DraftRow
<1>2. ASSUME NEW t \in Targets
      PROVE /\ target'[t].ext = target[t].ext /\ target'[t].prov = target[t].prov
            /\ target'[t].status = IF target[t].status \in {"absent", "published"} THEN target[t].status ELSE "cancelled"
  <2>1. target'[t] = IF target[t].status \in {"absent", "published"} THEN target[t]
                     ELSE [target[t] EXCEPT !.status = "cancelled"]
    BY DEF Cancel
  <2>2. target[t] \in TargetRow
    BY DEF Typed, TypeOK
  <2> QED BY <2>1, <2>2 DEF TargetRow
<1>3. ASSUME NEW t \in Targets, NEW k \in Kinds
      PROVE job[t][k].status # "running" /\ job'[t][k].status = IF job[t][k].status = "queued" THEN "cancelled" ELSE job[t][k].status
  <2>1. Unlocked(job[t][k], "cancelled").status = "cancelled"
    BY RowsOf DEF Unlocked, JobRow
  <2> QED BY <2>1 DEF Cancel, Running
<1> QED BY <1>1, <1>2, <1>3

LEMMA CancelKeeps ==
  ASSUME RowsInv, Typed', Cancel
  PROVE  RowsInv'
<1>0. Typed /\ DraftInv /\ QuestionInv /\ \A u \in Targets : Line(u) /\ Flow(u)
  BY DEF RowsInv, Line
<1>1. /\ UNCHANGED <<route, fence, due, past, soon, attempt, recon, asking>>
      /\ draft'.status = "cancelled" /\ draft'.pruned = draft.pruned
      /\ \A t \in Targets :
           /\ \A k \in Kinds : job[t][k].status # "running" /\ job'[t][k].status = IF job[t][k].status = "queued" THEN "cancelled" ELSE job[t][k].status
           /\ target'[t].ext = target[t].ext /\ target'[t].prov = target[t].prov
           /\ target'[t].status = IF target[t].status \in {"absent", "published"} THEN target[t].status ELSE "cancelled"
  BY <1>0, CancelWrites
<1>2. ASSUME NEW t \in Targets PROVE Line(t)'
  <2>1. Flow(t)'
    BY <1>0, <1>1 DEF Flow, FlowOf, Kinds
  <2>2. ASSUME NEW v \in Workers, NEW k \in Kinds, On(v, t, k)
        PROVE /\ target'[t].status \notin {"absent", "editing"}
              /\ Owns(v, t, k)' => Owns(v, t, k) /\ fence'[t] = fence[t]
              /\ Solo(t, k) => (Owns(v, t, k)' \/ Frozen(t)') /\ target'[t].ext = target[t].ext
    <3>1. AttemptOf(v, t) /\ ~IdleWorker(v) /\ attempt[v].t = t /\ attempt[v].kind = k
      BY <1>0, <2>2 DEF Line, On
    <3>2. ~Owns(v, t, k) /\ ~Owns(v, t, k)'
      BY <1>1 DEF Owns
    <3>3. Solo(t, k) => Frozen(t)
      BY <3>1, <3>2 DEF AttemptOf
    <3> QED BY <1>1, <3>1, <3>2, <3>3 DEF AttemptOf, Frozen, Status
  <2>3. fence[t] <= fence'[t]
    BY <1>0, <1>1 DEF Typed, TypeOK
  <2> QED BY <1>0, <1>1, <2>1, <2>2, <2>3, LineWritten
<1>3. DraftInv' /\ SourceKept'
  <2>1. \A t \in Targets : target'[t].status \in {"absent", "published", "cancelled"}
    BY <1>1
  <2>2. StatusesOf(target') \subseteq FinalStatus
    BY <2>1 DEF StatusesOf, Present, FinalStatus
  <2> QED BY <2>1, <2>2 DEF DraftInv, SourceKept, Open, Status, StatusesOf, Present
<1>4. QuestionInv'
  <2>1. \A u \in Targets : route[u] = "youtube" /\ Frozen(u) => Frozen(u)' /\ target'[u].ext = target[u].ext
            /\ \A k \in Kinds : job[u][k].status = "verification_required" => job'[u][k].status = "verification_required"
    BY <1>1 DEF Frozen, Status
  <2> QED BY <1>0, <1>1, <2>1, QuestionsStay
<1> QED BY <1>2, <1>3, <1>4 DEF RowsInv

\* An upload that lost its job is kept private, or that failed.
LEMMA KeepPrivateEnds ==
  ASSUME Typed, NEW w \in Workers, NEW t \in Targets, NEW kind \in Kinds, Line(t), On(w, t, kind),
         NEW answered \in BOOLEAN, KeepPrivate(w, answered)
  PROVE  Dropped(w, t, kind)
<1>1. AttemptOf(w, t) /\ attempt[w].t = t /\ ~IdleWorker(w) /\ (Owns(w, t, kind) => Open(t))
  BY AttemptFacts
<1>2. attempt[w].pc = "hold"
  BY DEF KeepPrivate, At
<1>3. ~Owns(w, t, kind)
  BY <1>1, <1>2 DEF AttemptOf, Open, Frozen, Status
<1> QED BY <1>2, <1>3 DEF Dropped, Ending, KeepPrivate, rows, clock

\* A step of a busy worker ends its attempt or moves it on.
LEMMA BusyStep ==
  ASSUME RowsInv, NEW w \in Workers, ~IdleWorker(w), Working(w)
  PROVE  \E t \in Targets, kind \in Kinds :
           /\ On(w, t, kind)
           /\ \/ Ends(w, t, kind)
              \/ ExecuteCall(w) \/ (ContainerFinished(w) /\ Holds(w)) \/ (Uploaded(w) /\ ~Holds(w))
<1>1. PICK t \in Targets, kind \in Kinds : On(w, t, kind)
  BY AttemptType DEF RowsInv, Typed, On
<1>2. Typed /\ Line(t)
  BY DEF RowsInv
<1>3. attempt[w].t = t /\ attempt[w].kind = kind
  BY <1>1 DEF On
<1> DEFINE Moved == ExecuteCall(w) \/ (ContainerFinished(w) /\ Holds(w)) \/ (Uploaded(w) /\ ~Holds(w))
<1>4. ASSUME NEW answered \in BOOLEAN, KeepPrivate(w, answered) PROVE Ends(w, t, kind)
  BY <1>1, <1>2, <1>4, KeepPrivateEnds DEF Ends
<1>5. ASSUME \/ ExecuteNothing(w) \/ ExecuteCheckpoint(w) \/ ExecuteYouTubePublish(w)
           \/ (Uploaded(w) /\ Holds(w)) \/ ContainerCreated(w) \/ ReelPublished(w)
           \/ (ProviderAnswered(w) /\ object[t][attempt[w].made] = "public")
      PROVE  Ends(w, t, kind)
  BY <1>1, <1>2, <1>5, CompletionsEnd
<1>6. ASSUME ExecuteUnready(w) \/ \E class \in ErrorClasses : Refused(w, class) \/ Unread(w, class)
      PROVE  Ends(w, t, kind)
  BY <1>1, <1>2, <1>6, FailuresEnd
<1>7. ASSUME Lost(w) \/ (ProviderAnswered(w) /\ object[t][attempt[w].made] # "public")
      PROVE  Ends(w, t, kind)
  BY <1>1, <1>2, <1>7, DoubtsEnd
<1>8. ASSUME \/ (ContainerFinished(w) /\ ~Holds(w)) \/ ContainerProcessing(w)
           \/ \E class \in ErrorClasses : ContainerInvalid(w, class)
      PROVE  Ends(w, t, kind)
  BY <1>1, <1>2, <1>8, ContainersEnd
<1>9. Ends(w, t, kind) \/ Moved
  <2>1. ~\E u \in Targets, k \in Kinds : Claim(w, u, k)
    BY DEF Claim
  <2>2. \/ ExecuteNothing(w) \/ ExecuteUnready(w) \/ ExecuteCheckpoint(w) \/ ExecuteYouTubePublish(w) \/ ExecuteCall(w)
        \/ Uploaded(w) \/ ContainerCreated(w) \/ ContainerFinished(w) \/ ContainerProcessing(w)
        \/ ReelPublished(w) \/ ProviderAnswered(w) \/ Lost(w)
        \/ (\E class \in ErrorClasses : Refused(w, class) \/ Unread(w, class))
        \/ (\E class \in ErrorClasses : ContainerInvalid(w, class))
        \/ \E answered \in BOOLEAN : KeepPrivate(w, answered)
    BY <2>1 DEF Working
  <2> HIDE DEF Moved
  <2>3. CASE ExecuteCall(w) \/ Uploaded(w) \/ ContainerFinished(w) \/ ProviderAnswered(w)
    BY <1>5, <1>7, <1>8, <2>3 DEF Moved
  <2> QED BY <1>4, <1>5, <1>6, <1>7, <1>8, <2>2, <2>3
<1> QED BY <1>1, <1>9

LEMMA WorkingKeeps ==
  ASSUME RowsInv, InOrder, Typed', NEW w \in Workers, Working(w)
  PROVE  RowsInv'
<1>1. CASE \E t \in Targets, kind \in Kinds : Claim(w, t, kind)
  BY <1>1, ClaimKeeps
<1>2. CASE ~IdleWorker(w)
  <2>1. PICK t \in Targets, kind \in Kinds :
          /\ On(w, t, kind)
          /\ \/ Ends(w, t, kind)
             \/ ExecuteCall(w) \/ (ContainerFinished(w) /\ Holds(w)) \/ (Uploaded(w) /\ ~Holds(w))
    BY <1>2, BusyStep
  <2> QED BY <2>1, EndsKeep, MovesKeep
<1>3. ~IdleWorker(w) \/ \E t \in Targets, kind \in Kinds : Claim(w, t, kind)
  BY DEF Working, ExecuteNothing, ExecuteUnready, ExecuteCheckpoint, ExecuteYouTubePublish, ExecuteCall,
     Executable, Uploaded, ContainerCreated, ContainerFinished, ContainerProcessing, ReelPublished,
     ProviderAnswered, Lost, Refused, Unread, ContainerInvalid, KeepPrivate, At
<1> QED BY <1>1, <1>2, <1>3

LEMMA NextKeeps == RowsInv /\ InOrder /\ [Next]_vars => RowsInv'
<1> SUFFICES ASSUME RowsInv, InOrder, [Next]_vars PROVE RowsInv'
  OBVIOUS
<1>0. Typed'
  BY NextTyped DEF RowsInv
<1>1. ASSUME NEW w \in Workers, Working(w) PROVE RowsInv'
  BY <1>0, <1>1, WorkingKeeps
<1>2. CASE Sweeping
  BY <1>0, <1>2, RecoverKeeps, ReconMovesKeep, ConfirmKeeps, PruneKeeps DEF Sweeping
<1>3. CASE Platform
  <2>1. ASSUME NEW w \in Workers, Reaches(w) PROVE RowsInv'
    <3>1. ~IdleWorker(w)
      BY <2>1 DEF Reaches, At
    <3>2. PICK t \in Targets, kind \in Kinds : On(w, t, kind)
      BY <3>1, AttemptType DEF RowsInv, Typed, On
    <3> QED BY <1>0, <2>1, <3>2, MovesKeep
  <2>2. ASSUME NEW t \in Targets, TimePasses(t) \/ RetryDue(t) PROVE RowsInv'
    BY <1>0, <2>2, ClockKeeps
  <2> QED BY <1>0, <1>3, <2>1, <2>2, PlatformKeeps DEF Platform
<1>4. CASE Operating
  <2>1. ASSUME NEW ts \in SUBSET Targets, Schedule(ts) PROVE RowsInv'
    BY <1>0, <2>1, ScheduleKeeps
  <2>2. ASSUME NEW t \in Targets, Retry(t) PROVE RowsInv'
    BY <1>0, <2>2, RetryKeeps
  <2>3. ASSUME NEW t \in Targets, NEW k \in ObjectIds, SettleKnown(t, k) PROVE RowsInv'
    BY <1>0, <2>3, SettleKnownKeeps
  <2> QED BY <1>0, <1>4, <2>1, <2>2, <2>3, EditingKeeps, PlatformKeeps, AnswerKeeps, CancelKeeps DEF Operating
<1>5. CASE Crash
  BY <1>0, <1>5, PlatformKeeps
<1>6. CASE UNCHANGED vars
  <2>1. UNCHANGED <<route, draft, target, job, fence, due, past, soon, attempt, recon, asking>>
    BY <1>6 DEF vars, rows, clock, actors
  <2>2. QuestionInv'
    BY <2>1 DEF RowsInv, QuestionInv, ReconFacts, AskFacts, Frozen, Status, Subject
  <2> QED BY <1>0, <2>1, <2>2, StillKeep
<1> QED BY <1>1, <1>2, <1>3, <1>4, <1>5, <1>6 DEF Next

LEMMA InitKeeps == Init => RowsInv
<1> SUFFICES ASSUME Init PROVE RowsInv
  OBVIOUS
<1>1. \A t \in Targets : Status(t) = "editing" /\ target[t].ext = 0 /\ target[t].prov = 0
        /\ fence[t] = 0 /\ due[t] = FALSE /\ past[t] = FALSE /\ soon[t] = FALSE
        /\ \A k \in Kinds : job[t][k].status = "no_row"
  BY DEF Init, Status, NoTarget, NoRow
<1>2. \A w \in Workers : IdleWorker(w)
  BY DEF Init, IdleWorker
<1>3. \A t \in Targets : Line(t)
  BY <1>1, <1>2 DEF Line, Flow, FlowOf, AttemptOf, On, Status, Kinds
<1>4. DraftInv /\ SourceKept
  BY <1>1 DEF DraftInv, SourceKept, Open, Init
<1>5. QuestionInv
  BY DEF Init, QuestionInv, ReconFacts, AskFacts
<1> QED BY <1>3, <1>4, <1>5, InitTyped DEF RowsInv

LEMMA AlwaysRows == ASSUME InOrder PROVE Spec => []RowsInv
<1>1. RowsInv /\ [Next]_vars => RowsInv'
  BY NextKeeps
<1> QED BY <1>1, InitKeeps, PTL DEF Spec

\* The file survives as long as a target may still need it: in every behaviour in
\* which a publication is not claimed before its preparation is over, a deadline
\* stands only while every target is final.
THEOREM VideoSourceKept == ASSUME InOrder PROVE Spec => []SourceKept
<1>1. RowsInv => SourceKept
  BY DEF RowsInv
<1> QED BY <1>1, AlwaysRows, PTL

\* Under the same condition a prepared target has a publication waiting or running.
THEOREM VideoPreparedGoesOut == ASSUME InOrder PROVE Spec => []PreparedGoesOut
<1>1. RowsInv => PreparedGoesOut
  BY DEF RowsInv, Line, Flow, FlowOf, PreparedGoesOut
<1> QED BY <1>1, AlwaysRows, PTL

Stays(t) == target[t].status = "published" => target'[t] = target[t]

LEMMA WorkingStays ==
  ASSUME RowsInv, NEW w \in Workers, Working(w), NEW t \in Targets
  PROVE  Stays(t)
<1>1. CASE \E u \in Targets, kind \in Kinds : Claim(w, u, kind)
  BY <1>1 DEF Claim, Stays
<1>2. CASE ~IdleWorker(w)
  <2>1. PICK u \in Targets, kind \in Kinds :
          /\ On(w, u, kind)
          /\ \/ Ends(w, u, kind)
             \/ ExecuteCall(w) \/ (ContainerFinished(w) /\ Holds(w)) \/ (Uploaded(w) /\ ~Holds(w))
    BY <1>2, BusyStep
  <2>2. CASE Dropped(w, u, kind)
    BY <2>2 DEF Dropped, Stays
  <2>3. ASSUME NEW row \in TargetRow, NEW mine, NEW other, Settled(w, u, kind, row, mine, other)
        PROVE  Stays(t)
    <3>1. Open(u)
      BY <2>1, <2>3, AttemptFacts DEF Settled, RowsInv
    <3>2. target \in [Targets -> TargetRow]
      BY DEF RowsInv, Typed, TypeOK
    <3> QED BY <2>3, <3>1, <3>2 DEF Settled, Stays, Open, Status
  <2>4. CASE ExecuteCall(w) \/ (ContainerFinished(w) /\ Holds(w)) \/ (Uploaded(w) /\ ~Holds(w))
    BY <2>4 DEF ExecuteCall, ContainerFinished, Uploaded, Complete, rows, Stays
  <2> QED BY <2>1, <2>2, <2>3, <2>4 DEF Ends
<1>3. ~IdleWorker(w) \/ \E u \in Targets, kind \in Kinds : Claim(w, u, kind)
  BY DEF Working, ExecuteNothing, ExecuteUnready, ExecuteCheckpoint, ExecuteYouTubePublish, ExecuteCall,
     Executable, Uploaded, ContainerCreated, ContainerFinished, ContainerProcessing, ReelPublished,
     ProviderAnswered, Lost, Refused, Unread, ContainerInvalid, KeepPrivate, At
<1> QED BY <1>1, <1>2, <1>3

LEMMA OperatingStays ==
  ASSUME RowsInv, Operating, NEW t \in Targets
  PROVE  Stays(t)
<1>0. Typed /\ Flow(t) /\ target \in [Targets -> TargetRow]
  BY DEF RowsInv, Line, Typed, TypeOK
<1>1. ASSUME NEW chosen \in SUBSET Targets, ChooseTargets(chosen) \/ Schedule(chosen) PROVE Stays(t)
  BY <1>1 DEF ChooseTargets, Schedule, Schedulable, Stays
<1>2. ASSUME NEW u \in Targets, Remove(u) \/ Retry(u) PROVE Stays(t)
  BY <1>0, <1>2 DEF Remove, Retry, RetryWrite, Stays
<1>3. ASSUME NEW u \in Targets, NEW k \in ObjectIds, SettleKnown(u, k) PROVE Stays(t)
  BY <1>0, <1>3 DEF SettleKnown, Stays, Flow, FlowOf
<1>4. CASE AnswerRecorded
  <2>1. PICK u \in Targets : u = asking.t
    BY <1>4, AnswerIs
  <2>2. target[u].status \in {"failed", "verification_required"}
    BY <1>4, <2>1, AnswerIs
  <2>3. \A v \in Targets : v # u => target'[v] = target[v]
    BY <1>0, <1>4, <2>1, AnswerIs DEF RetryWrite
  <2> QED BY <2>2, <2>3 DEF Stays
<1>5. CASE Cancel
  BY <1>5 DEF Cancel, Stays
<1>6. CASE \/ \E u \in Targets : AskBeforeRetry(u) \/ Settle(u)
           \/ \E u \in Targets, k \in ObjectIds, answered \in BOOLEAN : Hold(u, k, answered)
           \/ AnswerDropped
  BY <1>6 DEF AskBeforeRetry, Settle, Hold, AnswerDropped, rows, Stays
<1> QED BY <1>1, <1>2, <1>3, <1>4, <1>5, <1>6 DEF Operating

LEMMA NextStays ==
  ASSUME RowsInv, [Next]_vars, NEW t \in Targets
  PROVE  Stays(t)
<1>1. CASE Sweeping
  <2>1. ASSUME NEW u \in Targets, NEW kind \in Kinds, Recover(u, kind) PROVE Stays(t)
    <3>1. target \in [Targets -> TargetRow] /\ Flow(t)
      BY DEF RowsInv, Line, Typed, TypeOK
    <3> QED BY <2>1, <3>1 DEF Recover, Flow, FlowOf, Stays, Kinds
  <2>2. CASE ReconConfirm
    <3>1. PICK u \in Targets : u = recon.t
      BY <2>2, ConfirmWrites
    <3> QED BY <2>2, <3>1, ConfirmWrites DEF Stays, Status
  <2>3. CASE (\E u \in Targets, kind \in Kinds : ReconClaim(u, kind)) \/ ReconDefer \/ Prune
    BY <2>3 DEF ReconClaim, ReconDefer, Prune, Stays
  <2> QED BY <1>1, <2>1, <2>2, <2>3 DEF Sweeping
<1>2. CASE Platform
  BY <1>2 DEF Platform, Reaches, GoesPublic, RefusedByPlatform, AskAnswers, ReconAnswers, TimePasses, RetryDue, rows,
     Stays
<1>3. CASE Crash \/ UNCHANGED vars
  BY <1>3 DEF Crash, vars, rows, Stays
<1> QED BY <1>1, <1>2, <1>3, WorkingStays, OperatingStays DEF Next

\* What is published stays as it is: no worker whose lock was lost, no sweep, no
\* late answer and no command rewrites a published target, as long as a
\* publication is not claimed before its preparation is over.
THEOREM VideoPublishedStays == ASSUME InOrder PROVE Spec => PublishedStays
<1>1. RowsInv /\ [Next]_vars => [\A t \in Targets : target[t].status = "published" => target'[t] = target[t]]_vars
  BY NextStays DEF Stays
<1> QED BY <1>1, AlwaysRows, PTL DEF Spec, PublishedStays

-----------------------------------------------------------------------------
(* What a step may do to one target *)

\* The attempts at a target are the ones there were; an upload that is lost sight of is unheld.
Carried(v, t) ==
  ~IdleWorker(v)' /\ attempt'[v].t = t =>
    /\ ~IdleWorker(v) /\ attempt[v].t = t /\ attempt'[v].kind = attempt[v].kind
    /\ attempt'[v].made = attempt[v].made /\ attempt'[v].fence = attempt[v].fence
Accounted(v, t) ==
  On(v, t, "prepare") /\ route[t] = "youtube" /\ attempt[v].made # 0 =>
    \/ ~IdleWorker(v)' /\ attempt'[v].t = t /\ attempt'[v].kind = "prepare" /\ attempt'[v].made = attempt[v].made
    \/ <<t, attempt[v].made>> \in unheld'
Kept == unheld \subseteq unheld' /\ holds \subseteq holds' \cup unheld'
SameJobs(t) ==
  \A k \in Kinds : /\ (job'[t][k].status = "running") <=> (job[t][k].status = "running")
                   /\ \A v \in Workers : Owns(v, t, k)' <=> Owns(v, t, k)
\* Nothing happens to it, or its time comes.
Quiet(t) ==
  /\ target'[t] = target[t] /\ fence'[t] = fence[t] /\ (past[t] => past'[t]) /\ soon'[t] = soon[t]
  /\ SameJobs(t) /\ Kept
  /\ \A v \in Workers : Carried(v, t) /\ Accounted(v, t)
\* It is chosen, or taken out of the draft, before anything was scheduled.
Emptied(t) ==
  /\ fence[t] = 0 /\ fence'[t] = 0 /\ past'[t] = past[t] /\ attempt' = attempt /\ UNCHANGED <<holds, unheld>>
  /\ target'[t].status \in {"absent", "editing"} /\ target'[t].ext = 0 /\ target'[t].prov = 0
  /\ target[t].status \in {"absent", "editing"}
  /\ \A k \in Kinds : job'[t][k].status = "no_row" /\ job[t][k].status = "no_row"
\* Both its jobs wait again, under a new request id.
Armed(t) ==
  /\ attempt' = attempt /\ UNCHANGED <<holds, unheld>> /\ fence'[t] = fence[t] + 1
  /\ target'[t].status = "scheduled"
  /\ \A k \in Kinds : job[t][k].status # "running" /\ job'[t][k].status = "queued"
  /\ \/ /\ target[t].status \in Schedulable \cup {"failed"} /\ target'[t].prov = target[t].prov
        /\ target'[t].ext = target[t].ext \/ (target[t].status = "failed" /\ target'[t].ext = 0)
        /\ (target[t].status = "failed" => ~Askable(t)) /\ UNCHANGED <<asking>>
     \/ /\ AnswerRecorded /\ asking.t = t /\ RecordedRow.status = "failed"
        /\ target'[t].prov = AskedPost /\ target'[t].ext = 0 /\ past'[t] = past[t]
\* A provider's post is found to be out, refused or neither.
Told(t) ==
  /\ attempt' = attempt /\ UNCHANGED <<holds, unheld>> /\ fence'[t] = fence[t] /\ past'[t] = past[t]
  /\ SameJobs(t) /\ route[t] = "zernio"
  /\ target[t].status \in {"failed", "verification_required"} /\ target[t].ext = 0
  /\ \/ /\ target'[t].status = "published" /\ target'[t].prov = target[t].prov
        /\ target'[t].ext \in ObjectIds /\ object[t][target'[t].ext] = "public"
     \/ /\ AnswerRecorded /\ asking.t = t /\ target'[t] = RecordedRow
\* cancelVideo
CancelledNow(t) ==
  /\ attempt' = attempt /\ unheld' = unheld /\ holds = {} /\ fence'[t] = fence[t] /\ past'[t] = past[t] /\ soon'[t] = soon[t]
  /\ target'[t].ext = target[t].ext /\ target'[t].prov = target[t].prov
  /\ target'[t].status = IF target[t].status \in {"absent", "published"} THEN target[t].status ELSE "cancelled"
  /\ \A k \in Kinds : job[t][k].status # "running" /\ job'[t][k].status # "running"
  /\ route[t] = "youtube" /\ target[t].status # "published" /\ target[t].ext # 0 /\ fence[t] > 0 /\ ~past[t] =>
       <<t, target[t].ext>> \in holds'
\* The sweep found it public.
FoundOut(t) ==
  /\ attempt' = attempt /\ UNCHANGED <<holds, unheld>> /\ fence'[t] = fence[t] /\ past'[t] = past[t]
  /\ recon # Idle /\ recon.t = t /\ Confirmed /\ Subject \in ObjectIds /\ recon.kind = "publish"
  /\ target[t].status = "verification_required"
  /\ target'[t].status = "published" /\ target'[t].ext = Subject /\ target'[t].prov = target[t].prov
  /\ job[t]["publish"].status = "verification_required"
  /\ job'[t]["publish"].status = "completed" /\ job'[t]["prepare"] = job[t]["prepare"]
\* recoverVideoLocks took its lock away.
Taken(t, kind) ==
  /\ attempt' = attempt /\ UNCHANGED <<holds, unheld>> /\ fence'[t] = fence[t] /\ past'[t] = past[t]
  /\ target'[t].ext = target[t].ext /\ target'[t].prov = target[t].prov
  /\ job[t][kind].status = "running" /\ job'[t][Other(kind)] = job[t][Other(kind)]
  /\ \A v \in Workers : ~Owns(v, t, kind)'
  /\ \/ /\ MayHaveReachedAudience(kind, t) /\ target'[t].status = "verification_required"
        /\ job'[t][kind].status = "verification_required"
        /\ (NamesOlderPost(t, kind) => "older_post" \in Faults)
     \/ /\ ~MayHaveReachedAudience(kind, t) /\ target'[t].status \in {"scheduled", "failed"}
        /\ job'[t][kind].status \in {"queued", "failed"}
Ended(t) ==
  \E w \in Workers, kind \in Kinds, row \in TargetRow, mine, other \in JobStatus :
    Settled(w, t, kind, row, mine, other) /\ Outcome(w, t, kind, row, mine, other)
StepOf(t) ==
  \/ Quiet(t) \/ Emptied(t) \/ Armed(t) \/ Told(t) \/ CancelledNow(t) \/ FoundOut(t)
  \/ (\E kind \in Kinds : Taken(t, kind)) \/ Ended(t)
  \/ \E w \in Workers, kind \in Kinds : Claim(w, t, kind)
\* A step that changes what a platform holds changes no row.
ObjectStep ==
  \/ \E w \in Workers : Reaches(w) \/ \E answered \in BOOLEAN : KeepPrivate(w, answered)
  \/ \E t \in Targets, k \in ObjectIds : GoesPublic(t, k) \/ RefusedByPlatform(t, k)
  \/ AskAnswers
  \/ \E t \in Targets, k \in ObjectIds, answered \in BOOLEAN : Hold(t, k, answered)

\* A step that leaves the target's own rows alone, and at most ends attempts.
LEMMA QuietIs ==
  ASSUME NEW t \in Targets, target'[t] = target[t], fence'[t] = fence[t], past[t] => past'[t], soon'[t] = soon[t],
         job'[t] = job[t],
         \A v \in Workers : attempt'[v] = attempt[v], UNCHANGED <<holds, unheld>>
  PROVE  Quiet(t)
  BY DEF Quiet, SameJobs, Owns, Kept, Carried, Accounted, IdleWorker, On

LEMMA ClaimOf ==
  ASSUME Typed, NEW w \in Workers, NEW u \in Targets, NEW kind \in Kinds, Claim(w, u, kind), NEW t \in Targets
  PROVE  StepOf(t)
<1>1. CASE t = u
  BY <1>1 DEF StepOf
<1>2. CASE t # u
  <2>1. target' = target /\ fence' = fence /\ past' = past /\ soon' = soon /\ UNCHANGED <<holds, unheld>> /\ IdleWorker(w)
        /\ job'[t] = job[t] /\ attempt'[w].t = u /\ \A v \in Workers : v # w => attempt'[v] = attempt[v]
    BY <1>2 DEF Claim, clock, ghosts, Typed, TypeOK
  <2>2. \A v \in Workers : Carried(v, t) /\ Accounted(v, t)
    BY <1>2, <2>1 DEF Carried, Accounted, On, IdleWorker
  <2> QED BY <2>1, <2>2 DEF StepOf, Quiet, SameJobs, Owns, Kept
<1> QED BY <1>1, <1>2

LEMMA EndsOf ==
  ASSUME RowsInv, NEW w \in Workers, NEW u \in Targets, NEW kind \in Kinds, Ends(w, u, kind),
         attempt[w].pc # "hold",
         NEW t \in Targets
  PROVE  StepOf(t)
<1>0. Typed
  BY DEF RowsInv
<1>1. CASE Dropped(w, u, kind)
  <2>1. /\ target' = target /\ fence' = fence /\ past' = past /\ soon' = soon /\ job' = job /\ holds' = holds /\ unheld \subseteq unheld'
        /\ On(w, u, kind) /\ IdleWorker(w)' /\ \A v \in Workers : v # w => attempt'[v] = attempt[v]
    BY <1>0, <1>1 DEF Dropped, Ending, Done, Typed, TypeOK, IdleWorker
  <2>2. \A v \in Workers : Carried(v, t)
    BY <2>1 DEF Carried, IdleWorker
  <2>3. \A v \in Workers : v # w => Accounted(v, t)
    BY <2>1 DEF Accounted, On, IdleWorker
  <2>4. Accounted(w, t)
    <3> SUFFICES ASSUME On(w, t, "prepare"), route[t] = "youtube", attempt[w].made # 0
                 PROVE  <<t, attempt[w].made>> \in unheld'
      BY DEF Accounted
    <3>1. t = u /\ attempt[w].kind = "prepare" /\ AttemptOf(w, t) /\ ~IdleWorker(w) /\ attempt[w].t = t
      BY <2>1 DEF On, RowsInv, Line
    <3>2. attempt[w].pc \in {"upload", "hold"}
      BY <1>0, <3>1 DEF AttemptOf, Typed, TypeOK, Attempt, IdleWorker
    <3> QED BY <1>1, <3>1, <3>2 DEF Dropped
  <2> QED BY <2>1, <2>2, <2>3, <2>4 DEF StepOf, Quiet, SameJobs, Owns, Kept
<1>2. ASSUME NEW row \in TargetRow, NEW mine \in JobStatus, NEW other \in JobStatus,
             Settled(w, u, kind, row, mine, other), Outcome(w, u, kind, row, mine, other)
      PROVE  StepOf(t)
  <2>1. CASE t = u
    BY <1>2, <2>1 DEF StepOf, Ended
  <2>2. CASE t # u
    <3>1. /\ target'[t] = target[t] /\ job'[t] = job[t] /\ fence' = fence /\ past' = past /\ soon' = soon /\ holds' = holds
          /\ unheld \subseteq unheld' /\ On(w, u, kind) /\ IdleWorker(w)'
          /\ \A v \in Workers : v # w => attempt'[v] = attempt[v]
      BY <1>0, <1>2, <2>2, SettledOthers DEF Settled, Ending, SameLine, SameRows
    <3>2. \A v \in Workers : Carried(v, t) /\ Accounted(v, t)
      BY <2>2, <3>1 DEF Carried, Accounted, On, IdleWorker
    <3> QED BY <3>1, <3>2 DEF StepOf, Quiet, SameJobs, Owns, Kept
  <2> QED BY <2>1, <2>2
<1> QED BY <1>1, <1>2 DEF Ends

LEMMA MovesOf ==
  ASSUME RowsInv, NEW w \in Workers, NEW u \in Targets, NEW kind \in Kinds, On(w, u, kind),
         ExecuteCall(w) \/ (ContainerFinished(w) /\ Holds(w)) \/ (Uploaded(w) /\ ~Holds(w)), NEW t \in Targets
  PROVE  StepOf(t)
<1>0. attempt[w] \in Attempt /\ ~IdleWorker(w)
  BY AttemptType DEF On, RowsInv, Typed
<1>1. UNCHANGED <<route, target, job, fence, past, soon, holds, unheld>>
      /\ \E p : attempt' = [attempt EXCEPT ![w] = p] /\ p.t = attempt[w].t /\ p.kind = attempt[w].kind
                /\ p.made = attempt[w].made /\ p.fence = attempt[w].fence /\ p.pc # "idle"
  <2>1. CASE ExecuteCall(w)
    <3> DEFINE p == [attempt[w] EXCEPT !.pc = CallOf(attempt[w].t, attempt[w].kind), !.ext = target[attempt[w].t].ext]
    <3>1. attempt' = [attempt EXCEPT ![w] = p]
      BY <2>1 DEF ExecuteCall, RowsInv, Typed, TypeOK
    <3>2. p.t = attempt[w].t /\ p.kind = attempt[w].kind /\ p.made = attempt[w].made /\ p.fence = attempt[w].fence
          /\ p.pc = CallOf(attempt[w].t, attempt[w].kind)
      BY <1>0 DEF Attempt
    <3>3. CallOf(attempt[w].t, attempt[w].kind) # "idle"
      BY DEF CallOf
    <3>4. UNCHANGED <<route, target, job, fence, past, soon, holds, unheld>>
      BY <2>1 DEF ExecuteCall, rows, clock, ghosts
    <3>5. p.pc # "idle"
      BY <3>2, <3>3
    <3>6. attempt' = [attempt EXCEPT ![w] = p] /\ p.t = attempt[w].t /\ p.kind = attempt[w].kind
          /\ p.made = attempt[w].made /\ p.fence = attempt[w].fence /\ p.pc # "idle"
      BY <3>1, <3>2, <3>5
    <3> HIDE DEF p
    <3>7. \E q : attempt' = [attempt EXCEPT ![w] = q] /\ q.t = attempt[w].t /\ q.kind = attempt[w].kind
                /\ q.made = attempt[w].made /\ q.fence = attempt[w].fence /\ q.pc # "idle"
      BY <3>6
    <3> QED BY <3>4, <3>7
  <2>2. CASE ContainerFinished(w) /\ Holds(w)
    <3> DEFINE p == [attempt[w] EXCEPT !.pc = "publish"]
    <3>1. attempt' = [attempt EXCEPT ![w] = p]
      BY <2>2 DEF ContainerFinished, RowsInv, Typed, TypeOK
    <3>2. UNCHANGED <<route, target, job, fence, past, soon, holds, unheld>>
      BY <2>2 DEF ContainerFinished, rows, clock, ghosts
    <3>3. attempt' = [attempt EXCEPT ![w] = p] /\ p.t = attempt[w].t /\ p.kind = attempt[w].kind
          /\ p.made = attempt[w].made /\ p.fence = attempt[w].fence /\ p.pc # "idle"
      BY <1>0, <3>1 DEF Attempt
    <3> HIDE DEF p
    <3>4. \E q : attempt' = [attempt EXCEPT ![w] = q] /\ q.t = attempt[w].t /\ q.kind = attempt[w].kind
                /\ q.made = attempt[w].made /\ q.fence = attempt[w].fence /\ q.pc # "idle"
      BY <3>3
    <3> QED BY <3>2, <3>4
  <2>3. CASE Uploaded(w) /\ ~Holds(w)
    <3> DEFINE p == [attempt[w] EXCEPT !.pc = "hold"]
    <3>1. attempt' = [attempt EXCEPT ![w] = p]
      BY <2>3 DEF Uploaded, RowsInv, Typed, TypeOK
    <3>2. UNCHANGED <<route, target, job, fence, past, soon, holds, unheld>>
      BY <2>3 DEF Uploaded, Complete, rows, clock, ghosts
    <3>3. attempt' = [attempt EXCEPT ![w] = p] /\ p.t = attempt[w].t /\ p.kind = attempt[w].kind
          /\ p.made = attempt[w].made /\ p.fence = attempt[w].fence /\ p.pc # "idle"
      BY <1>0, <3>1 DEF Attempt
    <3> HIDE DEF p
    <3>4. \E q : attempt' = [attempt EXCEPT ![w] = q] /\ q.t = attempt[w].t /\ q.kind = attempt[w].kind
                /\ q.made = attempt[w].made /\ q.fence = attempt[w].fence /\ q.pc # "idle"
      BY <3>3
    <3> QED BY <3>2, <3>4
  <2> QED BY <2>1, <2>2, <2>3
<1>2. PICK p : attempt' = [attempt EXCEPT ![w] = p] /\ p.t = attempt[w].t /\ p.kind = attempt[w].kind
               /\ p.made = attempt[w].made /\ p.fence = attempt[w].fence /\ p.pc # "idle"
  BY <1>1
<1>3. attempt'[w] = p /\ \A v \in Workers : v # w => attempt'[v] = attempt[v]
  BY <1>2 DEF RowsInv, Typed, TypeOK
<1>4. ~IdleWorker(w)'
  BY <1>2, <1>3 DEF IdleWorker, Idle
<1>5. ASSUME NEW v \in Workers PROVE Carried(v, t) /\ Accounted(v, t)
  <2>1. CASE v = w
    BY <1>0, <1>2, <1>3, <1>4, <2>1 DEF Carried, Accounted, On
  <2>2. CASE v # w
    BY <1>3, <2>2 DEF Carried, Accounted, On, IdleWorker
  <2> QED BY <2>1, <2>2
<1> QED BY <1>1, <1>5 DEF StepOf, Quiet, SameJobs, Owns, Kept

LEMMA WorkingOf ==
  ASSUME RowsInv, NEW w \in Workers, Working(w), NEW t \in Targets
  PROVE  StepOf(t) \/ ObjectStep
<1>1. CASE \E u \in Targets, kind \in Kinds : Claim(w, u, kind)
  BY <1>1, ClaimOf DEF RowsInv
<1>2. CASE ~IdleWorker(w)
  <2>1. PICK u \in Targets, kind \in Kinds :
          /\ On(w, u, kind)
          /\ \/ Ends(w, u, kind)
             \/ ExecuteCall(w) \/ (ContainerFinished(w) /\ Holds(w)) \/ (Uploaded(w) /\ ~Holds(w))
    BY <1>2, BusyStep
  <2>2. CASE attempt[w].pc # "hold"
    BY <2>1, <2>2, EndsOf, MovesOf
  <2>3. CASE attempt[w].pc = "hold"
    <3>1. \E answered \in BOOLEAN : KeepPrivate(w, answered)
      BY <1>2, <2>3 DEF Working, Claim, ExecuteNothing, ExecuteUnready, ExecuteCheckpoint,
         ExecuteYouTubePublish, ExecuteCall, Executable, Uploaded, ContainerCreated, ContainerFinished,
         ContainerProcessing, ReelPublished, ProviderAnswered, Lost, Refused, Unread, ContainerInvalid, At
    <3> QED BY <3>1 DEF ObjectStep
  <2> QED BY <2>2, <2>3
<1>3. ~IdleWorker(w) \/ \E u \in Targets, kind \in Kinds : Claim(w, u, kind)
  BY DEF Working, ExecuteNothing, ExecuteUnready, ExecuteCheckpoint, ExecuteYouTubePublish, ExecuteCall,
     Executable, Uploaded, ContainerCreated, ContainerFinished, ContainerProcessing, ReelPublished,
     ProviderAnswered, Lost, Refused, Unread, ContainerInvalid, KeepPrivate, At
<1> QED BY <1>1, <1>2, <1>3

LEMMA CrashOf == ASSUME RowsInv, Crash, NEW t \in Targets PROVE StepOf(t)
<1>0. Typed /\ \A v \in Workers : AttemptOf(v, t)
  BY DEF RowsInv, Line
<1>1. /\ UNCHANGED <<route, target, job, fence, past, soon>> /\ \A v \in Workers : IdleWorker(v)'
      /\ unheld \subseteq unheld' /\ holds \subseteq unheld'
  BY DEF Crash, rows, clock, IdleWorker
<1>2. ASSUME NEW v \in Workers, On(v, t, "prepare"), route[t] = "youtube", attempt[v].made # 0
      PROVE  <<t, attempt[v].made>> \in unheld'
  <2>1. ~IdleWorker(v) /\ attempt[v].t = t /\ attempt[v].kind = "prepare" /\ attempt[v] \in Attempt /\ AttemptOf(v, t)
    BY <1>0, <1>2, AttemptType DEF On, Typed
  <2>2. attempt[v].pc \in {"upload", "hold"}
    BY <1>2, <2>1 DEF AttemptOf, Attempt
  <2> QED BY <1>2, <2>1, <2>2 DEF Crash, At
<1>3. \A v \in Workers : Carried(v, t) /\ Accounted(v, t)
  BY <1>1, <1>2 DEF Carried, Accounted
<1> QED BY <1>1, <1>3 DEF StepOf, Quiet, SameJobs, Owns, Kept

LEMMA RecoverOf ==
  ASSUME RowsInv, NEW u \in Targets, NEW kind \in Kinds, Recover(u, kind), NEW t \in Targets
  PROVE  StepOf(t)
<1>0. Typed /\ job[u][kind] \in JobRow /\ job \in [Targets -> [Kinds -> JobRow]] /\ target \in [Targets -> TargetRow]
  BY RowsOf DEF RowsInv, Typed, TypeOK
<1>1. UNCHANGED <<route, past, soon, fence, attempt, holds, unheld>>
  BY DEF Recover, clock, actors, ghosts
<1>2. CASE t # u
  <2>1. target'[t] = target[t] /\ job'[t] = job[t]
    BY <1>0, <1>2 DEF Recover
  <2> QED BY <1>1, <2>1, QuietIs DEF StepOf
<1>3. CASE t = u
  <2> DEFINE doubt == MayHaveReachedAudience(kind, u)
             next == AfterFailure("unknown", job[u][kind].attempt)
             s == IF doubt THEN "verification_required" ELSE next
             new == Spent(job[u][kind], s)
  <2>1. next \in {"queued", "failed"}
    BY FailureType
  <2>2. job' = [job EXCEPT ![u][kind] = new]
        /\ target' = [target EXCEPT ![u].status = IF doubt THEN "verification_required"
               ELSE IF next = "queued" THEN "scheduled" ELSE "failed"]
        /\ job[u][kind].status = "running" /\ (NamesOlderPost(u, kind) => "older_post" \in Faults)
    BY DEF Recover
  <2>3. new.status = s /\ new.lockedBy = "none"
    BY <1>0 DEF Spent, Unlocked, JobRow
  <2> HIDE DEF doubt, next, new, s
  <2>4. job'[u][kind] = new /\ Other(kind) \in Kinds /\ Other(kind) # kind /\ job'[u][Other(kind)] = job[u][Other(kind)]
    BY <1>0, <2>2 DEF Other, Kinds
  <2>5. target'[u].ext = target[u].ext /\ target'[u].prov = target[u].prov
        /\ target'[u].status = IF doubt THEN "verification_required"
               ELSE IF next = "queued" THEN "scheduled" ELSE "failed"
    BY <1>0, <2>2 DEF TargetRow
  <2>6. \A v \in Workers : ~Owns(v, u, kind)'
    BY <2>3, <2>4, VideoNamesAssumption DEF Owns
  <2>7. Taken(u, kind)
    BY <1>1, <2>1, <2>2, <2>3, <2>4, <2>5, <2>6 DEF Taken, doubt, s
  <2> QED BY <1>3, <2>7 DEF StepOf
<1> QED BY <1>2, <1>3

LEMMA SweepOf == ASSUME RowsInv, Sweeping, NEW t \in Targets PROVE StepOf(t)
<1>1. ASSUME NEW u \in Targets, NEW kind \in Kinds, Recover(u, kind) PROVE StepOf(t)
  BY <1>1, RecoverOf
<1>2. CASE (\E u \in Targets, kind \in Kinds : ReconClaim(u, kind)) \/ ReconDefer
  <2>1. UNCHANGED <<route, target, fence, past, soon, attempt, holds, unheld>>
    BY <1>2 DEF ReconClaim, ReconDefer, clock, ghosts
  <2>2. \A k \in Kinds : job'[t][k].status = job[t][k].status /\ \A v \in Workers : Owns(v, t, k)' <=> Owns(v, t, k)
    <3>1. Typed
      BY DEF RowsInv
    <3>2. CASE job' = job
      BY <3>2 DEF Owns
    <3>3. ASSUME NEW u \in Targets, NEW kind \in Kinds, ReconClaim(u, kind)
          PROVE  \A k \in Kinds : job'[t][k].status = job[t][k].status /\ \A v \in Workers : Owns(v, t, k)' <=> Owns(v, t, k)
      <4> DEFINE row == [job[u][kind] EXCEPT !.lockedBy = "recon"]
      <4>1. job[u][kind] \in JobRow /\ job[u][kind].status = "verification_required"
        BY <3>1, <3>3, RowsOf DEF ReconClaim, InDoubt
      <4>2. job' = [job EXCEPT ![u][kind] = row] /\ row.status = "verification_required"
        BY <3>3, <4>1 DEF ReconClaim, Typed, TypeOK, JobRow
      <4> HIDE DEF row
      <4> QED BY <3>1, <4>1, <4>2, DoubtLocked
    <3>4. CASE ReconDefer /\ job' # job
      <4>1. PICK u \in Targets, kind \in Kinds : recon.t = u /\ recon.kind = kind
        BY <3>1, <3>4 DEF ReconDefer, Typed, TypeOK, Question
      <4> DEFINE row == [job[u][kind] EXCEPT !.lockedBy = "none", !.reconcile = @ + 1]
      <4>2. job[u][kind] \in JobRow /\ job[u][kind].status = "verification_required"
        BY <3>1, <3>4, <4>1, RowsOf DEF ReconDefer, Asked
      <4>3. job' = [job EXCEPT ![u][kind] = row] /\ row.status = "verification_required"
        BY <3>1, <3>4, <4>1, <4>2 DEF ReconDefer, Typed, TypeOK, JobRow
      <4> HIDE DEF row
      <4> QED BY <3>1, <4>2, <4>3, DoubtLocked
    <3> QED BY <1>2, <3>2, <3>3, <3>4
  <2>3. \A v \in Workers : Carried(v, t) /\ Accounted(v, t)
    BY <2>1 DEF Carried, Accounted, On, IdleWorker
  <2> QED BY <2>1, <2>2, <2>3 DEF StepOf, Quiet, SameJobs, Kept
<1>3. CASE Prune
  BY <1>3, QuietIs DEF StepOf, Prune, clock, actors, ghosts
<1>4. CASE ReconConfirm
  <2>1. UNCHANGED <<past, soon, fence, attempt, holds, unheld>> /\ recon # Idle /\ Confirmed
    BY <1>4 DEF ReconConfirm, clock, ghosts
  <2>2. CASE t = recon.t /\ target'[t] # target[t]
    <3>1. /\ recon.kind = "publish" /\ Subject # 0 /\ Subject \in ObjectIds
      <4>1. Subject \in 0 .. MaxObjects
        BY <2>1, VideoBoundsAssumption DEF Subject, RowsInv, Typed, TypeOK, Question
      <4> QED BY <2>1, <4>1, ConfirmIsPublish DEF ObjectIds
    <3> QED BY <1>4, <2>1, <2>2, <3>1, ConfirmWrites DEF StepOf, FoundOut, Status
  <2>3. CASE target'[t] = target[t]
    <3>1. SameJobs(t)
      <4>1. CASE t # recon.t \/ job' = job
        BY <1>4, <4>1, ConfirmWrites DEF SameJobs, Owns
      <4>2. CASE t = recon.t /\ job' # job
        BY <1>4, <4>2, ConfirmWrites DEF SameJobs, Owns, Kinds
      <4> QED BY <4>1, <4>2
    <3>2. \A v \in Workers : Carried(v, t) /\ Accounted(v, t)
      BY <2>1 DEF Carried, Accounted, On, IdleWorker
    <3> QED BY <2>1, <2>3, <3>1, <3>2 DEF StepOf, Quiet, Kept
  <2> QED BY <1>4, <2>2, <2>3, ConfirmWrites
<1> QED BY <1>1, <1>2, <1>3, <1>4 DEF Sweeping

LEMMA EditingOf ==
  ASSUME RowsInv, NEW t \in Targets,
         (\E chosen \in SUBSET Targets : ChooseTargets(chosen)) \/ (\E u \in Targets : Remove(u))
  PROVE  StepOf(t)
<1>0. Flow(t) /\ target \in [Targets -> TargetRow] /\ job \in [Targets -> [Kinds -> JobRow]]
  BY DEF RowsInv, Line, Typed, TypeOK
<1>1. /\ NoTarget.status = "absent" /\ NoTarget.ext = 0 /\ NoTarget.prov = 0 /\ NoRow.status = "no_row"
      /\ LET e == [NoTarget EXCEPT !.status = "editing"] IN e.status = "editing" /\ e.ext = 0 /\ e.prov = 0
  BY DEF NoTarget, NoRow
<1>2. ASSUME NEW chosen \in SUBSET Targets, ChooseTargets(chosen) PROVE StepOf(t)
  <2>1. UNCHANGED <<past, soon, fence, attempt, holds, unheld>>
    BY <1>2 DEF ChooseTargets, clock, actors, ghosts
  <2>2. target[t].status \in {"absent", "editing"} /\ fence[t] = 0 /\ \A k \in Kinds : job[t][k].status = "no_row"
    BY <1>0, <1>2 DEF ChooseTargets, Flow, FlowOf, Kinds
  <2>3. target'[t].status \in {"absent", "editing"} /\ target'[t].ext = 0 /\ target'[t].prov = 0
        /\ \A k \in Kinds : job'[t][k].status = "no_row"
    BY <1>1, <1>2 DEF ChooseTargets
  <2> QED BY <2>1, <2>2, <2>3 DEF StepOf, Emptied
<1>3. ASSUME NEW u \in Targets, Remove(u) PROVE StepOf(t)
  <2>1. UNCHANGED <<past, soon, fence, attempt, holds, unheld>>
    BY <1>3 DEF Remove, clock, actors, ghosts
  <2>2. CASE t # u
    <3>1. target'[t] = target[t] /\ job'[t] = job[t]
      BY <1>0, <1>3, <2>2 DEF Remove
    <3> QED BY <2>1, <3>1, QuietIs DEF StepOf
  <2>3. CASE t = u
    <3>1. target[t].status = "editing" /\ fence[t] = 0 /\ \A k \in Kinds : job[t][k].status = "no_row"
      BY <1>0, <1>3, <2>3 DEF Remove, Flow, FlowOf, Kinds
    <3>2. target'[t].status = "absent" /\ target'[t].ext = 0 /\ target'[t].prov = 0
          /\ \A k \in Kinds : job'[t][k].status = "no_row"
      BY <1>0, <1>1, <1>3, <2>3 DEF Remove
    <3> QED BY <2>1, <3>1, <3>2 DEF StepOf, Emptied
  <2> QED BY <2>2, <2>3
<1> QED BY <1>2, <1>3

LEMMA ScheduleOf ==
  ASSUME RowsInv, NEW ts \in SUBSET Targets, Schedule(ts), NEW t \in Targets
  PROVE  StepOf(t)
<1>0. Typed /\ target \in [Targets -> TargetRow] /\ Arm(ts, Kinds, FALSE)
  BY DEF RowsInv, Typed, TypeOK, Schedule
<1>1. UNCHANGED <<route, attempt, holds, unheld, asking>>
  BY DEF Schedule, actors, ghosts
<1>2. CASE t \in ts
  <2>1. /\ \A k \in Kinds : job[t][k].status # "running" /\ job'[t][k].status = "queued"
        /\ fence'[t] = fence[t] + 1
    BY <1>0, <1>2, ArmWrites
  <2>2. target[t].status \in Schedulable /\ target'[t] = [target[t] EXCEPT !.status = "scheduled"]
    BY <1>2 DEF Schedule
  <2>3. target'[t].status = "scheduled" /\ target'[t].ext = target[t].ext /\ target'[t].prov = target[t].prov
    BY <1>0, <2>2 DEF TargetRow
  <2> QED BY <1>1, <2>1, <2>2, <2>3 DEF StepOf, Armed, Schedulable
<1>3. CASE t \notin ts
  <2>1. job'[t] = job[t] /\ fence'[t] = fence[t] /\ target'[t] = target[t] /\ past'[t] = past[t] /\ soon'[t] = soon[t]
    BY <1>0, <1>3, ArmWrites DEF Schedule
  <2> QED BY <1>1, <2>1, QuietIs DEF StepOf
<1> QED BY <1>2, <1>3

\* retryVideoTarget's transaction, at its own target and at the others.
LEMMA RetriedAt ==
  ASSUME Typed, NEW u \in Targets, NEW tg \in TargetRow, RetryWrite(u, tg),
         route[u] = "youtube" => tg.ext = 0,
         NEW t \in Targets
  PROVE  /\ t = u => /\ \A k \in Kinds : job[t][k].status # "running" /\ job'[t][k].status = "queued"
                     /\ fence'[t] = fence[t] + 1 /\ target'[t].status = "scheduled" /\ target'[t].ext = 0
                     /\ target'[t].prov = tg.prov
         /\ t # u => job'[t] = job[t] /\ fence'[t] = fence[t] /\ target'[t] = target[t] /\ soon'[t] = soon[t]
<1>1. /\ \A k \in Kinds : job[u][k].status # "running" /\ job'[u][k].status = "queued"
      /\ fence'[u] = fence[u] + 1 /\ due'[u] = FALSE
      /\ target'[u].status = "scheduled" /\ target'[u].ext = 0 /\ target'[u].prov = tg.prov
      /\ \A v \in Targets : v # u => /\ job'[v] = job[v] /\ fence'[v] = fence[v] /\ due'[v] = due[v] /\ soon'[v] = soon[v]
                                     /\ target'[v] = target[v]
      /\ draft'.status = "scheduled" /\ draft'.retention = FALSE /\ draft'.pruned = draft.pruned
  BY RetryWrites
<1> QED BY <1>1

LEMMA RetryOf ==
  ASSUME RowsInv, NEW u \in Targets, Retry(u), NEW t \in Targets
  PROVE  StepOf(t)
<1>0. Typed /\ target[u] \in TargetRow /\ Flow(u)
  BY DEF RowsInv, Line, Typed, TypeOK
<1>1. UNCHANGED <<route, past, attempt, holds, unheld, asking>> /\ RetryWrite(u, target[u]) /\ target[u].status = "failed"
      /\ ~Askable(u)
  BY DEF Retry, actors, ghosts, RetryWrite
<1>2. route[u] = "youtube" => target[u].ext = 0
  BY <1>0, <1>1 DEF Flow, FlowOf
<1>3. PICK row \in TargetRow : row = target[u]
  BY <1>0
<1>4. /\ t = u => /\ \A k \in Kinds : job[t][k].status # "running" /\ job'[t][k].status = "queued"
                  /\ fence'[t] = fence[t] + 1 /\ target'[t].status = "scheduled" /\ target'[t].ext = 0
                  /\ target'[t].prov = row.prov
      /\ t # u => job'[t] = job[t] /\ fence'[t] = fence[t] /\ target'[t] = target[t] /\ soon'[t] = soon[t]
  <2>1. RetryWrite(u, row) /\ (route[u] = "youtube" => row.ext = 0)
    BY <1>1, <1>2, <1>3
  <2> QED BY <1>0, <2>1, RetriedAt
<1>5. CASE t = u
  BY <1>1, <1>3, <1>4, <1>5 DEF StepOf, Armed
<1>6. CASE t # u
  BY <1>1, <1>4, <1>6, QuietIs DEF StepOf
<1> QED BY <1>5, <1>6

LEMMA AnswerOf ==
  ASSUME RowsInv, AnswerRecorded, NEW t \in Targets
  PROVE  StepOf(t)
<1>1. PICK u \in Targets : u = asking.t
  BY AnswerIs
<1>2. PICK row \in TargetRow : row = RecordedRow
  BY AnswerIs
<1>3. /\ route[u] = "zernio" /\ target[u].status \in {"failed", "verification_required"} /\ target[u].ext = 0
      /\ row.prov = AskedPost /\ UNCHANGED <<route, past, attempt, holds, unheld>>
  BY <1>1, <1>2, AnswerIs
<1>4. target \in [Targets -> TargetRow] /\ Typed
  BY DEF RowsInv, Typed, TypeOK
<1>5. CASE RetryWrite(u, row) /\ row.status = "failed"
  <2>1. CASE t = u
    <3>1. /\ \A k \in Kinds : job[u][k].status # "running" /\ job'[u][k].status = "queued"
          /\ fence'[u] = fence[u] + 1
          /\ target'[u].status = "scheduled" /\ target'[u].ext = 0 /\ target'[u].prov = row.prov
      <4>1. RetryWrite(u, row) /\ (route[u] = "youtube" => row.ext = 0)
        BY <1>3, <1>5
      <4> QED BY <1>4, <4>1, RetriedAt
    <3> QED BY <1>1, <1>2, <1>3, <1>5, <2>1, <3>1 DEF StepOf, Armed
  <2>2. CASE t # u
    <3>1. job'[t] = job[t] /\ fence'[t] = fence[t] /\ target'[t] = target[t] /\ soon'[t] = soon[t]
      <4>1. RetryWrite(u, row) /\ (route[u] = "youtube" => row.ext = 0)
        BY <1>3, <1>5
      <4> QED BY <1>4, <2>2, <4>1, RetriedAt
    <3> QED BY <1>3, <3>1, QuietIs DEF StepOf
  <2> QED BY <2>1, <2>2
<1>6. CASE target' = [target EXCEPT ![u] = row] /\ UNCHANGED <<job, fence, soon>>
  <2>1. CASE t = u
    <3>1. target'[u] = row /\ SameJobs(u)
      BY <1>4, <1>6 DEF SameJobs, Owns
    <3> QED BY <1>1, <1>2, <1>3, <1>6, <2>1, <3>1 DEF StepOf, Told
  <2>2. CASE t # u
    <3>1. target'[t] = target[t]
      BY <1>4, <1>6, <2>2
    <3> QED BY <1>3, <1>6, <3>1, QuietIs DEF StepOf
  <2> QED BY <2>1, <2>2
<1> QED BY <1>1, <1>2, <1>5, <1>6, AnswerIs

LEMMA SettleKnownOf ==
  ASSUME RowsInv, NEW u \in Targets, NEW k \in ObjectIds, SettleKnown(u, k), NEW t \in Targets
  PROVE  StepOf(t)
<1>0. target \in [Targets -> TargetRow] /\ Flow(u)
  BY DEF RowsInv, Line, Typed, TypeOK
<1>1. /\ UNCHANGED <<route, job, fence, past, soon, attempt, holds, unheld>> /\ route[u] = "zernio" /\ object[u][k] = "public"
      /\ target[u].ext = 0 /\ target[u].status \in {"verification_required", "published", "failed"}
      /\ target' = [target EXCEPT ![u] = [status |-> "published", ext |-> k, prov |-> target[u].prov]]
  BY <1>0 DEF SettleKnown, clock, actors, ghosts
<1>2. target[u].status # "published"
  BY <1>0, <1>1 DEF Flow, FlowOf
<1>3. CASE t = u
  <2>1. target'[u].status = "published" /\ target'[u].ext = k /\ target'[u].prov = target[u].prov
    BY <1>0, <1>1
  <2>2. SameJobs(u)
    BY <1>1 DEF SameJobs, Owns
  <2> QED BY <1>1, <1>2, <1>3, <2>1, <2>2 DEF StepOf, Told
<1>4. CASE t # u
  <2>1. target'[t] = target[t]
    BY <1>0, <1>1, <1>4
  <2> QED BY <1>1, <2>1, QuietIs DEF StepOf
<1> QED BY <1>3, <1>4

LEMMA CancelOf == ASSUME RowsInv, Cancel, NEW t \in Targets PROVE StepOf(t)
<1>1. UNCHANGED <<route, fence, past, soon, attempt, unheld>> /\ holds = {}
  BY DEF Cancel, clock, ghosts
<1>2. /\ \A k \in Kinds : job[t][k].status # "running" /\ job'[t][k].status # "running"
      /\ target'[t].ext = target[t].ext /\ target'[t].prov = target[t].prov
      /\ target'[t].status = IF target[t].status \in {"absent", "published"} THEN target[t].status ELSE "cancelled"
  BY CancelWrites DEF RowsInv
<1>3. route[t] = "youtube" /\ target[t].status # "published" /\ target[t].ext # 0 /\ fence[t] > 0 /\ ~past[t] =>
       <<t, target[t].ext>> \in holds'
  BY DEF Cancel
<1> QED BY <1>1, <1>2, <1>3 DEF StepOf, CancelledNow

\* Every step leaves a target alone, does one of these things to it, or changes
\* only what a platform holds.
LEMMA NextOf ==
  ASSUME RowsInv, [Next]_vars, NEW t \in Targets
  PROVE  (StepOf(t) /\ UNCHANGED object) \/ ObjectStep
<1>1. StepOf(t) \/ ObjectStep
  <2>1. CASE \E w \in Workers : Working(w)
    BY <2>1, WorkingOf
  <2>2. CASE Sweeping
    BY <2>2, SweepOf
  <2>3. CASE Platform
    BY <2>3, QuietIs DEF Platform, ObjectStep, StepOf, ReconAnswers, TimePasses, RetryDue, rows, clock, actors,
       ghosts, RowsInv, Typed, TypeOK
  <2>4. CASE Operating
    <3>1. ASSUME NEW u \in Targets, AskBeforeRetry(u) \/ Settle(u) \/ AnswerDropped PROVE StepOf(t)
      BY <3>1, QuietIs DEF StepOf, AskBeforeRetry, Settle, AnswerDropped, rows, clock, ghosts
    <3>2. ASSUME NEW ts \in SUBSET Targets, Schedule(ts) PROVE StepOf(t)
      BY <3>2, ScheduleOf
    <3>3. ASSUME NEW u \in Targets, Retry(u) PROVE StepOf(t)
      BY <3>3, RetryOf
    <3>4. ASSUME NEW u \in Targets, NEW k \in ObjectIds, SettleKnown(u, k) PROVE StepOf(t)
      BY <3>4, SettleKnownOf
    <3> QED BY <2>4, <3>1, <3>2, <3>3, <3>4, EditingOf, AnswerOf, CancelOf DEF Operating, ObjectStep
  <2>5. CASE Crash
    BY <2>5, CrashOf
  <2>6. CASE UNCHANGED vars
    BY <2>6, QuietIs DEF StepOf, vars, rows, clock, actors, ghosts
  <2> QED BY <2>1, <2>2, <2>3, <2>4, <2>5, <2>6 DEF Next
<1>2. UNCHANGED object \/ ObjectStep
  <2>1. ASSUME NEW w \in Workers, Working(w) PROVE UNCHANGED object \/ ObjectStep
    BY <2>1 DEF Working, ObjectStep, Claim, ExecuteNothing, ExecuteUnready, ExecuteCheckpoint,
       ExecuteYouTubePublish, ExecuteCall, Uploaded, ContainerCreated, ContainerFinished,
       ContainerProcessing, ContainerInvalid, ReelPublished, ProviderAnswered, Lost, Refused, Unread, Fail, FailJob,
       RequireVerification
  <2>2. CASE Sweeping
    BY <2>2 DEF Sweeping, Recover, ReconClaim, ReconConfirm, ReconDefer, Prune
  <2>3. CASE Platform
    BY <2>3 DEF Platform, ObjectStep, TimePasses, RetryDue, ReconAnswers
  <2>4. CASE Operating
    BY <2>4 DEF Operating, ObjectStep, ChooseTargets, Schedule, Remove, Retry, AskBeforeRetry, Settle,
       SettleKnown, AnswerRecorded, AnswerDropped, Cancel
  <2>5. CASE Crash \/ UNCHANGED vars
    BY <2>5 DEF Crash, vars
  <2> QED BY <2>1, <2>2, <2>3, <2>4, <2>5 DEF Next
<1> QED BY <1>1, <1>2

-----------------------------------------------------------------------------
(* The rows and the platforms agree *)

Nothing(t) == \A k \in ObjectIds : object[t][k] = "none"
NonePublic(t) == \A k \in ObjectIds : object[t][k] # "public"

\* One upload of a YouTube target exists, and where it is written down.
YouTube(t) ==
  /\ \A k \in ObjectIds : object[t][k] \in {"none", "scheduled", "public", "held"}
  /\ \A j, k \in ObjectIds : object[t][j] # "none" /\ object[t][k] # "none" => j = k
  /\ target[t].ext # 0 => /\ object[t][target[t].ext] # "none"
                          /\ Status(t) # "cancelled" => object[t][target[t].ext] # "held"
  /\ Status(t) = "published" => object[t][target[t].ext] = "public" \/ past[t] \/ soon[t]
  /\ ~Frozen(t) /\ target[t].ext = 0 /\ job[t]["prepare"].status # "running" => Nothing(t)
  /\ \A w \in Workers : On(w, t, "prepare") =>
       /\ attempt[w].made = 0 => Nothing(t)
       /\ attempt[w].made # 0 => object[t][attempt[w].made] \in {"scheduled", "public"}
  /\ \A k \in ObjectIds : object[t][k] = "scheduled" /\ k # target[t].ext =>
       <<t, k>> \in unheld \/ \E w \in Workers : On(w, t, "prepare") /\ attempt[w].made = k
  /\ Status(t) = "cancelled" /\ ~past[t] /\ target[t].ext # 0 /\ object[t][target[t].ext] = "scheduled" =>
       <<t, target[t].ext>> \in holds \cup unheld

\* An Instagram container is published once, by the attempt that owns the job.
Native(t) ==
  /\ \A k \in ObjectIds : object[t][k] \in {"none", "container", "public"}
  /\ \A j, k \in ObjectIds : object[t][j] = "public" /\ object[t][k] = "public" => j = k
  /\ Status(t) = "published" => object[t][target[t].ext] = "public"
  /\ ~Frozen(t) /\ Status(t) # "published" /\ job[t]["publish"].status # "running" => NonePublic(t)
  /\ \A w \in Workers : On(w, t, "publish") =>
       /\ attempt[w].made = 0 => NonePublic(t)
       /\ attempt[w].made # 0 => object[t][attempt[w].made] = "public"

\* What the provider's posts may be, and that a published target names one that is out.
Zernio(t) ==
  /\ \A k \in ObjectIds : object[t][k] \in {"none", "accepted", "public", "refused"}
  /\ Status(t) = "published" => object[t][target[t].ext] = "public"

Platforms ==
  \A t \in Targets : /\ route[t] = "youtube" => YouTube(t)
                     /\ route[t] = "native" => Native(t)
                     /\ route[t] = "zernio" => Zernio(t)
HoldsInv == \A t \in Targets, k \in ObjectIds :
  <<t, k>> \in holds => route[t] = "youtube" /\ Status(t) = "cancelled" /\ k = target[t].ext
\* What the sweep saw public is public, unless a cancelled upload was held meanwhile.
ReconTruth ==
  recon # Idle /\ recon.seen = "public" /\ (route[recon.t] = "zernio" \/ Status(recon.t) # "cancelled") =>
    object[recon.t][Subject] = "public"
\* What the provider said of a post that is out or refused holds for ever.
AskedTruth ==
  asking # Idle /\ asking.seen \in {"public", "refused"} => object[asking.t][AskedPost] = asking.seen
PlatformInv == Platforms /\ HoldsInv /\ ReconTruth /\ AskedTruth

\* A step that gives a YouTube target no new upload and touches none.
LEMMA YouTubeRows ==
  ASSUME NEW t \in Targets, YouTube(t), route[t] = "youtube", route'[t] = route[t], object'[t] = object[t],
         target'[t].ext = target[t].ext,
         target'[t].status = "published" => object[t][target[t].ext] = "public" \/ past'[t] \/ soon'[t],
         Status(t) = "cancelled" => target'[t].status = "cancelled" \/ target[t].ext = 0,
         ~Frozen(t)' /\ target[t].ext = 0 /\ job'[t]["prepare"].status # "running" =>
           (~Frozen(t) /\ job[t]["prepare"].status # "running") \/ Nothing(t),
         \A v \in Workers : Carried(v, t) /\ Accounted(v, t), Kept,
         target'[t].status = "cancelled" /\ ~past'[t] /\ target[t].ext # 0 =>
           (Status(t) = "cancelled" /\ ~past[t]) \/ <<t, target[t].ext>> \in holds' \cup unheld'
  PROVE  YouTube(t)'
<1>1. /\ \A k \in ObjectIds : object'[t][k] \in {"none", "scheduled", "public", "held"}
      /\ \A j, k \in ObjectIds : object'[t][j] # "none" /\ object'[t][k] # "none" => j = k
      /\ target'[t].ext # 0 => /\ object'[t][target'[t].ext] # "none"
                               /\ target'[t].status # "cancelled" => object'[t][target'[t].ext] # "held"
      /\ target'[t].status = "published" => object'[t][target'[t].ext] = "public" \/ past'[t] \/ soon'[t]
  BY DEF YouTube, Status
<1>2. ~Frozen(t)' /\ target'[t].ext = 0 /\ job'[t]["prepare"].status # "running" => Nothing(t)'
  BY DEF YouTube, Nothing
<1>3. ASSUME NEW w \in Workers, On(w, t, "prepare")'
      PROVE  /\ attempt'[w].made = 0 => Nothing(t)'
             /\ attempt'[w].made # 0 => object'[t][attempt'[w].made] \in {"scheduled", "public"}
  <2>1. On(w, t, "prepare") /\ attempt'[w].made = attempt[w].made
    BY <1>3 DEF On, Carried
  <2> QED BY <2>1 DEF YouTube, Nothing
<1>4. ASSUME NEW k \in ObjectIds, object'[t][k] = "scheduled", k # target'[t].ext
      PROVE  <<t, k>> \in unheld' \/ \E w \in Workers : On(w, t, "prepare")' /\ attempt'[w].made = k
  <2>1. CASE <<t, k>> \in unheld
    BY <2>1 DEF Kept
  <2>2. ASSUME NEW w \in Workers, On(w, t, "prepare"), attempt[w].made = k
        PROVE  <<t, k>> \in unheld' \/ (On(w, t, "prepare")' /\ attempt'[w].made = k)
    <3>1. k # 0
      BY DEF ObjectIds
    <3> QED BY <2>2, <3>1 DEF Accounted, On
  <2>3. <<t, k>> \in unheld \/ \E w \in Workers : On(w, t, "prepare") /\ attempt[w].made = k
    BY <1>4 DEF YouTube
  <2> QED BY <2>1, <2>2, <2>3
<1>5. target'[t].status = "cancelled" /\ ~past'[t] /\ target'[t].ext # 0 /\ object'[t][target'[t].ext] = "scheduled" =>
       <<t, target'[t].ext>> \in holds' \cup unheld'
  BY DEF YouTube, Kept, Status
<1> QED BY <1>1, <1>2, <1>3, <1>4, <1>5 DEF YouTube, Status

LEMMA SameAttempts ==
  ASSUME NEW t \in Targets, attempt' = attempt, unheld \subseteq unheld'
  PROVE  \A v \in Workers : Carried(v, t) /\ Accounted(v, t)
  BY DEF Carried, Accounted, On, IdleWorker

LEMMA RouteStays == [Next]_vars => route' = route
<1> SUFFICES ASSUME [Next]_vars PROVE route' = route
  OBVIOUS
<1>1. ASSUME NEW w \in Workers, Working(w) PROVE route' = route
  BY <1>1 DEF Working, Claim, ExecuteNothing, ExecuteUnready, ExecuteCheckpoint, ExecuteYouTubePublish,
     ExecuteCall, Uploaded, ContainerCreated, ContainerFinished, ContainerProcessing, ContainerInvalid,
     ReelPublished, ProviderAnswered, Lost, Refused, Unread, Fail, FailJob, RequireVerification, KeepPrivate
<1>2. CASE Sweeping
  BY <1>2 DEF Sweeping, Recover, ReconClaim, ReconConfirm, ReconDefer, Prune
<1>3. CASE Platform
  BY <1>3 DEF Platform, Reaches, GoesPublic, RefusedByPlatform, AskAnswers, TimePasses, RetryDue, ReconAnswers
<1>4. CASE Operating
  BY <1>4 DEF Operating, ChooseTargets, Schedule, Remove, Retry, AskBeforeRetry, Settle, SettleKnown,
     AnswerRecorded, AnswerDropped, Cancel, Hold
<1>5. CASE Crash \/ UNCHANGED vars
  BY <1>5 DEF Crash, vars
<1> QED BY <1>1, <1>2, <1>3, <1>4, <1>5 DEF Next

\* A YouTube upload of an attempt that has just ended.
LEMMA YouTubeEnded ==
  ASSUME RowsInv, Readable, NEW t \in Targets, YouTube(t), route[t] = "youtube", route' = route, object' = object,
         NEW w \in Workers, NEW kind \in Kinds, NEW row \in TargetRow, NEW mine \in JobStatus, NEW other \in JobStatus,
         Settled(w, t, kind, row, mine, other), Outcome(w, t, kind, row, mine, other)
  PROVE  YouTube(t)'
<1>0. Typed /\ Line(t) /\ Flow(t) /\ AttemptOf(w, t) /\ On(w, t, kind) /\ Owns(w, t, kind) /\ Open(t)
  BY AttemptFacts DEF RowsInv, Line, Settled, Ending
<1>1. /\ target'[t] = row /\ IdleWorker(w)' /\ \A v \in Workers : v # w => attempt'[v] = attempt[v]
      /\ past' = past /\ soon' = soon /\ holds' = holds /\ unheld \subseteq unheld'
  BY <1>0, SettledOthers DEF Settled, Ending
<1>2. attempt[w].t = t /\ attempt[w].kind = kind /\ ~IdleWorker(w) /\ attempt[w].made \in 0 .. MaxObjects
      /\ attempt[w] \in Attempt
  BY <1>0, AttemptType DEF On, Typed
<1>3. CASE Prepared(w, t, kind, row, mine, other)
  <2> DEFINE k == attempt[w].made
  <2>1. kind = "prepare" /\ row.status = "prepared" /\ row.ext = k /\ k # 0 /\ k \in ObjectIds
    BY <1>2, <1>3 DEF Prepared, ObjectIds
  <2>2. object[t][k] \in {"scheduled", "public"} /\ \A j \in ObjectIds : object[t][j] # "none" => j = k
    <3>1. object[t][k] \in {"scheduled", "public"}
      BY <1>0, <2>1 DEF YouTube
    <3> QED BY <2>1, <3>1 DEF YouTube
  <2>3. ASSUME NEW v \in Workers PROVE ~On(v, t, "prepare")'
    <3>1. CASE v = w
      BY <1>1, <3>1 DEF On
    <3>2. CASE v # w
      <4>1. On(v, t, "prepare")' => On(v, t, "prepare")
        BY <1>1, <3>2 DEF On, IdleWorker
      <4>2. ~On(v, t, "prepare")
        BY <1>0, <2>1, <3>2, Alone DEF Solo
      <4> QED BY <4>1, <4>2
    <3> QED BY <3>1, <3>2
  <2> HIDE DEF k
  <2>4. \A j \in ObjectIds : object'[t][j] \in {"none", "scheduled", "public", "held"}
    BY DEF YouTube
  <2>5. \A i, j \in ObjectIds : object'[t][i] # "none" /\ object'[t][j] # "none" => i = j
    BY DEF YouTube
  <2> QED BY <1>1, <2>1, <2>2, <2>3, <2>4, <2>5 DEF YouTube, Status, Frozen
<1>4. CASE ~Prepared(w, t, kind, row, mine, other)
  <2>1. ~Processing(w, t, kind, row, mine, other)
    BY DEF Processing
  <2>2. row.ext = target[t].ext
    BY <1>4, <2>1 DEF Outcome, Published, Doubted, Failed
  <2>3. kind = "prepare" /\ attempt[w].made # 0 => <<t, attempt[w].made>> \in unheld'
    <3>1. kind = "prepare" /\ attempt[w].made # 0 => attempt[w].pc = "upload"
      BY <1>0, <1>2 DEF AttemptOf, Attempt, Open, Frozen, Status
    <3> QED BY <1>4, <2>1, <3>1 DEF Outcome, Published, Doubted, Failed
  <2>4. \A v \in Workers : Carried(v, t) /\ Accounted(v, t)
    BY <1>1, <1>2, <2>3 DEF Carried, Accounted, On, IdleWorker
  <2>5. row.status \in {"published", "verification_required", "scheduled", "failed"}
        /\ (row.status = "published" => past[t] \/ soon[t])
    BY <1>0, <1>4, <2>1 DEF Outcome, Published, Doubted, Failed, Owns, Flow, FlowOf
  <2>6. ~Frozen(t)' /\ target[t].ext = 0 =>
          (~Frozen(t) /\ job[t]["prepare"].status # "running") \/ Nothing(t)
    <3>1. CASE kind = "publish"
      BY <1>0, <3>1 DEF Flow, FlowOf, Owns, Open, Frozen, Status
    <3>2. CASE kind = "prepare" /\ row.status # "verification_required"
      <4>1. Failed(w, t, kind, row, mine, other)
        BY <1>4, <2>1, <3>2 DEF Outcome, Published, Doubted
      <4>2. attempt[w].made = 0
        BY <1>0, <1>2, <3>2, <4>1 DEF Failed, AttemptOf, Readable
      <4> QED BY <1>0, <3>2, <4>2 DEF YouTube
    <3> QED BY <1>1, <3>1, <3>2 DEF Kinds, Frozen, Status
  <2>7. Status(t) # "cancelled"
    BY <1>0 DEF Open
  <2> QED BY <1>1, <2>2, <2>4, <2>5, <2>6, <2>7, YouTubeRows DEF Kept
<1> QED BY <1>3, <1>4

LEMMA YouTubeClaimed ==
  ASSUME RowsInv, NEW t \in Targets, YouTube(t), route[t] = "youtube", route' = route, object' = object,
         NEW w \in Workers, NEW kind \in Kinds, Claim(w, t, kind)
  PROVE  YouTube(t)'
<1>0. Typed /\ Flow(t)
  BY DEF RowsInv, Line
<1>1. /\ target' = target /\ past' = past /\ soon' = soon /\ UNCHANGED <<holds, unheld>> /\ IdleWorker(w) /\ job[t][kind].status = "queued"
      /\ attempt'[w].made = 0 /\ attempt'[w].kind = kind /\ \A v \in Workers : v # w => attempt'[v] = attempt[v]
  BY <1>0 DEF Claim, clock, ghosts, Typed, TypeOK
<1>2. job'[t][kind].status = "running" /\ \A k \in Kinds : k # kind => job'[t][k] = job[t][k]
  <2>1. job[t] \in [Kinds -> JobRow] /\ job[t][kind] \in JobRow /\ job \in [Targets -> [Kinds -> JobRow]]
    BY <1>0 DEF Typed, TypeOK
  <2> DEFINE new == [job[t][kind] EXCEPT !.status = "running", !.lockedBy = w]
  <2>2. job' = [job EXCEPT ![t][kind] = new]
    BY <1>0 DEF Claim, Typed, TypeOK
  <2>3. new.status = "running"
    BY <2>1 DEF JobRow
  <2> HIDE DEF new
  <2> QED BY <2>1, <2>2, <2>3
<1>3. kind = "prepare" => Nothing(t)
  BY <1>0, <1>1 DEF Flow, FlowOf, YouTube, Frozen, Status
<1>4. ASSUME NEW v \in Workers, On(v, t, "prepare")'
      PROVE  /\ attempt'[v].made = 0 => Nothing(t)
             /\ attempt'[v].made # 0 => object[t][attempt'[v].made] \in {"scheduled", "public"}
  <2>1. CASE v = w
    BY <1>1, <1>3, <1>4, <2>1 DEF On
  <2>2. CASE v # w
    <3>1. On(v, t, "prepare")
      BY <1>1, <1>4, <2>2 DEF On, IdleWorker
    <3> QED BY <1>1, <2>2, <3>1 DEF YouTube
  <2> QED BY <2>1, <2>2
<1>5. ASSUME NEW k \in ObjectIds, object[t][k] = "scheduled", k # target[t].ext
      PROVE  <<t, k>> \in unheld' \/ \E v \in Workers : On(v, t, "prepare")' /\ attempt'[v].made = k
  <2>1. \A v \in Workers : On(v, t, "prepare") => v # w /\ On(v, t, "prepare")' /\ attempt'[v].made = attempt[v].made
    BY <1>1 DEF On, IdleWorker
  <2> QED BY <1>1, <1>5, <2>1 DEF YouTube
<1>6. ~Frozen(t) /\ target[t].ext = 0 /\ job'[t]["prepare"].status # "running" => Nothing(t)
  BY <1>2, <1>3 DEF YouTube, Kinds
<1>7. /\ \A k \in ObjectIds : object'[t][k] \in {"none", "scheduled", "public", "held"}
      /\ \A j, k \in ObjectIds : object'[t][j] # "none" /\ object'[t][k] # "none" => j = k
      /\ target[t].ext # 0 => /\ object[t][target[t].ext] # "none"
                              /\ Status(t) # "cancelled" => object[t][target[t].ext] # "held"
      /\ Status(t) = "published" => object[t][target[t].ext] = "public" \/ past[t] \/ soon[t]
      /\ Status(t) = "cancelled" /\ ~past[t] /\ target[t].ext # 0 /\ object[t][target[t].ext] = "scheduled" =>
            <<t, target[t].ext>> \in holds \cup unheld
  BY DEF YouTube
<1> QED BY <1>1, <1>4, <1>5, <1>6, <1>7 DEF YouTube, Status, Frozen, Nothing

\* The other things that happen to a YouTube target's rows.
LEMMA YouTubeTold ==
  ASSUME RowsInv, RowsInv', ReconTruth, NEW t \in Targets, YouTube(t), route[t] = "youtube", route' = route,
         object' = object,
         \/ Quiet(t) \/ Emptied(t) \/ Armed(t) \/ Told(t) \/ CancelledNow(t) \/ FoundOut(t)
         \/ \E kind \in Kinds : Taken(t, kind)
  PROVE  YouTube(t)'
<1>0. Typed /\ Flow(t) /\ Flow(t)'
  BY DEF RowsInv, Line
<1>1. CASE Quiet(t)
  <2>1. ~Frozen(t)' /\ target[t].ext = 0 /\ job'[t]["prepare"].status # "running" =>
          ~Frozen(t) /\ job[t]["prepare"].status # "running"
    BY <1>1 DEF Quiet, SameJobs, Frozen, Status, Kinds
  <2>2. target'[t].status = "published" => object[t][target[t].ext] = "public" \/ past'[t] \/ soon'[t]
    BY <1>1 DEF Quiet, YouTube, Status
  <2> QED BY <1>1, <2>1, <2>2, YouTubeRows DEF Quiet, Status
<1>2. CASE Emptied(t)
  <2>1. target[t].ext = 0 /\ ~Frozen(t) /\ Status(t) # "cancelled" /\ job[t]["prepare"].status # "running"
    BY <1>0, <1>2 DEF Emptied, Flow, FlowOf, Frozen, Status, Kinds
  <2>2. target'[t].ext = 0 /\ target'[t].status \in {"absent", "editing"} /\ Kept
        /\ \A v \in Workers : Carried(v, t) /\ Accounted(v, t)
    BY <1>2, SameAttempts DEF Emptied, Kept
  <2> QED BY <2>1, <2>2, YouTubeRows
<1>3. CASE Armed(t)
  <2>1. target[t].status \in Schedulable \cup {"failed"} /\ target'[t].status = "scheduled"
        /\ (target'[t].ext = target[t].ext \/ (target[t].status = "failed" /\ target'[t].ext = 0))
    BY <1>3, AnswerIs DEF Armed
  <2>2. target'[t].ext = target[t].ext
    BY <1>0, <2>1 DEF Flow, FlowOf
  <2>3. ~Frozen(t) /\ Status(t) # "cancelled" /\ job[t]["prepare"].status # "running" /\ Kept
        /\ \A v \in Workers : Carried(v, t) /\ Accounted(v, t)
    BY <1>3, <2>1, SameAttempts DEF Armed, Schedulable, Frozen, Status, Kept, Kinds
  <2> QED BY <2>1, <2>2, <2>3, YouTubeRows
<1>4. CASE CancelledNow(t)
  <2>1. /\ target'[t].ext = target[t].ext /\ Kept /\ past'[t] = past[t] /\ soon'[t] = soon[t]
        /\ \A v \in Workers : Carried(v, t) /\ Accounted(v, t)
    BY <1>4, SameAttempts DEF CancelledNow, Kept
  <2>2. target'[t].status = IF target[t].status \in {"absent", "published"} THEN target[t].status ELSE "cancelled"
    BY <1>4 DEF CancelledNow
  <2>3. target'[t].status = "published" => object[t][target[t].ext] = "public" \/ past'[t] \/ soon'[t]
    BY <2>1, <2>2 DEF YouTube, Status
  <2>4. ~Frozen(t)' => ~Frozen(t) /\ job[t]["prepare"].status # "running"
    BY <1>4, <2>2 DEF CancelledNow, Frozen, Status, Kinds
  <2>5. target'[t].status = "cancelled" /\ ~past'[t] /\ target[t].ext # 0 =>
           (Status(t) = "cancelled" /\ ~past[t]) \/ <<t, target[t].ext>> \in holds' \cup unheld'
    <3>1. target[t].ext # 0 => fence[t] > 0
      BY <1>0 DEF Flow, FlowOf, Typed, TypeOK
    <3> QED BY <1>4, <2>1, <2>2, <3>1 DEF CancelledNow, Status
  <2> QED BY <2>1, <2>2, <2>3, <2>4, <2>5, YouTubeRows DEF Status
<1>5. CASE FoundOut(t)
  <2>1. recon # Idle /\ recon.t = t /\ Confirmed /\ Subject = target[t].ext /\ Subject # 0
    BY <1>5, ConfirmIsPublish DEF FoundOut
  <2>2. recon.seen = "public"
    BY <1>5, <2>1 DEF Confirmed, FoundOut
  <2>3. object[t][target[t].ext] = "public"
    BY <1>5, <2>1, <2>2 DEF ReconTruth, FoundOut, Status
  <2>4. target'[t].ext = target[t].ext /\ target'[t].status = "published" /\ Status(t) # "cancelled" /\ Kept
        /\ \A v \in Workers : Carried(v, t) /\ Accounted(v, t)
    BY <1>5, <2>1, SameAttempts DEF FoundOut, Status, Kept
  <2> QED BY <2>1, <2>3, <2>4, YouTubeRows
<1>6. ASSUME NEW kind \in Kinds, Taken(t, kind) PROVE YouTube(t)'
  <2>1. Status(t) # "cancelled"
    BY <1>0, <1>6 DEF Taken, Flow, FlowOf, Status, Kinds
  <2>2. target'[t].ext = target[t].ext /\ target'[t].status = "verification_required" /\ Kept
        /\ \A v \in Workers : Carried(v, t) /\ Accounted(v, t)
    BY <1>6, SameAttempts DEF Taken, MayHaveReachedAudience, Kept
  <2> QED BY <2>1, <2>2, YouTubeRows DEF Frozen, Status
<1>7. CASE Told(t)
  BY <1>7 DEF Told
<1> QED BY <1>1, <1>2, <1>3, <1>4, <1>5, <1>6, <1>7

LEMMA ObjectStepRows == ObjectStep => UNCHANGED <<route, target, job, fence, past, soon, draft>>
  BY DEF ObjectStep, Reaches, KeepPrivate, GoesPublic, RefusedByPlatform, AskAnswers, Hold, rows, clock

\* The call of an attempt arrives.
LEMMA ReachesIs ==
  ASSUME RowsInv, NEW w \in Workers, Reaches(w)
  PROVE  \E t \in Targets, kind \in Kinds, id \in ObjectIds :
           /\ On(w, t, kind) /\ attempt[w].made = 0 /\ attempt'[w].made = id
           /\ attempt'[w].t = t /\ attempt'[w].kind = kind /\ attempt'[w].fence = attempt[w].fence /\ ~IdleWorker(w)'
           /\ \A v \in Workers : v # w => attempt'[v] = attempt[v]
           /\ \A u \in Targets : u # t => object'[u] = object[u]
           /\ \A k \in ObjectIds : k # id => object'[t][k] = object[t][k]
           /\ UNCHANGED <<recon, asking, holds, unheld>>
           /\ \/ route[t] = "youtube" /\ kind = "prepare" /\ object[t][id] = "none" /\ object'[t][id] = "scheduled"
              \/ route[t] = "native" /\ kind = "prepare" /\ object[t][id] = "none" /\ object'[t][id] = "container"
              \/ route[t] = "native" /\ kind = "publish" /\ object[t][id] = "container" /\ object'[t][id] = "public"
              \/ route[t] = "zernio" /\ kind = "publish" /\ id = attempt[w].fence
                 /\ object'[t][id] = IF object[t][id] = "none" THEN "accepted" ELSE object[t][id]
<1>0. Typed /\ ~IdleWorker(w) /\ attempt[w] \in Attempt /\ attempt[w].pc \in {"upload", "container", "send", "publish"}
      /\ attempt[w].made = 0
  BY AttemptType DEF Reaches, At, RowsInv, Typed
<1>1. PICK t \in Targets, kind \in Kinds : On(w, t, kind) /\ attempt[w].t = t /\ attempt[w].kind = kind
  BY <1>0, AttemptType DEF On, Typed
<1>2. PICK id \in ObjectIds :
       /\ CASE attempt[w].pc \in {"upload", "container"} -> Fresh(attempt[w].t, id)
            [] attempt[w].pc = "send" -> id = attempt[w].fence
            [] OTHER -> id = attempt[w].ext /\ object[attempt[w].t][id] = "container"
       /\ attempt' = [attempt EXCEPT ![w].made = id]
       /\ object' = [object EXCEPT ![attempt[w].t][id] =
            CASE attempt[w].pc = "upload" -> "scheduled"
              [] attempt[w].pc = "container" -> "container"
              [] attempt[w].pc = "publish" -> "public"
              [] OTHER -> IF @ = "none" THEN "accepted" ELSE @]
  BY DEF Reaches
<1>3. AttemptOf(w, t)
  BY DEF RowsInv, Line
<1>4. PICK s : s = CASE attempt[w].pc = "upload" -> "scheduled"
              [] attempt[w].pc = "container" -> "container"
              [] attempt[w].pc = "publish" -> "public"
              [] OTHER -> IF object[t][id] = "none" THEN "accepted" ELSE object[t][id]
  OBVIOUS
<1>5. object' = [object EXCEPT ![t][id] = s]
  BY <1>1, <1>2, <1>4
<1>6. object \in [Targets -> [ObjectIds -> ObjectStates]] /\ attempt \in [Workers -> Attempt \cup {Idle}]
  BY <1>0 DEF Typed, TypeOK
<1>7. /\ object'[t][id] = s /\ \A u \in Targets : u # t => object'[u] = object[u]
      /\ \A k \in ObjectIds : k # id => object'[t][k] = object[t][k]
  BY <1>5, <1>6
<1>8. /\ attempt'[w].made = id /\ attempt'[w].t = t /\ attempt'[w].kind = kind /\ attempt'[w].fence = attempt[w].fence
      /\ attempt'[w].pc = attempt[w].pc /\ \A v \in Workers : v # w => attempt'[v] = attempt[v]
  BY <1>0, <1>1, <1>2, <1>6 DEF Attempt
<1>9. ~IdleWorker(w)'
  BY <1>0, <1>8 DEF IdleWorker, Idle
<1>10. \/ route[t] = "youtube" /\ kind = "prepare" /\ object[t][id] = "none" /\ s = "scheduled"
       \/ route[t] = "native" /\ kind = "prepare" /\ object[t][id] = "none" /\ s = "container"
       \/ route[t] = "native" /\ kind = "publish" /\ object[t][id] = "container" /\ s = "public"
       \/ route[t] = "zernio" /\ kind = "publish" /\ id = attempt[w].fence
                 /\ s = IF object[t][id] = "none" THEN "accepted" ELSE object[t][id]
  BY <1>0, <1>1, <1>2, <1>3, <1>4 DEF AttemptOf, Fresh, Unused
<1>11. UNCHANGED <<recon, asking, holds, unheld>>
  BY DEF Reaches, ghosts
<1> QED BY <1>0, <1>1, <1>7, <1>8, <1>9, <1>10, <1>11

\* A step elsewhere leaves a YouTube target's uploads and rows as they are.
LEMMA YouTubeElsewhere ==
  ASSUME NEW t \in Targets, YouTube(t), route[t] = "youtube", ObjectStep, object'[t] = object[t],
         \A v \in Workers : Carried(v, t) /\ Accounted(v, t), Kept
  PROVE  YouTube(t)'
<1>1. UNCHANGED <<route, target, job, past, soon>>
  BY ObjectStepRows
<1>2. target'[t].status = "published" => object[t][target[t].ext] = "public" \/ past'[t] \/ soon'[t]
  BY <1>1 DEF YouTube, Status
<1> QED BY <1>1, <1>2, YouTubeRows DEF Frozen, Status

LEMMA YouTubeReached ==
  ASSUME RowsInv, NEW t \in Targets, YouTube(t), route[t] = "youtube", NEW w \in Workers, Reaches(w)
  PROVE  YouTube(t)'
<1>0. Typed /\ Line(t) /\ ObjectStep /\ UNCHANGED <<route, target, job, past, soon, holds, unheld>>
  BY ObjectStepRows DEF RowsInv, ObjectStep, Reaches, ghosts
<1>1. PICK u \in Targets, kind \in Kinds, id \in ObjectIds :
           /\ On(w, u, kind) /\ attempt[w].made = 0 /\ attempt'[w].made = id
           /\ attempt'[w].t = u /\ attempt'[w].kind = kind /\ attempt'[w].fence = attempt[w].fence /\ ~IdleWorker(w)'
           /\ \A v \in Workers : v # w => attempt'[v] = attempt[v]
           /\ \A v \in Targets : v # u => object'[v] = object[v]
           /\ \A k \in ObjectIds : k # id => object'[u][k] = object[u][k]
           /\ UNCHANGED <<recon, asking, holds, unheld>>
           /\ \/ route[u] = "youtube" /\ kind = "prepare" /\ object[u][id] = "none" /\ object'[u][id] = "scheduled"
              \/ route[u] = "native" /\ kind = "prepare" /\ object[u][id] = "none" /\ object'[u][id] = "container"
              \/ route[u] = "native" /\ kind = "publish" /\ object[u][id] = "container" /\ object'[u][id] = "public"
              \/ route[u] = "zernio" /\ kind = "publish" /\ id = attempt[w].fence
                 /\ object'[u][id] = IF object[u][id] = "none" THEN "accepted" ELSE object[u][id]
  BY ReachesIs
<1>2. CASE u # t
  <2>1. \A v \in Workers : Carried(v, t) /\ Accounted(v, t)
    BY <1>1, <1>2 DEF Carried, Accounted, On, IdleWorker
  <2> QED BY <1>0, <1>1, <1>2, <2>1, YouTubeElsewhere DEF Kept
<1>3. CASE u = t
  <2>1. kind = "prepare" /\ object'[t][id] = "scheduled" /\ On(w, t, "prepare")
    BY <1>1, <1>3
  <2>2. Nothing(t) /\ target[t].ext = 0
    <3>1. AttemptOf(w, t) /\ attempt[w].t = t /\ attempt[w].kind = "prepare" /\ ~IdleWorker(w)
      BY <1>0, <2>1 DEF Line, On
    <3> QED BY <1>1, <2>1, <3>1 DEF YouTube, AttemptOf
  <2>3. \A k \in ObjectIds : k # id => object'[t][k] = "none"
    BY <1>1, <1>3, <2>2 DEF Nothing
  <2>4. ASSUME NEW v \in Workers, On(v, t, "prepare")' PROVE v = w
    <3>1. v # w => On(v, t, "prepare")
      BY <1>1, <2>4 DEF On, IdleWorker
    <3> QED BY <1>0, <2>1, <3>1 DEF Line, Solo
  <2>5. On(w, t, "prepare")' /\ id # 0
    BY <1>1, <1>3, <2>1 DEF On, ObjectIds
  <2>6. Status(t) = "published" => past[t] \/ soon[t]
    BY <1>0, <2>2 DEF Line, Flow, FlowOf, Status
  <2>7. ~Frozen(t) => job[t]["prepare"].status = "running"
    <3>1. Solo(t, "prepare") /\ AttemptOf(w, t)
      BY <1>0 DEF Solo, Line
    <3> QED BY <2>1, <3>1 DEF AttemptOf, Owns, On
  <2>8. \A w1 \in Workers : On(w1, t, "prepare")' => attempt'[w1].made = id
    BY <1>1, <2>4
  <2> QED BY <1>0, <1>1, <2>1, <2>2, <2>3, <2>5, <2>6, <2>7, <2>8 DEF YouTube, Status, Frozen
<1> QED BY <1>2, <1>3

LEMMA YouTubeKeptPrivate ==
  ASSUME RowsInv, NEW t \in Targets, YouTube(t), route[t] = "youtube", NEW w \in Workers,
         NEW answered \in BOOLEAN,
         KeepPrivate(w, answered)
  PROVE  YouTube(t)'
<1> DEFINE k == attempt[w].made
<1>0. Typed /\ Line(t) /\ ObjectStep /\ UNCHANGED <<route, target, job, past, soon, holds>>
  BY ObjectStepRows DEF RowsInv, ObjectStep, KeepPrivate
<1>1. /\ attempt[w].pc = "hold" /\ ~IdleWorker(w) /\ IdleWorker(w)' /\ \A v \in Workers : v # w => attempt'[v] = attempt[v]
      /\ attempt[w].t \in Targets
  BY <1>0, AttemptType DEF KeepPrivate, At, Done, Typed, TypeOK, IdleWorker
<1>2. /\ object' = IF answered THEN [object EXCEPT ![attempt[w].t][k] = "held"] ELSE object
      /\ unheld' = IF answered THEN unheld ELSE unheld \cup {<<attempt[w].t, k>>}
  BY DEF KeepPrivate
<1>3. CASE attempt[w].t # t
  <2>1. object'[t] = object[t] /\ Kept
    BY <1>0, <1>1, <1>2, <1>3 DEF Typed, TypeOK, Kept
  <2>2. \A v \in Workers : Carried(v, t) /\ Accounted(v, t)
    BY <1>1, <1>3 DEF Carried, Accounted, On, IdleWorker
  <2> QED BY <1>0, <2>1, <2>2, YouTubeElsewhere
<1>4. CASE attempt[w].t = t
  <2>1. AttemptOf(w, t) /\ attempt[w].kind = "prepare" /\ k # 0 /\ k \in ObjectIds /\ Frozen(t) /\ target[t].ext = 0
    <3>1. AttemptOf(w, t) /\ k \in 0 .. MaxObjects
      BY <1>0, <1>1, AttemptType DEF Line, Typed
    <3> QED BY <1>1, <1>4, <3>1 DEF AttemptOf, ObjectIds
  <2>2. On(w, t, "prepare") /\ object[t][k] # "none"
    BY <1>1, <1>4, <2>1 DEF On, YouTube
  <2>3. ASSUME NEW v \in Workers PROVE ~On(v, t, "prepare")'
    <3>1. CASE v = w
      BY <1>1, <3>1 DEF On
    <3>2. CASE v # w
      <4>1. On(v, t, "prepare")' => On(v, t, "prepare")
        BY <1>1, <3>2 DEF On, IdleWorker
      <4>2. Solo(t, "prepare")
        BY DEF Solo
      <4> QED BY <1>0, <2>2, <3>2, <4>1, <4>2 DEF Line, Kinds
    <3> QED BY <3>1, <3>2
  <2>4. CASE answered
    <3>1. object'[t][k] = "held" /\ \A j \in ObjectIds : j # k => object'[t][j] = object[t][j]
      BY <1>0, <1>2, <1>4, <2>1, <2>4 DEF Typed, TypeOK
    <3>2. \A j \in ObjectIds : j # k => object'[t][j] = "none"
      BY <2>1, <2>2, <3>1 DEF YouTube
    <3>3. target'[t].ext = 0 /\ Frozen(t)'
      BY <1>0, <2>1 DEF Frozen, Status
    <3> HIDE DEF k
    <3> QED BY <1>0, <2>1, <2>3, <3>1, <3>2, <3>3 DEF YouTube, Status, Frozen
  <2>5. CASE ~answered
    <3>1. object' = object /\ <<t, k>> \in unheld' /\ Kept
      BY <1>0, <1>2, <1>4, <2>5 DEF Kept
    <3>2. \A v \in Workers : Carried(v, t)
      BY <1>1 DEF Carried, IdleWorker
    <3>3. \A v \in Workers : Accounted(v, t)
      BY <1>1, <3>1 DEF Accounted, On, IdleWorker
    <3> QED BY <1>0, <3>1, <3>2, <3>3, YouTubeElsewhere
  <2> QED BY <2>4, <2>5
<1> QED BY <1>3, <1>4

LEMMA YouTubeGoesPublic ==
  ASSUME RowsInv, NEW t \in Targets, YouTube(t), route[t] = "youtube", NEW u \in Targets, NEW k \in ObjectIds,
         GoesPublic(u, k) \/ RefusedByPlatform(u, k)
  PROVE  YouTube(t)'
<1>0. Typed /\ ObjectStep /\ UNCHANGED <<route, target, job, past, soon, attempt, holds, unheld>>
  BY ObjectStepRows DEF RowsInv, ObjectStep, GoesPublic, RefusedByPlatform, actors, ghosts
<1>1. CASE u # t
  <2>1. object'[t] = object[t] /\ Kept
    BY <1>0, <1>1 DEF GoesPublic, RefusedByPlatform, Typed, TypeOK, Kept
  <2> QED BY <1>0, <2>1, SameAttempts, YouTubeElsewhere
<1>2. CASE u = t
  <2>1. object[t][k] = "scheduled" /\ GoesPublic(t, k)
    BY <1>2 DEF GoesPublic, RefusedByPlatform, YouTube
  <2>2. object'[t][k] = "public" /\ \A j \in ObjectIds : j # k => object'[t][j] = object[t][j]
    BY <1>0, <2>1 DEF GoesPublic, Typed, TypeOK
  <2>3. \A j \in ObjectIds : object'[t][j] \in {"none", "scheduled", "public", "held"}
        /\ ((object'[t][j] = "none") <=> (object[t][j] = "none"))
    BY <2>1, <2>2 DEF YouTube
  <2>4. target[t].ext = 0 \/ target[t].ext \in ObjectIds
    BY <1>0 DEF Typed, TypeOK, TargetRow, ObjectIds
  <2>5. target[t].ext # 0 => /\ object'[t][target[t].ext] # "none"
                             /\ Status(t) # "cancelled" => object'[t][target[t].ext] # "held"
    BY <2>2, <2>4 DEF YouTube
  <2>6. Nothing(t) => FALSE
    BY <2>1 DEF Nothing
  <2>7. ASSUME NEW w \in Workers, On(w, t, "prepare")
        PROVE  attempt[w].made # 0 /\ object'[t][attempt[w].made] \in {"scheduled", "public"}
    <3>1. attempt[w].made # 0 /\ object[t][attempt[w].made] \in {"scheduled", "public"}
      BY <2>6, <2>7 DEF YouTube
    <3>2. attempt[w].made \in ObjectIds
      BY <1>0, <2>7, <3>1, AttemptType DEF On, Typed, ObjectIds
    <3> QED BY <2>2, <3>1, <3>2
  <2>8. \A w \in Workers : On(w, t, "prepare")' <=> On(w, t, "prepare")
    BY <1>0 DEF On, IdleWorker
  <2>9. ASSUME NEW j \in ObjectIds, object'[t][j] = "scheduled", j # target[t].ext
        PROVE  <<t, j>> \in unheld' \/ \E w \in Workers : On(w, t, "prepare")' /\ attempt'[w].made = j
    <3>1. object[t][j] = "scheduled"
      BY <2>2, <2>9
    <3> QED BY <1>0, <2>8, <2>9, <3>1 DEF YouTube
  <2>10. \A i, j \in ObjectIds : object'[t][i] # "none" /\ object'[t][j] # "none" => i = j
    BY <2>3 DEF YouTube
  <2>11. ~(~Frozen(t) /\ target[t].ext = 0 /\ job[t]["prepare"].status # "running")
    BY <2>6 DEF YouTube
  <2>12. target' = target /\ past' = past /\ soon' = soon /\ job' = job /\ attempt' = attempt /\ Frozen(t)' = Frozen(t) /\ Status(t)' = Status(t)
    BY <1>0, <2>1 DEF Frozen, Status
  <2>13. ASSUME NEW w \in Workers, On(w, t, "prepare")'
         PROVE  attempt'[w].made # 0 /\ object'[t][attempt'[w].made] \in {"scheduled", "public"}
    BY <2>7, <2>8, <2>12, <2>13
  <2>14. Status(t)' = "published" => object'[t][target'[t].ext] = "public" \/ past'[t] \/ soon'[t]
    BY <1>0, <2>2, <2>4, <2>12 DEF YouTube, Flow, FlowOf, RowsInv, Line, Status
  <2>15. Status(t)' = "cancelled" /\ ~past'[t] /\ target'[t].ext # 0 /\ object'[t][target'[t].ext] = "scheduled" =>
           <<t, target'[t].ext>> \in holds' \cup unheld'
    BY <1>0, <2>2, <2>4, <2>12 DEF YouTube
  <2> QED BY <2>3, <2>5, <2>9, <2>10, <2>11, <2>12, <2>13, <2>14, <2>15 DEF YouTube
<1> QED BY <1>1, <1>2

LEMMA YouTubeHeld ==
  ASSUME RowsInv, HoldsInv, NEW t \in Targets, YouTube(t), route[t] = "youtube",
         NEW u \in Targets, NEW k \in ObjectIds, NEW answered \in BOOLEAN, Hold(u, k, answered)
  PROVE  YouTube(t)'
<1>0. Typed /\ Line(t) /\ ObjectStep /\ UNCHANGED <<route, target, job, past, soon, attempt>>
  BY ObjectStepRows DEF RowsInv, ObjectStep, Hold
<1>1. /\ <<u, k>> \in holds /\ holds' = holds \ {<<u, k>>}
      /\ object' = IF answered THEN [object EXCEPT ![u][k] = "held"] ELSE object
      /\ unheld' = IF answered THEN unheld ELSE unheld \cup {<<u, k>>}
  BY DEF Hold
<1>2. CASE ~answered
  <2>1. object' = object /\ Kept
    BY <1>1, <1>2 DEF Kept
  <2> QED BY <1>0, <2>1, SameAttempts, YouTubeElsewhere DEF Kept
<1>3. CASE answered /\ u # t
  <2>1. object'[t] = object[t] /\ \A j \in ObjectIds : <<t, j>> \in holds => <<t, j>> \in holds'
    BY <1>0, <1>1, <1>3 DEF Typed, TypeOK
  <2>2. unheld' = unheld /\ (target[t].ext # 0 => target[t].ext \in ObjectIds)
    BY <1>0, <1>1, <1>3 DEF Typed, TypeOK, TargetRow, ObjectIds
  <2>3. \A w \in Workers : On(w, t, "prepare")' <=> On(w, t, "prepare")
    BY <1>0 DEF On, IdleWorker
  <2> QED BY <1>0, <2>1, <2>2, <2>3 DEF YouTube, Status, Frozen, Nothing
<1>4. CASE answered /\ u = t
  <2>1. Status(t) = "cancelled" /\ k = target[t].ext /\ k # 0
    BY <1>1, <1>4 DEF HoldsInv, ObjectIds
  <2>2. object'[t][k] = "held" /\ \A j \in ObjectIds : j # k => object'[t][j] = object[t][j]
    BY <1>0, <1>1, <1>4 DEF Typed, TypeOK
  <2>3. \A j \in ObjectIds : j # k => object'[t][j] = "none"
    BY <2>1, <2>2 DEF YouTube
  <2>4. ASSUME NEW w \in Workers PROVE ~On(w, t, "prepare")'
    <3>1. ~On(w, t, "prepare")
      BY <1>0, <2>1 DEF Line, AttemptOf, On
    <3> QED BY <1>0, <3>1 DEF On, IdleWorker
  <2> QED BY <1>0, <2>1, <2>2, <2>3, <2>4 DEF YouTube, Status, Frozen
<1> QED BY <1>2, <1>3, <1>4

LEMMA YouTubeAsked ==
  ASSUME RowsInv, NEW t \in Targets, YouTube(t), route[t] = "youtube", AskAnswers
  PROVE  YouTube(t)'
<1>0. Typed /\ ObjectStep /\ UNCHANGED <<route, target, job, past, soon, attempt, holds, unheld>>
  BY ObjectStepRows DEF RowsInv, ObjectStep, AskAnswers, ghosts
<1>1. asking # Idle /\ asking.t # t
  BY DEF AskAnswers, RowsInv, QuestionInv, AskFacts
<1>2. object'[t] = object[t] /\ Kept
  BY <1>0, <1>1 DEF AskAnswers, Typed, TypeOK, Kept
<1> QED BY <1>0, <1>2, SameAttempts, YouTubeElsewhere

LEMMA YouTubeNext ==
  ASSUME RowsInv, RowsInv', Readable, ReconTruth, HoldsInv, [Next]_vars, NEW t \in Targets, YouTube(t),
         route[t] = "youtube"
  PROVE  YouTube(t)'
<1>0. route' = route
  BY RouteStays
<1>1. CASE StepOf(t) /\ object' = object
  <2>1. CASE Ended(t)
    BY <1>0, <1>1, <2>1, YouTubeEnded DEF Ended
  <2>2. ASSUME NEW w \in Workers, NEW kind \in Kinds, Claim(w, t, kind) PROVE YouTube(t)'
    BY <1>0, <1>1, <2>2, YouTubeClaimed
  <2> QED BY <1>0, <1>1, <2>1, <2>2, YouTubeTold DEF StepOf
<1>2. CASE ObjectStep
  BY <1>2, YouTubeReached, YouTubeKeptPrivate, YouTubeGoesPublic, YouTubeAsked, YouTubeHeld DEF ObjectStep
<1> QED BY <1>1, <1>2, NextOf

\* A step that publishes no container of an Instagram target.
LEMMA NativeRows ==
  ASSUME NEW t \in Targets, Native(t), object'[t] = object[t],
         target'[t].status = "published" => object[t][target'[t].ext] = "public",
         ~Frozen(t)' /\ target'[t].status # "published" /\ job'[t]["publish"].status # "running" => NonePublic(t),
         \A v \in Workers : Carried(v, t)
  PROVE  Native(t)'
<1>1. ASSUME NEW w \in Workers, On(w, t, "publish")'
      PROVE  /\ attempt'[w].made = 0 => NonePublic(t)'
             /\ attempt'[w].made # 0 => object'[t][attempt'[w].made] = "public"
  <2>1. On(w, t, "publish") /\ attempt'[w].made = attempt[w].made
    BY <1>1 DEF On, Carried
  <2> QED BY <2>1 DEF Native, NonePublic
<1>2. ~Frozen(t)' /\ target'[t].status # "published" /\ job'[t]["publish"].status # "running" => NonePublic(t)'
  BY DEF NonePublic
<1>3. /\ \A k \in ObjectIds : object'[t][k] \in {"none", "container", "public"}
      /\ \A j, k \in ObjectIds : object'[t][j] = "public" /\ object'[t][k] = "public" => j = k
      /\ target'[t].status = "published" => object'[t][target'[t].ext] = "public"
  BY DEF Native
<1> QED BY <1>1, <1>2, <1>3 DEF Native, Status

LEMMA NativeEnded ==
  ASSUME RowsInv, Readable, NEW t \in Targets, Native(t), route[t] = "native", object' = object,
         NEW w \in Workers, NEW kind \in Kinds, NEW row \in TargetRow, NEW mine \in JobStatus, NEW other \in JobStatus,
         Settled(w, t, kind, row, mine, other), Outcome(w, t, kind, row, mine, other)
  PROVE  Native(t)'
<1>0. Typed /\ Line(t) /\ Flow(t) /\ AttemptOf(w, t) /\ On(w, t, kind) /\ Owns(w, t, kind) /\ Open(t)
  BY AttemptFacts DEF RowsInv, Line, Settled, Ending
<1>1. /\ target'[t] = row /\ IdleWorker(w)' /\ \A v \in Workers : v # w => attempt'[v] = attempt[v]
  BY <1>0, SettledOthers DEF Settled, Ending
<1>2. \A v \in Workers : Carried(v, t)
  BY <1>1 DEF Carried, IdleWorker
<1>3. row.status = "published" => object[t][row.ext] = "public"
  BY <1>0 DEF Outcome, Prepared, Published, Doubted, Failed, Processing, Native
<1>4. row.status \notin {"verification_required", "published"} => NonePublic(t)
  <2>1. CASE kind = "prepare"
    BY <1>0, <2>1 DEF Native, Flow, FlowOf, Owns, Open, Frozen, Status
  <2>2. CASE kind = "publish" /\ row.status \notin {"verification_required", "published"}
    <3>1. Failed(w, t, kind, row, mine, other) \/ Processing(w, t, kind, row, mine, other)
      BY <2>2 DEF Outcome, Prepared, Published, Doubted
    <3>2. attempt[w].kind = "publish" /\ attempt[w].t = t /\ ~IdleWorker(w)
      BY <1>0, <2>2 DEF On
    <3>3. attempt[w].made = 0
      BY <1>0, <3>1, <3>2 DEF Failed, Processing, AttemptOf
    <3> QED BY <1>0, <2>2, <3>3 DEF Native
  <2> QED BY <2>1, <2>2 DEF Kinds
<1> QED BY <1>1, <1>2, <1>3, <1>4, NativeRows DEF Frozen, Status

LEMMA NativeClaimed ==
  ASSUME RowsInv, InOrder, NEW t \in Targets, Native(t), route[t] = "native", object' = object,
         NEW w \in Workers, NEW kind \in Kinds, Claim(w, t, kind)
  PROVE  Native(t)'
<1>0. Typed /\ Flow(t)
  BY DEF RowsInv, Line
<1>1. /\ target' = target /\ IdleWorker(w) /\ job[t][kind].status = "queued"
      /\ attempt'[w].made = 0 /\ attempt'[w].kind = kind /\ \A v \in Workers : v # w => attempt'[v] = attempt[v]
  BY <1>0 DEF Claim, clock, ghosts, Typed, TypeOK
<1>2. \A k \in Kinds : k # kind => job'[t][k] = job[t][k]
  <2>1. job[t] \in [Kinds -> JobRow] /\ job[t][kind] \in JobRow /\ job \in [Targets -> [Kinds -> JobRow]]
    BY <1>0 DEF Typed, TypeOK
  <2> DEFINE new == [job[t][kind] EXCEPT !.status = "running", !.lockedBy = w]
  <2>2. job' = [job EXCEPT ![t][kind] = new]
    BY <1>0 DEF Claim, Typed, TypeOK
  <2> HIDE DEF new
  <2> QED BY <2>1, <2>2
<1>3. kind = "publish" => NonePublic(t)
  <2>1. kind = "publish" => ~Frozen(t) /\ Status(t) # "published"
    BY <1>0, <1>1 DEF Claim, InOrder, Flow, FlowOf, Frozen, Status
  <2> QED BY <1>1, <2>1 DEF Native
<1>4. ASSUME NEW v \in Workers, On(v, t, "publish")'
      PROVE  /\ attempt'[v].made = 0 => NonePublic(t)
             /\ attempt'[v].made # 0 => object[t][attempt'[v].made] = "public"
  <2>1. CASE v = w
    BY <1>1, <1>3, <1>4, <2>1 DEF On
  <2>2. CASE v # w
    <3>1. On(v, t, "publish")
      BY <1>1, <1>4, <2>2 DEF On, IdleWorker
    <3> QED BY <1>1, <2>2, <3>1 DEF Native
  <2> QED BY <2>1, <2>2
<1>5. ~Frozen(t) /\ Status(t) # "published" /\ job'[t]["publish"].status # "running" => NonePublic(t)
  BY <1>2, <1>3 DEF Native, Kinds
<1>6. /\ \A k \in ObjectIds : object'[t][k] \in {"none", "container", "public"}
      /\ \A j, k \in ObjectIds : object'[t][j] = "public" /\ object'[t][k] = "public" => j = k
      /\ Status(t) = "published" => object[t][target[t].ext] = "public"
  BY DEF Native
<1> QED BY <1>1, <1>4, <1>5, <1>6 DEF Native, Status, Frozen, NonePublic

LEMMA NativeTold ==
  ASSUME RowsInv, NEW t \in Targets, Native(t), route[t] = "native", object' = object,
         \/ Quiet(t) \/ Emptied(t) \/ Armed(t) \/ Told(t) \/ CancelledNow(t) \/ FoundOut(t)
         \/ \E kind \in Kinds : Taken(t, kind)
  PROVE  Native(t)'
<1>0. Typed /\ Flow(t)
  BY DEF RowsInv, Line
<1>1. CASE Quiet(t)
  BY <1>1, NativeRows DEF Quiet, SameJobs, Native, Frozen, Status, Kinds
<1>2. CASE Emptied(t)
  <2>1. ~Frozen(t) /\ Status(t) # "published" /\ job[t]["publish"].status # "running"
        /\ target'[t].status # "published"
    BY <1>2 DEF Emptied, Frozen, Status, Kinds
  <2>2. \A v \in Workers : Carried(v, t)
    BY <1>2, SameAttempts DEF Emptied
  <2> QED BY <2>1, <2>2, NativeRows DEF Native
<1>3. CASE Armed(t)
  <2>1. ~Frozen(t) /\ Status(t) # "published" /\ job[t]["publish"].status # "running"
        /\ target'[t].status # "published"
    <3>1. target[t].status \in Schedulable \cup {"failed"}
      BY <1>3, AnswerIs DEF Armed
    <3> QED BY <1>3, <3>1 DEF Armed, Schedulable, Frozen, Status, Kinds
  <2>2. \A v \in Workers : Carried(v, t)
    BY <1>3, SameAttempts DEF Armed
  <2> QED BY <2>1, <2>2, NativeRows DEF Native
<1>4. CASE CancelledNow(t)
  <2>1. \A v \in Workers : Carried(v, t)
    BY <1>4, SameAttempts DEF CancelledNow
  <2>2. /\ target'[t].ext = target[t].ext /\ job[t]["publish"].status # "running"
        /\ target'[t].status = IF target[t].status \in {"absent", "published"} THEN target[t].status ELSE "cancelled"
    BY <1>4 DEF CancelledNow, Kinds
  <2>3. target'[t].status = "published" => object[t][target'[t].ext] = "public"
    BY <2>2 DEF Native, Status
  <2>4. ~Frozen(t)' /\ target'[t].status # "published" => NonePublic(t)
    BY <2>2 DEF Native, Status, Frozen
  <2> QED BY <2>1, <2>3, <2>4, NativeRows
<1>5. CASE FoundOut(t)
  BY <1>5, ConfirmIsPublish DEF FoundOut
<1>6. ASSUME NEW kind \in Kinds, Taken(t, kind) PROVE Native(t)'
  <2>1. \A v \in Workers : Carried(v, t)
    BY <1>6, SameAttempts DEF Taken
  <2>2. target'[t].status \in {"verification_required", "scheduled", "failed"}
    BY <1>6 DEF Taken
  <2>3. target'[t].status # "verification_required" => NonePublic(t)
    <3>1. CASE kind = "prepare"
      BY <1>0, <1>6, <3>1 DEF Taken, Flow, FlowOf, Native, Frozen, Status
    <3>2. CASE kind = "publish"
      BY <1>6, <3>2 DEF Taken, MayHaveReachedAudience
    <3> QED BY <3>1, <3>2 DEF Kinds
  <2> QED BY <2>1, <2>2, <2>3, NativeRows DEF Frozen, Status
<1>7. CASE Told(t)
  BY <1>7 DEF Told
<1> QED BY <1>1, <1>2, <1>3, <1>4, <1>5, <1>6, <1>7

LEMMA NativeReached ==
  ASSUME RowsInv, NEW t \in Targets, Native(t), route[t] = "native", NEW w \in Workers, Reaches(w)
  PROVE  Native(t)'
<1>0. Typed /\ Line(t) /\ UNCHANGED <<route, target, job>>
  BY ObjectStepRows DEF RowsInv, ObjectStep
<1>1. PICK u \in Targets, kind \in Kinds, id \in ObjectIds :
           /\ On(w, u, kind) /\ attempt[w].made = 0 /\ attempt'[w].made = id
           /\ attempt'[w].t = u /\ attempt'[w].kind = kind /\ attempt'[w].fence = attempt[w].fence /\ ~IdleWorker(w)'
           /\ \A v \in Workers : v # w => attempt'[v] = attempt[v]
           /\ \A v \in Targets : v # u => object'[v] = object[v]
           /\ \A k \in ObjectIds : k # id => object'[u][k] = object[u][k]
           /\ UNCHANGED <<recon, asking, holds, unheld>>
           /\ \/ route[u] = "youtube" /\ kind = "prepare" /\ object[u][id] = "none" /\ object'[u][id] = "scheduled"
              \/ route[u] = "native" /\ kind = "prepare" /\ object[u][id] = "none" /\ object'[u][id] = "container"
              \/ route[u] = "native" /\ kind = "publish" /\ object[u][id] = "container" /\ object'[u][id] = "public"
              \/ route[u] = "zernio" /\ kind = "publish" /\ id = attempt[w].fence
                 /\ object'[u][id] = IF object[u][id] = "none" THEN "accepted" ELSE object[u][id]
  BY ReachesIs
<1>2. CASE u # t
  <2>1. \A v \in Workers : Carried(v, t)
    BY <1>1, <1>2 DEF Carried, On, IdleWorker
  <2> QED BY <1>0, <1>1, <1>2, <2>1, NativeRows DEF Native, Frozen, Status
<1>3. CASE u = t /\ kind = "publish"
  <2>1. On(w, t, "publish") /\ object'[t][id] = "public" /\ NonePublic(t) /\ id # 0
    BY <1>1, <1>3 DEF Native, ObjectIds
  <2>2. \A k \in ObjectIds : k # id => object'[t][k] # "public" /\ object'[t][k] \in {"none", "container", "public"}
    BY <1>1, <1>3, <2>1 DEF NonePublic, Native
  <2>3. ASSUME NEW v \in Workers, On(v, t, "publish")' PROVE v = w
    <3>1. v # w => On(v, t, "publish")
      BY <1>1, <2>3 DEF On, IdleWorker
    <3>2. Solo(t, "publish")
      BY DEF Solo
    <3> QED BY <1>0, <2>1, <3>1, <3>2 DEF Line, Kinds
  <2>4. \A v \in Workers : On(v, t, "publish")' => attempt'[v].made = id
    BY <1>1, <2>3
  <2>5. Frozen(t) \/ job[t]["publish"].status = "running"
    <3>1. AttemptOf(w, t) /\ Solo(t, "publish")
      BY <1>0 DEF Line, Solo
    <3> QED BY <2>1, <3>1 DEF AttemptOf, Owns, On
  <2>6. Status(t) # "published"
    <3>1. Status(t) = "published" => target[t].ext # 0 /\ object[t][target[t].ext] = "public"
      BY <1>0 DEF Native, Line, Flow, FlowOf, Status
    <3>2. target[t].ext # 0 => target[t].ext \in ObjectIds
      BY <1>0 DEF Typed, TypeOK, TargetRow, ObjectIds
    <3> QED BY <2>1, <3>1, <3>2 DEF NonePublic
  <2> QED BY <1>0, <2>1, <2>2, <2>4, <2>5, <2>6 DEF Native, Status, Frozen
<1>4. CASE u = t /\ kind = "prepare"
  <2>1. object[t][id] = "none" /\ object'[t][id] = "container" /\ \A k \in ObjectIds : k # id => object'[t][k] = object[t][k]
    BY <1>1, <1>4
  <2>2. \A k \in ObjectIds : /\ (object'[t][k] = "public") <=> (object[t][k] = "public")
                             /\ object'[t][k] \in {"none", "container", "public"}
    BY <2>1 DEF Native
  <2>3. \A v \in Workers : On(v, t, "publish")' => On(v, t, "publish") /\ attempt'[v].made = attempt[v].made
    BY <1>1, <1>4 DEF On, IdleWorker
  <2>4. ASSUME NEW v \in Workers, On(v, t, "publish")'
        PROVE  /\ attempt'[v].made = 0 => NonePublic(t)'
               /\ attempt'[v].made # 0 => object'[t][attempt'[v].made] = "public"
    <3>1. attempt[v].made = 0 \/ attempt[v].made \in ObjectIds
      BY <1>0, <2>3, <2>4, AttemptType DEF On, Typed, ObjectIds
    <3> QED BY <2>2, <2>3, <2>4, <3>1 DEF Native, NonePublic
  <2>5. Status(t) = "published" => object'[t][target[t].ext] = "public"
    <3>1. Status(t) = "published" => target[t].ext \in ObjectIds
      BY <1>0 DEF Typed, TypeOK, TargetRow, ObjectIds, Line, Flow, FlowOf, Status
    <3> QED BY <2>2, <3>1 DEF Native
  <2>6. NonePublic(t)' <=> NonePublic(t)
    BY <2>2 DEF NonePublic
  <2> QED BY <1>0, <2>2, <2>4, <2>5, <2>6 DEF Native, Status, Frozen
<1> QED BY <1>1, <1>2, <1>3, <1>4 DEF Kinds

LEMMA NativeNext ==
  ASSUME RowsInv, InOrder, Readable, HoldsInv, [Next]_vars, NEW t \in Targets, Native(t), route[t] = "native"
  PROVE  Native(t)'
<1>1. CASE StepOf(t) /\ object' = object
  <2>1. CASE Ended(t)
    BY <1>1, <2>1, NativeEnded DEF Ended
  <2>2. ASSUME NEW w \in Workers, NEW kind \in Kinds, Claim(w, t, kind) PROVE Native(t)'
    BY <1>1, <2>2, NativeClaimed
  <2> QED BY <1>1, <2>1, <2>2, NativeTold DEF StepOf
<1>2. CASE ObjectStep
  <2>0. Typed /\ UNCHANGED <<target, job>>
    BY <1>2, ObjectStepRows DEF RowsInv
  <2>1. ASSUME object'[t] = object[t], \A v \in Workers : attempt'[v] = attempt[v] \/ IdleWorker(v)'
        PROVE  Native(t)'
    <3>1. \A v \in Workers : Carried(v, t)
      BY <2>1 DEF Carried, IdleWorker
    <3> QED BY <2>0, <2>1, <3>1, NativeRows DEF Native, Frozen, Status
  <2>2. ASSUME NEW w \in Workers, NEW answered \in BOOLEAN, KeepPrivate(w, answered) PROVE Native(t)'
    <3>1. ~IdleWorker(w) /\ attempt[w].pc = "hold" /\ attempt[w].t \in Targets /\ AttemptOf(w, attempt[w].t)
      BY <2>0, <2>2, AttemptType DEF KeepPrivate, At, Typed, RowsInv, Line
    <3>2. attempt[w].t # t
      BY <3>1 DEF AttemptOf
    <3>3. object'[t] = object[t] /\ \A v \in Workers : attempt'[v] = attempt[v] \/ IdleWorker(v)'
      BY <2>0, <2>2, <3>2 DEF KeepPrivate, Done, Typed, TypeOK, IdleWorker
    <3> QED BY <2>1, <3>3
  <2>3. ASSUME NEW u \in Targets, NEW k \in ObjectIds, GoesPublic(u, k) \/ RefusedByPlatform(u, k)
        PROVE  Native(t)'
    <3>1. u # t
      BY <2>3 DEF GoesPublic, RefusedByPlatform, Native
    <3>2. object'[t] = object[t] /\ attempt' = attempt
      BY <2>0, <2>3, <3>1 DEF GoesPublic, RefusedByPlatform, actors, Typed, TypeOK
    <3> QED BY <2>1, <3>2
  <2>4. CASE AskAnswers
    <3>1. asking.t # t
      BY <2>4 DEF AskAnswers, RowsInv, QuestionInv, AskFacts
    <3>2. object'[t] = object[t] /\ attempt' = attempt
      BY <2>0, <2>4, <3>1 DEF AskAnswers, Typed, TypeOK
    <3> QED BY <2>1, <3>2
  <2>5. ASSUME NEW u \in Targets, NEW k \in ObjectIds, NEW answered \in BOOLEAN, Hold(u, k, answered)
        PROVE  Native(t)'
    <3>1. u # t
      BY <2>5 DEF Hold, HoldsInv
    <3>2. object'[t] = object[t] /\ attempt' = attempt
      BY <2>0, <2>5, <3>1 DEF Hold, Typed, TypeOK
    <3> QED BY <2>1, <3>2
  <2> QED BY <1>2, <2>2, <2>3, <2>4, <2>5, NativeReached DEF ObjectStep
<1> QED BY <1>1, <1>2, NextOf

\* What a step may do to one of the things a platform holds.
LEMMA ObjectMoves ==
  ASSUME RowsInv, HoldsInv, [Next]_vars, NEW t \in Targets, NEW k \in ObjectIds
  PROVE  \/ object'[t][k] = object[t][k]
         \/ object[t][k] = "none"
         \/ object[t][k] = "container" /\ route[t] = "native"
         \/ object[t][k] = "scheduled" /\ object'[t][k] = "public"
         \/ object[t][k] = "accepted" /\ object'[t][k] \in {"public", "refused"}
         \/ route[t] = "youtube" /\ object'[t][k] = "held"
<1>0. Typed /\ object \in [Targets -> [ObjectIds -> ObjectStates]]
  BY DEF RowsInv, Typed, TypeOK
<1>1. ASSUME NEW w \in Workers, Reaches(w)
      PROVE  \/ object'[t][k] = object[t][k] \/ object[t][k] = "none"
             \/ object[t][k] = "container" /\ route[t] = "native"
  BY <1>1, ReachesIs
<1>2. ASSUME NEW w \in Workers, NEW answered \in BOOLEAN, KeepPrivate(w, answered)
      PROVE  object'[t][k] = object[t][k] \/ (route[t] = "youtube" /\ object'[t][k] = "held")
  <2>1. ~IdleWorker(w) /\ attempt[w].pc = "hold" /\ attempt[w].t \in Targets /\ AttemptOf(w, attempt[w].t)
        /\ attempt[w].made \in 0 .. MaxObjects
    BY <1>0, <1>2, AttemptType DEF KeepPrivate, At, Typed, RowsInv, Line
  <2>2. route[attempt[w].t] = "youtube"
    BY <2>1 DEF AttemptOf
  <2> QED BY <1>0, <1>2, <2>1, <2>2 DEF KeepPrivate
<1>3. ASSUME NEW u \in Targets, NEW j \in ObjectIds, GoesPublic(u, j) \/ RefusedByPlatform(u, j)
      PROVE  \/ object'[t][k] = object[t][k]
             \/ object[t][k] = "scheduled" /\ object'[t][k] = "public"
             \/ object[t][k] = "accepted" /\ object'[t][k] \in {"public", "refused"}
  BY <1>0, <1>3 DEF GoesPublic, RefusedByPlatform
<1>4. CASE AskAnswers
  <2> DEFINE j == IF asking.prov # 0 THEN asking.prov ELSE asking.fence
  <2>1. object' = [object EXCEPT ![asking.t][j] = IF @ = "none" THEN "accepted" ELSE @]
    BY <1>4 DEF AskAnswers
  <2> HIDE DEF j
  <2>2. object'[t][k] = object[t][k] \/ object[t][k] = "none"
    BY <1>0, <2>1
  <2> QED BY <2>2
<1>5. ASSUME NEW u \in Targets, NEW j \in ObjectIds, NEW answered \in BOOLEAN, Hold(u, j, answered)
      PROVE  object'[t][k] = object[t][k] \/ (route[t] = "youtube" /\ object'[t][k] = "held")
  <2>1. route[u] = "youtube"
    BY <1>5 DEF Hold, HoldsInv
  <2> QED BY <1>0, <1>5, <2>1 DEF Hold
<1>6. CASE object' = object
  BY <1>6
<1> QED BY <1>1, <1>2, <1>3, <1>4, <1>5, <1>6, NextOf DEF ObjectStep

\* A provider's post that is out or refused is so for ever.
LEMMA ZernioObjects ==
  ASSUME RowsInv, HoldsInv, [Next]_vars, NEW t \in Targets, Zernio(t), route[t] = "zernio",
         NEW k \in ObjectIds
  PROVE  /\ object'[t][k] \in {"none", "accepted", "public", "refused"}
         /\ object[t][k] \in {"public", "refused"} => object'[t][k] = object[t][k]
         /\ object[t][k] # "none" => object'[t][k] # "none"
<1>0. Typed
  BY DEF RowsInv
<1>1. object[t][k] \in {"none", "accepted", "public", "refused"}
  BY DEF Zernio
<1>2. CASE object[t][k] # "none"
  BY <1>1, <1>2, ObjectMoves
<1>3. CASE object[t][k] = "none"
  <2>1. ASSUME NEW w \in Workers, Reaches(w) PROVE object'[t][k] \in {"none", "accepted"}
    BY <1>3, <2>1, ReachesIs
  <2>2. ASSUME NEW w \in Workers, NEW answered \in BOOLEAN, KeepPrivate(w, answered)
        PROVE  object'[t][k] = "none"
    <3>1. ~IdleWorker(w) /\ attempt[w].pc = "hold" /\ attempt[w].t \in Targets /\ AttemptOf(w, attempt[w].t)
      BY <1>0, <2>2, AttemptType DEF KeepPrivate, At, Typed, RowsInv, Line
    <3>2. attempt[w].t # t
      BY <3>1 DEF AttemptOf
    <3> QED BY <1>0, <1>3, <2>2, <3>2 DEF KeepPrivate, Typed, TypeOK
  <2>3. ASSUME NEW u \in Targets, NEW j \in ObjectIds, GoesPublic(u, j) \/ RefusedByPlatform(u, j)
        PROVE  object'[t][k] = "none"
    <3>1. object[u][j] # "none" /\ object \in [Targets -> [ObjectIds -> ObjectStates]]
      BY <1>0, <2>3 DEF GoesPublic, RefusedByPlatform, Typed, TypeOK
    <3>2. object' = [object EXCEPT ![u][j] = "public"] \/ object' = [object EXCEPT ![u][j] = "refused"]
      BY <2>3 DEF GoesPublic, RefusedByPlatform
    <3>3. u # t \/ j # k
      BY <1>3, <3>1
    <3>4. CASE u # t
      BY <1>3, <3>1, <3>2, <3>4
    <3>5. CASE u = t /\ j # k
      BY <1>3, <3>1, <3>2, <3>5
    <3> QED BY <3>3, <3>4, <3>5
  <2>4. ASSUME AskAnswers PROVE object'[t][k] \in {"none", "accepted"}
    <3> DEFINE j == IF asking.prov # 0 THEN asking.prov ELSE asking.fence
    <3>1. object' = [object EXCEPT ![asking.t][j] = IF @ = "none" THEN "accepted" ELSE @]
      BY <2>4 DEF AskAnswers
    <3> HIDE DEF j
    <3>2. object'[t][k] = object[t][k] \/ object'[t][k] = "accepted"
      BY <1>0, <3>1 DEF Typed, TypeOK
    <3> QED BY <1>3, <3>2
  <2>5. ASSUME NEW u \in Targets, NEW j \in ObjectIds, NEW answered \in BOOLEAN, Hold(u, j, answered)
        PROVE  object'[t][k] = "none"
    <3>1. u # t
      BY <2>5 DEF Hold, HoldsInv
    <3> QED BY <1>0, <1>3, <2>5, <3>1 DEF Hold, Typed, TypeOK
  <2>6. CASE object' = object
    BY <1>3, <2>6
  <2>7. ObjectStep \/ object' = object
    BY NextOf
  <2>8. ASSUME ObjectStep PROVE object'[t][k] \in {"none", "accepted"}
    <3>1. (\E w \in Workers : Reaches(w)) => object'[t][k] \in {"none", "accepted"}
      BY <2>1
    <3>2. (\E w \in Workers : \E answered \in BOOLEAN : KeepPrivate(w, answered)) => object'[t][k] = "none"
      BY <2>2
    <3>3. (\E u \in Targets, j \in ObjectIds : GoesPublic(u, j) \/ RefusedByPlatform(u, j)) => object'[t][k] = "none"
      BY <2>3
    <3>4. (\E u \in Targets, j \in ObjectIds, answered \in BOOLEAN : Hold(u, j, answered)) => object'[t][k] = "none"
      BY <2>5
    <3>5. CASE \E w \in Workers : Reaches(w) \/ \E answered \in BOOLEAN : KeepPrivate(w, answered)
      BY <3>1, <3>2, <3>5
    <3> QED BY <2>8, <2>4, <3>3, <3>4, <3>5 DEF ObjectStep
  <2> QED BY <1>3, <2>6, <2>7, <2>8
<1> QED BY <1>2, <1>3

LEMMA ZernioNext ==
  ASSUME RowsInv, HoldsInv, ReconTruth, AskedTruth, [Next]_vars, NEW t \in Targets, Zernio(t),
         route[t] = "zernio"
  PROVE  Zernio(t)'
<1>0. Typed /\ Flow(t) /\ (target[t].ext = 0 \/ target[t].ext \in ObjectIds)
  BY DEF RowsInv, Line, Typed, TypeOK, TargetRow, ObjectIds
<1>1. \A k \in ObjectIds : object'[t][k] \in {"none", "accepted", "public", "refused"}
  BY ZernioObjects
<1>2. ASSUME target'[t].status = "published" PROVE object'[t][target'[t].ext] = "public"
  <2>1. CASE Status(t) = "published" /\ target'[t].ext = target[t].ext
    <3>1. target[t].ext \in ObjectIds /\ object[t][target[t].ext] = "public"
      BY <1>0, <2>1 DEF Flow, FlowOf, Zernio, Status
    <3> QED BY <2>1, <3>1, ZernioObjects
  <2>2. ASSUME object[t][target'[t].ext] = "public", target'[t].ext \in ObjectIds
        PROVE  object'[t][target'[t].ext] = "public"
    BY <2>2, ZernioObjects
  <2>3. CASE ObjectStep
    BY <1>2, <2>1, <2>3, ObjectStepRows DEF Status
  <2>4. CASE StepOf(t) /\ object' = object
    <3>1. CASE Quiet(t) \/ CancelledNow(t)
      BY <1>2, <2>1, <3>1 DEF Quiet, CancelledNow, Status
    <3>2. CASE Emptied(t) \/ Armed(t) \/ \E kind \in Kinds : Taken(t, kind)
      BY <1>2, <3>2 DEF Emptied, Armed, Taken
    <3>3. CASE Told(t)
      <4>1. CASE target'[t].ext \in ObjectIds /\ object[t][target'[t].ext] = "public"
        BY <2>2, <4>1
      <4>2. CASE AnswerRecorded /\ asking.t = t /\ target'[t] = RecordedRow
        <5>1. asking.seen = "public" /\ target'[t].ext = AskedPost /\ AskedPost \in ObjectIds /\ asking # Idle
          BY <1>2, <4>2, AnswerIs DEF AnswerRecorded
        <5> QED BY <2>2, <4>2, <5>1 DEF AskedTruth
      <4> QED BY <3>3, <4>1, <4>2 DEF Told
    <3>4. CASE FoundOut(t)
      <4>1. recon.seen = "public" /\ Subject \in ObjectIds /\ target'[t].ext = Subject /\ recon.t = t /\ recon # Idle
        BY <3>4 DEF FoundOut, Confirmed
      <4> QED BY <2>2, <4>1 DEF ReconTruth
    <3>5. CASE Ended(t)
      <4>1. PICK w \in Workers, kind \in Kinds, row \in TargetRow, mine \in JobStatus, other \in JobStatus :
              Settled(w, t, kind, row, mine, other) /\ Outcome(w, t, kind, row, mine, other)
        BY <3>5 DEF Ended
      <4>2. target'[t] = row /\ attempt[w].made \in 0 .. MaxObjects
        BY <1>0, <4>1, SettledOthers, AttemptType DEF Settled, Ending, On, Typed
      <4>3. row.ext \in ObjectIds /\ object[t][row.ext] = "public"
        BY <1>2, <4>1, <4>2 DEF Outcome, Prepared, Published, Doubted, Failed, Processing, ObjectIds
      <4> QED BY <2>2, <4>2, <4>3
    <3>6. ASSUME NEW w \in Workers, NEW kind \in Kinds, Claim(w, t, kind)
          PROVE  object'[t][target'[t].ext] = "public"
      BY <1>2, <2>1, <3>6 DEF Claim, Status
    <3> QED BY <2>4, <3>1, <3>2, <3>3, <3>4, <3>5, <3>6 DEF StepOf
  <2> QED BY <2>3, <2>4, NextOf
<1> QED BY <1>1, <1>2 DEF Zernio, Status

\* No command brings a cancelled target back.
LEMMA CancelledStays ==
  ASSUME RowsInv, [Next]_vars, NEW t \in Targets, Status(t) = "cancelled"
  PROVE  target'[t].status = "cancelled" /\ target'[t].ext = target[t].ext
<1>0. Typed /\ Flow(t)
  BY DEF RowsInv, Line
<1>1. \A k \in Kinds : job[t][k].status # "running"
  BY <1>0 DEF Flow, FlowOf, Kinds, Status
<1>2. CASE ObjectStep
  BY <1>2, ObjectStepRows DEF Status
<1>3. CASE Quiet(t) \/ CancelledNow(t)
  BY <1>3 DEF Quiet, CancelledNow, Status
<1>4. ~Emptied(t) /\ ~Told(t) /\ ~FoundOut(t)
  BY DEF Emptied, Told, FoundOut, Status
<1>5. ~Armed(t)
  <2>1. target[t].status \notin Schedulable \cup {"failed"}
    BY DEF Schedulable, Status
  <2>2. ~(AnswerRecorded /\ asking.t = t)
    BY AnswerIs DEF Status
  <2> QED BY <2>1, <2>2 DEF Armed
<1>6. (\A kind \in Kinds : ~Taken(t, kind)) /\ ~Ended(t)
  BY <1>1 DEF Taken, Ended, Settled, Owns
<1>7. ASSUME NEW w \in Workers, NEW kind \in Kinds, Claim(w, t, kind) PROVE target'[t] = target[t]
  BY <1>7 DEF Claim
<1>8. CASE StepOf(t)
  BY <1>3, <1>4, <1>5, <1>6, <1>7, <1>8 DEF StepOf, Status
<1> QED BY <1>2, <1>8, NextOf

\* Only a cancellation asks for uploads to be held.
LEMMA HoldsShrink == [Next]_vars => Cancel \/ holds' \subseteq holds
<1> SUFFICES ASSUME [Next]_vars PROVE Cancel \/ holds' \subseteq holds
  OBVIOUS
<1>1. ASSUME NEW w \in Workers, Working(w) PROVE holds' = holds
  BY <1>1 DEF Working, Claim, ExecuteNothing, ExecuteUnready, ExecuteCheckpoint, ExecuteYouTubePublish,
     ExecuteCall, Uploaded, ContainerCreated, ContainerFinished, ContainerProcessing, ContainerInvalid,
     ReelPublished, ProviderAnswered, Lost, Refused, Unread, Fail, FailJob, RequireVerification, KeepPrivate
<1>2. CASE Sweeping
  BY <1>2 DEF Sweeping, Recover, ReconClaim, ReconConfirm, ReconDefer, Prune, actors
<1>3. CASE Platform
  BY <1>3 DEF Platform, Reaches, GoesPublic, RefusedByPlatform, AskAnswers, TimePasses, RetryDue, ReconAnswers, actors
<1>4. CASE Operating
  BY <1>4 DEF Operating, ChooseTargets, Schedule, Remove, Retry, AskBeforeRetry, Settle, SettleKnown,
     AnswerRecorded, AnswerDropped, Hold, actors
<1>5. CASE Crash \/ UNCHANGED vars
  BY <1>5 DEF Crash, vars, actors
<1> QED BY <1>1, <1>2, <1>3, <1>4, <1>5 DEF Next

LEMMA HoldsNext == ASSUME RowsInv, HoldsInv, [Next]_vars PROVE HoldsInv'
<1>0. route' = route /\ Typed
  BY RouteStays DEF RowsInv
<1>1. CASE Cancel
  <2>1. holds' = {<<t, target[t].ext>> : t \in {u \in Targets :
          route[u] = "youtube" /\ target[u].status # "published" /\ target[u].ext # 0 /\ fence[u] > 0 /\ ~past[u]}}
    BY <1>1 DEF Cancel
  <2>2. ASSUME NEW t \in Targets, NEW k \in ObjectIds, <<t, k>> \in holds'
        PROVE  route'[t] = "youtube" /\ target'[t].status = "cancelled" /\ k = target'[t].ext
    <3>1. route[t] = "youtube" /\ target[t].status # "published" /\ k = target[t].ext /\ fence[t] > 0
      BY <2>1, <2>2
    <3>2. target[t].status # "absent" /\ target[t] \in TargetRow
      <4>1. fence[t] # 0
        BY <3>1, <1>0 DEF Typed, TypeOK
      <4> QED BY <1>0, <4>1 DEF RowsInv, Line, Flow, FlowOf, Typed, TypeOK
    <3>3. target'[t] = [target[t] EXCEPT !.status = "cancelled"]
      BY <1>1, <3>1, <3>2 DEF Cancel
    <3> QED BY <1>0, <3>1, <3>2, <3>3 DEF TargetRow
  <2> QED BY <2>2 DEF HoldsInv, Status
<1>2. CASE holds' \subseteq holds
  BY <1>0, <1>2, CancelledStays DEF HoldsInv, Status
<1> QED BY <1>1, <1>2, HoldsShrink

\* The sweep's question, and the operator's.
LEMMA QuestionMoves ==
  ASSUME [Next]_vars
  PROVE  /\ recon' = recon \/ recon' = Idle \/ (recon = Idle /\ recon'.seen = "none") \/ ReconAnswers
         /\ asking' = asking \/ asking' = Idle \/ (asking = Idle /\ asking'.seen = "none") \/ AskAnswers
<1>1. ASSUME NEW w \in Workers, Working(w) PROVE UNCHANGED <<recon, asking>>
  BY <1>1 DEF Working, Claim, ExecuteNothing, ExecuteUnready, ExecuteCheckpoint, ExecuteYouTubePublish,
     ExecuteCall, Uploaded, ContainerCreated, ContainerFinished, ContainerProcessing, ContainerInvalid,
     ReelPublished, ProviderAnswered, Lost, Refused, Unread, Fail, FailJob, RequireVerification, KeepPrivate
<1>2. CASE Sweeping
  <2>1. CASE \E t \in Targets, kind \in Kinds : ReconClaim(t, kind)
    BY <2>1 DEF ReconClaim
  <2> QED BY <1>2, <2>1 DEF Sweeping, Recover, ReconConfirm, ReconDefer, Prune, actors
<1>3. CASE Platform
  BY <1>3 DEF Platform, Reaches, GoesPublic, RefusedByPlatform, AskAnswers, TimePasses, RetryDue, ReconAnswers, actors
<1>4. CASE Operating
  <2>1. CASE \E t \in Targets : AskBeforeRetry(t) \/ Settle(t)
    BY <2>1 DEF AskBeforeRetry, Settle, Ask
  <2> QED BY <1>4, <2>1 DEF Operating, ChooseTargets, Schedule, Remove, Retry, SettleKnown,
     AnswerRecorded, AnswerDropped, Hold, Cancel, actors
<1>5. CASE Crash \/ UNCHANGED vars
  BY <1>5 DEF Crash, vars, actors
<1> QED BY <1>1, <1>2, <1>3, <1>4, <1>5 DEF Next

LEMMA ReconTruthNext ==
  ASSUME RowsInv, RowsInv', PlatformInv, Platforms', [Next]_vars
  PROVE  ReconTruth'
<1>0. Typed /\ route' = route /\ ReconFacts /\ ReconFacts' /\ Platforms /\ HoldsInv /\ ReconTruth
  BY RouteStays DEF RowsInv, QuestionInv, PlatformInv
<1> SUFFICES ASSUME recon' # Idle, recon'.seen = "public",
                    route[recon'.t] = "zernio" \/ target'[recon'.t].status # "cancelled"
             PROVE  object'[recon'.t][Subject'] = "public"
  BY <1>0 DEF ReconTruth, Status
<1>1. CASE recon' = recon
  <2>1. recon \in Question /\ recon # Idle /\ Subject' = Subject
    BY <1>0, <1>1 DEF Typed, TypeOK, Subject
  <2>2. PICK t \in Targets : t = recon.t
    BY <2>1 DEF Question
  <2>3. PICK k \in ObjectIds : k = Subject
    <3>1. Subject # 0 /\ Subject \in 0 .. MaxObjects
      BY <1>0, <1>1, <2>1 DEF ReconFacts, Subject, Question
    <3> QED BY <3>1 DEF ObjectIds
  <2>4. route[t] = "zernio" \/ Status(t) # "cancelled"
    BY <1>1, <2>2, CancelledStays
  <2>5. object[t][k] = "public"
    BY <1>0, <1>1, <2>1, <2>2, <2>3, <2>4 DEF ReconTruth
  <2>6. CASE route[t] = "zernio"
    <3>1. object'[t][k] = "public"
      BY <1>0, <2>5, <2>6, ZernioObjects DEF Platforms
    <3> QED BY <1>1, <2>1, <2>2, <2>3, <3>1
  <2>7. CASE route[t] = "youtube"
    <3>1. k = target'[t].ext /\ k # 0 /\ target'[t].status # "cancelled"
      <4>1. recon'.ext = target'[t].ext
        BY <1>0, <1>1, <2>1, <2>2, <2>7 DEF ReconFacts
      <4>2. k = recon.ext
        BY <2>2, <2>3, <2>7 DEF Subject
      <4> QED BY <1>1, <2>2, <2>7, <4>1, <4>2 DEF ObjectIds
    <3>2. object'[t][k] # "held"
      BY <1>0, <2>7, <3>1 DEF Platforms, YouTube, Status
    <3>3. object'[t][k] = "public"
      BY <1>0, <2>5, <3>2, ObjectMoves
    <3> QED BY <1>1, <2>1, <2>2, <2>3, <3>3
  <2> QED BY <2>2, <2>3, <2>6, <2>7 DEF Subject, ObjectIds
<1>2. CASE ReconAnswers
  <2>1. object' = object /\ recon' = [recon EXCEPT !.seen = object[recon.t][Subject]] /\ recon \in Question
    BY <1>0, <1>2 DEF ReconAnswers, Typed, TypeOK
  <2>2. recon'.t = recon.t /\ recon'.ext = recon.ext /\ recon'.prov = recon.prov /\ recon'.seen = object[recon.t][Subject]
    BY <2>1 DEF Question
  <2>3. Subject' = Subject
    BY <1>0, <2>2 DEF Subject
  <2> QED BY <2>1, <2>2, <2>3
<1>3. CASE recon = Idle /\ recon'.seen = "none"
  BY <1>3
<1> QED BY <1>1, <1>2, <1>3, QuestionMoves

LEMMA AskedTruthNext ==
  ASSUME RowsInv, RowsInv', PlatformInv, [Next]_vars
  PROVE  AskedTruth'
<1>0. Typed /\ route' = route /\ AskFacts /\ Platforms /\ HoldsInv /\ AskedTruth
  BY RouteStays DEF RowsInv, QuestionInv, PlatformInv
<1> SUFFICES ASSUME asking' # Idle, asking'.seen \in {"public", "refused"}
             PROVE  object'[asking'.t][AskedPost'] = asking'.seen
  BY DEF AskedTruth
<1>1. CASE asking' = asking
  <2>1. asking \in Command /\ asking # Idle /\ AskedPost' = AskedPost
    BY <1>0, <1>1 DEF Typed, TypeOK, AskedPost
  <2>2. PICK t \in Targets : t = asking.t
    BY <2>1 DEF Command
  <2>3. PICK k \in ObjectIds : k = AskedPost
    BY <1>0, <2>1 DEF AskedPost, Command, Typed, ObjectIds
  <2>4. route[t] = "zernio" /\ object[t][k] = asking.seen
    BY <1>0, <1>1, <2>1, <2>2, <2>3 DEF AskFacts, AskedTruth
  <2>5. object'[t][k] = asking.seen
    BY <1>0, <1>1, <2>4, ZernioObjects DEF Platforms
  <2> QED BY <1>1, <2>1, <2>2, <2>3, <2>5
<1>2. CASE AskAnswers
  <2>1. asking' = [asking EXCEPT !.seen = object'[asking.t][AskedPost]] /\ asking \in Command
    BY <1>0, <1>2 DEF AskAnswers, AskedPost, Typed, TypeOK
  <2>2. PICK s : s = object'[asking.t][AskedPost]
    OBVIOUS
  <2>3. asking'.t = asking.t /\ asking'.prov = asking.prov /\ asking'.fence = asking.fence /\ asking'.seen = s
    BY <2>1, <2>2 DEF Command
  <2>4. AskedPost' = AskedPost
    BY <2>3 DEF AskedPost
  <2> QED BY <2>2, <2>3, <2>4
<1>3. CASE asking = Idle /\ asking'.seen = "none"
  BY <1>3
<1> QED BY <1>1, <1>2, <1>3, QuestionMoves

LEMMA PlatformsNext ==
  ASSUME RowsInv, RowsInv', InOrder, Readable, PlatformInv, [Next]_vars
  PROVE  PlatformInv'
<1>0. route' = route /\ Platforms /\ HoldsInv /\ ReconTruth /\ AskedTruth
  BY RouteStays DEF PlatformInv
<1>1. ASSUME NEW t \in Targets, route[t] = "youtube" PROVE YouTube(t)'
  BY <1>0, <1>1, YouTubeNext DEF Platforms
<1>2. ASSUME NEW t \in Targets, route[t] = "native" PROVE Native(t)'
  BY <1>0, <1>2, NativeNext DEF Platforms
<1>3. ASSUME NEW t \in Targets, route[t] = "zernio" PROVE Zernio(t)'
  BY <1>0, <1>3, ZernioNext DEF Platforms
<1>4. Platforms'
  BY <1>0, <1>1, <1>2, <1>3 DEF Platforms
<1> QED BY <1>0, <1>4, HoldsNext, ReconTruthNext, AskedTruthNext DEF PlatformInv

LEMMA InitPlatforms == Init => PlatformInv
<1> SUFFICES ASSUME Init PROVE PlatformInv
  OBVIOUS
<1>1. ASSUME NEW t \in Targets
      PROVE  /\ \A k \in ObjectIds : object[t][k] = "none"
             /\ target[t].ext = 0 /\ Status(t) = "editing" /\ \A w \in Workers : IdleWorker(w)
  BY DEF Init, NoTarget, IdleWorker, Status
<1>2. recon = Idle /\ asking = Idle /\ holds = {}
  BY DEF Init
<1>3. \A t \in Targets : YouTube(t) /\ Native(t) /\ Zernio(t)
  BY <1>1 DEF YouTube, Native, Zernio, On, Nothing, NonePublic
<1> QED BY <1>2, <1>3 DEF PlatformInv, Platforms, HoldsInv, ReconTruth, AskedTruth

LEMMA AlwaysPlatforms == ASSUME InOrder, Readable PROVE Spec => [](RowsInv /\ PlatformInv)
<1>1. Init => RowsInv /\ PlatformInv
  BY InitKeeps, InitPlatforms
<1>2. RowsInv /\ PlatformInv /\ [Next]_vars => (RowsInv /\ PlatformInv)'
  BY NextKeeps, PlatformsNext
<1> QED BY <1>1, <1>2, PTL DEF Spec

\* When publication waits for preparation and no upload is made twice over an
\* answer nobody could read, a cancelled YouTube upload whose time has not come is
\* private, or the call that makes it so is owed or was reported as failed
\* (cancelVideo, prepareYouTube after a lost lock).
THEOREM VideoCancelledIsHeld == ASSUME InOrder, Readable PROVE Spec => []CancelledIsHeld
<1>1. RowsInv /\ PlatformInv => CancelledIsHeld
  <2> SUFFICES ASSUME RowsInv, PlatformInv, NEW t \in Targets, target[t].status = "cancelled", ~past[t],
                      NEW k \in ObjectIds, object[t][k] = "scheduled"
               PROVE  \/ <<t, k>> \in holds \cup unheld
                      \/ \E w \in Workers : At(w, {"upload", "hold"}) /\ attempt[w].t = t /\ attempt[w].made = k
    BY DEF CancelledIsHeld, InHand
  <2>1. route[t] = "youtube"
    <3>1. route[t] \in AllRoutes
      BY DEF RowsInv, Typed, TypeOK
    <3> QED BY <3>1 DEF AllRoutes, PlatformInv, Platforms, Native, Zernio
  <2>2. YouTube(t)
    BY <2>1 DEF PlatformInv, Platforms
  <2>3. CASE k = target[t].ext
    BY <2>2, <2>3 DEF YouTube, Status, ObjectIds
  <2>4. ASSUME NEW w \in Workers, On(w, t, "prepare"), attempt[w].made = k
        PROVE  At(w, {"upload", "hold"}) /\ attempt[w].t = t /\ attempt[w].made = k
    <3>1. AttemptOf(w, t) /\ attempt[w] \in Attempt /\ k # 0
      BY <2>4, AttemptType DEF On, RowsInv, Line, Typed, ObjectIds
    <3>2. attempt[w].pc \in {"upload", "hold"}
      BY <2>1, <2>4, <3>1 DEF AttemptOf, Attempt, On
    <3> QED BY <2>4, <3>2 DEF At, On
  <2>5. CASE k # target[t].ext
    <3>1. <<t, k>> \in unheld \/ \E w \in Workers : On(w, t, "prepare") /\ attempt[w].made = k
      BY <2>2, <2>5 DEF YouTube
    <3> QED BY <3>1, <2>4
  <2> QED BY <2>3, <2>5
<1> QED BY <1>1, AlwaysPlatforms, PTL

-----------------------------------------------------------------------------
(* The provider's posts *)

\* A failed post is no more than refused before its target is sent again; an
\* answer nobody could read, a question about an older post and a settlement of a
\* failed target break this.
Careful == InOrder /\ Readable /\ "older_post" \notin Faults /\ "settle_failed" \notin Operations

NoneOut(t) == \A k \in ObjectIds : object[t][k] \in {"none", "refused"}
\* Only the last request can be out; the post a target names is that one while
\* it is in doubt, and refused while it waits.
ZernioPosts(t) ==
  /\ \A k \in ObjectIds : k # fence[t] => object[t][k] \in {"none", "refused"}
  /\ ~Frozen(t) /\ Status(t) # "published" =>
       /\ job[t]["publish"].status # "running" => NoneOut(t)
       /\ target[t].prov # 0 => object[t][target[t].prov] = "refused"
  /\ Status(t) = "verification_required" /\ target[t].prov # 0 =>
       target[t].prov = fence[t] /\ object[t][target[t].prov] # "none"
\* An attempt that lost its lock can still reach the provider, with a request
\* that was refused or that is the one in doubt.
ZernioCall(w, t) ==
  On(w, t, "publish") =>
    /\ attempt[w].made # 0 => attempt[w].made = attempt[w].fence /\ object[t][attempt[w].made] # "none"
    /\ Owns(w, t, "publish") /\ attempt[w].made = 0 => NoneOut(t)
    /\ ~Owns(w, t, "publish") =>
         \/ object[t][attempt[w].fence] = "refused"
         \/ attempt[w].fence = fence[t] /\ (Frozen(t) \/ Status(t) = "published")
ZernioTruth(t) == ZernioPosts(t) /\ \A w \in Workers : ZernioCall(w, t)
\* What an operator asks about is the last request's post, in doubt, or the
\* refused one of a failed target.
AskTruth ==
  asking # Idle =>
    /\ asking.fence = fence[asking.t]
    /\ asking.seen # "none" => object[asking.t][AskedPost] # "none"
    /\ \/ /\ asking.status = "verification_required"
          /\ Frozen(asking.t) \/ Status(asking.t) = "published"
          /\ asking.prov # 0 => asking.prov = fence[asking.t] /\ object[asking.t][asking.prov] # "none"
       \/ /\ asking.status = "failed" /\ asking.prov # 0 /\ asking.seen \in {"none", "refused"}
          /\ Status(asking.t) \in {"failed", "published", "cancelled"}
          /\ Status(asking.t) = "failed" => target[asking.t].prov = asking.prov /\ target[asking.t].ext = 0
          /\ object[asking.t][asking.prov] = "refused"
TruthInv == (\A t \in Targets : route[t] = "zernio" => ZernioTruth(t)) /\ AskTruth

\* How a step at the platforms moves the provider's posts and its callers.
LEMMA ZernioObjectStep ==
  ASSUME RowsInv, HoldsInv, ObjectStep, [Next]_vars, NEW t \in Targets, Zernio(t), ZernioTruth(t), AskTruth,
         route[t] = "zernio"
  PROVE  /\ UNCHANGED <<target, job, fence>>
         /\ \A v \in Workers : On(v, t, "publish")' =>
              /\ On(v, t, "publish") /\ attempt'[v].fence = attempt[v].fence /\ Owns(v, t, "publish")' = Owns(v, t, "publish")
              /\ \/ attempt'[v].made = attempt[v].made
                 \/ attempt'[v].made = attempt[v].fence /\ object'[t][attempt[v].fence] # "none"
         /\ \A k \in ObjectIds : object'[t][k] # object[t][k] =>
              /\ k = fence[t]
              /\ \/ object[t][k] = "accepted"
                 \/ Frozen(t) \/ Status(t) = "published"
                 \/ \E w \in Workers : On(w, t, "publish") /\ Owns(w, t, "publish") /\ attempt'[w].made # 0
<1>0. Typed /\ UNCHANGED <<target, job, fence>>
  BY ObjectStepRows DEF RowsInv
<1> DEFINE Callers == \A v \in Workers : On(v, t, "publish")' =>
              /\ On(v, t, "publish") /\ attempt'[v].fence = attempt[v].fence /\ Owns(v, t, "publish")' = Owns(v, t, "publish")
              /\ \/ attempt'[v].made = attempt[v].made
                 \/ attempt'[v].made = attempt[v].fence /\ object'[t][attempt[v].fence] # "none"
           Posts == \A k \in ObjectIds : object'[t][k] # object[t][k] =>
              /\ k = fence[t]
              /\ \/ object[t][k] = "accepted"
                 \/ Frozen(t) \/ Status(t) = "published"
                 \/ \E w \in Workers : On(w, t, "publish") /\ Owns(w, t, "publish") /\ attempt'[w].made # 0
<1>1. ASSUME NEW w \in Workers, Reaches(w) PROVE Callers /\ Posts
  <2>1. PICK u \in Targets, kind \in Kinds, id \in ObjectIds :
           /\ On(w, u, kind) /\ attempt[w].made = 0 /\ attempt'[w].made = id
           /\ attempt'[w].t = u /\ attempt'[w].kind = kind /\ attempt'[w].fence = attempt[w].fence /\ ~IdleWorker(w)'
           /\ \A v \in Workers : v # w => attempt'[v] = attempt[v]
           /\ \A v \in Targets : v # u => object'[v] = object[v]
           /\ \A k \in ObjectIds : k # id => object'[u][k] = object[u][k]
           /\ UNCHANGED <<recon, asking, holds, unheld>>
           /\ \/ route[u] = "youtube" /\ kind = "prepare" /\ object[u][id] = "none" /\ object'[u][id] = "scheduled"
              \/ route[u] = "native" /\ kind = "prepare" /\ object[u][id] = "none" /\ object'[u][id] = "container"
              \/ route[u] = "native" /\ kind = "publish" /\ object[u][id] = "container" /\ object'[u][id] = "public"
              \/ route[u] = "zernio" /\ kind = "publish" /\ id = attempt[w].fence
                 /\ object'[u][id] = IF object[u][id] = "none" THEN "accepted" ELSE object[u][id]
    BY <1>1, ReachesIs
  <2>2. \A v \in Workers : Owns(v, t, "publish")' = Owns(v, t, "publish")
    BY <1>0 DEF Owns
  <2>3. CASE u # t
    <3>1. \A v \in Workers : On(v, t, "publish")' => On(v, t, "publish") /\ attempt'[v] = attempt[v]
      BY <2>1, <2>3 DEF On, IdleWorker
    <3> QED BY <2>1, <2>2, <2>3, <3>1
  <2>4. CASE u = t
    <3>1. kind = "publish" /\ id = attempt[w].fence /\ On(w, t, "publish")
          /\ object'[t][id] = (IF object[t][id] = "none" THEN "accepted" ELSE object[t][id])
      BY <2>1, <2>4
    <3>2. object'[t][id] # "none"
      BY <3>1
    <3>3. \A v \in Workers : On(v, t, "publish")' => On(v, t, "publish") /\ attempt'[v].fence = attempt[v].fence
             /\ (attempt'[v].made = attempt[v].made \/ (attempt'[v].made = attempt[v].fence /\ v = w))
      BY <2>1, <2>4, <3>1 DEF On, IdleWorker
    <3>4. Callers
      BY <2>2, <3>1, <3>2, <3>3
    <3>5. ASSUME object'[t][id] # object[t][id]
          PROVE  id = fence[t] /\ (Frozen(t) \/ Status(t) = "published" \/ (On(w, t, "publish") /\ Owns(w, t, "publish") /\ attempt'[w].made # 0))
      <4>1. object[t][id] = "none" /\ id # 0
        BY <3>1, <3>5 DEF ObjectIds
      <4>2. CASE Owns(w, t, "publish")
        <5>1. attempt[w].fence = fence[t]
          BY <3>1, <4>2 DEF On, RowsInv, Line, AttemptOf
        <5> QED BY <2>1, <3>1, <4>1, <4>2, <5>1
      <4>3. CASE ~Owns(w, t, "publish")
        BY <3>1, <4>1, <4>3 DEF ZernioTruth, ZernioCall
      <4> QED BY <4>2, <4>3
    <3>6. Posts
      BY <2>1, <2>4, <3>5
    <3> QED BY <3>4, <3>6
  <2> QED BY <2>3, <2>4
<1>2. ASSUME attempt' = attempt PROVE Callers
  BY <1>0, <1>2 DEF On, IdleWorker, Owns
<1>3. ASSUME NEW w \in Workers, NEW answered \in BOOLEAN, KeepPrivate(w, answered) PROVE Callers /\ Posts
  <2>1. ~IdleWorker(w) /\ attempt[w].pc = "hold" /\ attempt[w].t \in Targets /\ AttemptOf(w, attempt[w].t)
    BY <1>0, <1>3, AttemptType DEF KeepPrivate, At, RowsInv, Line, Typed
  <2>2. attempt[w].t # t
    BY <2>1 DEF AttemptOf
  <2>3. object'[t] = object[t]
    BY <1>0, <1>3, <2>2 DEF KeepPrivate, Typed, TypeOK
  <2>4. IdleWorker(w)' /\ \A v \in Workers : v # w => attempt'[v] = attempt[v]
    BY <1>0, <1>3 DEF KeepPrivate, Done, IdleWorker, Typed, TypeOK
  <2>5. Callers
    BY <1>0, <2>4 DEF On, IdleWorker, Owns
  <2> QED BY <2>3, <2>5
<1>4. ASSUME NEW u \in Targets, NEW j \in ObjectIds, GoesPublic(u, j) \/ RefusedByPlatform(u, j)
      PROVE  Callers /\ Posts
  <2>1. attempt' = attempt
    BY <1>4 DEF GoesPublic, RefusedByPlatform, actors
  <2>2. PICK s : object' = [object EXCEPT ![u][j] = s]
    BY <1>4 DEF GoesPublic, RefusedByPlatform
  <2>3. object[u][j] \in {"accepted", "scheduled"}
    BY <1>4 DEF GoesPublic, RefusedByPlatform
  <2>4. ASSUME NEW k \in ObjectIds, object'[t][k] # object[t][k]
        PROVE  k = fence[t] /\ object[t][k] = "accepted"
    <3>1. u = t /\ k = j
      BY <1>0, <2>2, <2>4 DEF Typed, TypeOK
    <3> QED BY <2>3, <3>1 DEF Zernio, ZernioTruth, ZernioPosts
  <2> QED BY <1>2, <2>1, <2>4
<1>5. ASSUME AskAnswers PROVE Callers /\ Posts
  <2>1. attempt' = attempt /\ asking # Idle /\ asking \in Command
    BY <1>0, <1>5 DEF AskAnswers, Typed, TypeOK
  <2>2. object' = [object EXCEPT ![asking.t][AskedPost] = IF @ = "none" THEN "accepted" ELSE @]
    BY <1>5 DEF AskAnswers, AskedPost
  <2>3. ASSUME NEW k \in ObjectIds, object'[t][k] # object[t][k]
        PROVE  k = fence[t] /\ (Frozen(t) \/ Status(t) = "published")
    <3>1. asking.t = t /\ k = AskedPost /\ object[t][k] = "none"
      <4>1. object \in [Targets -> [ObjectIds -> ObjectStates]] /\ asking.t \in Targets
        BY <1>0, <2>1 DEF Typed, TypeOK, Command
      <4> HIDE DEF AskedPost
      <4> QED BY <2>2, <2>3, <4>1
    <3> QED BY <2>1, <3>1 DEF AskTruth, AskedPost
  <2> QED BY <1>2, <2>1, <2>3
<1>6. ASSUME NEW u \in Targets, NEW j \in ObjectIds, NEW answered \in BOOLEAN, Hold(u, j, answered)
      PROVE  Callers /\ Posts
  <2>1. u # t /\ attempt' = attempt
    BY <1>6 DEF Hold, HoldsInv
  <2>2. object'[t] = object[t]
    BY <1>0, <1>6, <2>1 DEF Hold, Typed, TypeOK
  <2> QED BY <1>2, <2>1, <2>2
<1>7. Callers /\ Posts
  <2> HIDE DEF Callers, Posts
  <2>1. CASE \E w \in Workers : Reaches(w) \/ \E answered \in BOOLEAN : KeepPrivate(w, answered)
    BY <1>1, <1>3, <2>1
  <2>2. CASE \E u \in Targets, j \in ObjectIds : GoesPublic(u, j) \/ RefusedByPlatform(u, j)
    BY <1>4, <2>2
  <2>3. CASE \E u \in Targets, j \in ObjectIds, answered \in BOOLEAN : Hold(u, j, answered)
    BY <1>6, <2>3
  <2> QED BY <1>5, <2>1, <2>2, <2>3 DEF ObjectStep
<1> QED BY <1>0, <1>7

LEMMA ZernioTruthObjects ==
  ASSUME RowsInv, HoldsInv, ObjectStep, [Next]_vars, NEW t \in Targets, Zernio(t), ZernioTruth(t), AskTruth,
         route[t] = "zernio"
  PROVE  ZernioTruth(t)'
<1>1. /\ UNCHANGED <<target, job, fence>>
      /\ \A v \in Workers : On(v, t, "publish")' =>
              /\ On(v, t, "publish") /\ attempt'[v].fence = attempt[v].fence /\ Owns(v, t, "publish")' = Owns(v, t, "publish")
              /\ \/ attempt'[v].made = attempt[v].made
                 \/ attempt'[v].made = attempt[v].fence /\ object'[t][attempt[v].fence] # "none"
      /\ \A k \in ObjectIds : object'[t][k] # object[t][k] =>
              /\ k = fence[t]
              /\ \/ object[t][k] = "accepted"
                 \/ Frozen(t) \/ Status(t) = "published"
                 \/ \E w \in Workers : On(w, t, "publish") /\ Owns(w, t, "publish") /\ attempt'[w].made # 0
  BY ZernioObjectStep
<1>2. Typed /\ Flow(t) /\ target[t] \in TargetRow /\ fence[t] \in 0 .. MaxObjects
  BY DEF RowsInv, Line, Typed, TypeOK
<1>3. \A k \in ObjectIds : /\ object[t][k] \in {"public", "refused"} => object'[t][k] = object[t][k]
                           /\ object[t][k] # "none" => object'[t][k] # "none"
  BY ZernioObjects
<1>4. \A w \in Workers : On(w, t, "publish") => attempt[w].fence \in ObjectIds /\ attempt[w].made \in 0 .. MaxObjects
  <2> SUFFICES ASSUME NEW w \in Workers, On(w, t, "publish")
               PROVE attempt[w].fence \in ObjectIds /\ attempt[w].made \in 0 .. MaxObjects
    OBVIOUS
  <2>1. attempt[w].fence \in 0 .. MaxObjects /\ attempt[w].made \in 0 .. MaxObjects /\ AttemptOf(w, t)
    BY <1>2, AttemptType DEF On, Typed, RowsInv, Line
  <2>2. attempt[w].fence # 0
    BY <2>1 DEF AttemptOf, On
  <2> QED BY <2>1, <2>2 DEF ObjectIds
<1>5. \A v, w \in Workers : Owns(v, t, "publish") /\ Owns(w, t, "publish") => v = w
  BY DEF Owns
<1>6. ~Frozen(t) /\ Status(t) # "published" /\ job[t]["publish"].status # "running" => NoneOut(t)'
  <2> SUFFICES ASSUME ~Frozen(t), Status(t) # "published", job[t]["publish"].status # "running",
                      NEW k \in ObjectIds
               PROVE  object'[t][k] \in {"none", "refused"}
    BY DEF NoneOut
  <2>1. object[t][k] \in {"none", "refused"}
    BY DEF ZernioTruth, ZernioPosts, NoneOut
  <2>2. \A w \in Workers : ~Owns(w, t, "publish")
    BY DEF Owns
  <2>3. object'[t][k] = object[t][k]
    BY <1>1, <2>1, <2>2
  <2> QED BY <2>1, <2>3
<1>7. target[t].prov # 0 => target[t].prov \in ObjectIds
  BY <1>2 DEF TargetRow, ObjectIds
<1>8. ZernioPosts(t)'
  <2>1. \A k \in ObjectIds : k # fence[t] => object'[t][k] \in {"none", "refused"}
    BY <1>1 DEF ZernioTruth, ZernioPosts
  <2>2. ~Frozen(t) /\ Status(t) # "published" /\ target[t].prov # 0 => object'[t][target[t].prov] = "refused"
    BY <1>3, <1>7 DEF ZernioTruth, ZernioPosts
  <2>3. Status(t) = "verification_required" /\ target[t].prov # 0 =>
          target[t].prov = fence[t] /\ object'[t][target[t].prov] # "none"
    BY <1>3, <1>7 DEF ZernioTruth, ZernioPosts
  <2>4. Frozen(t)' = Frozen(t) /\ Status(t)' = Status(t)
    BY <1>1 DEF Frozen, Status
  <2> QED BY <1>1, <1>6, <2>1, <2>2, <2>3, <2>4 DEF ZernioPosts
<1>9. ASSUME NEW w \in Workers, On(w, t, "publish")'
      PROVE  /\ attempt'[w].made # 0 => attempt'[w].made = attempt'[w].fence /\ object'[t][attempt'[w].made] # "none"
             /\ Owns(w, t, "publish") /\ attempt'[w].made = 0 => NoneOut(t)'
             /\ ~Owns(w, t, "publish") =>
                  \/ object'[t][attempt'[w].fence] = "refused"
                  \/ attempt'[w].fence = fence[t] /\ (Frozen(t) \/ Status(t) = "published")
  <2>1. On(w, t, "publish") /\ attempt'[w].fence = attempt[w].fence /\ attempt[w].fence \in ObjectIds
        /\ attempt[w].made \in 0 .. MaxObjects
        /\ (attempt'[w].made = attempt[w].made \/ (attempt'[w].made = attempt[w].fence /\ object'[t][attempt[w].fence] # "none"))
    BY <1>1, <1>4, <1>9
  <2>2. ZernioCall(w, t)
    BY DEF ZernioTruth
  <2>3. attempt'[w].made # 0 => attempt'[w].made = attempt'[w].fence /\ object'[t][attempt'[w].made] # "none"
    <3>1. CASE attempt'[w].made = attempt[w].made /\ attempt[w].made # 0
      <4>1. attempt[w].made \in ObjectIds /\ object[t][attempt[w].made] # "none" /\ attempt[w].made = attempt[w].fence
        BY <2>1, <2>2, <3>1 DEF ZernioCall, ObjectIds
      <4> QED BY <1>3, <2>1, <3>1, <4>1
    <3> QED BY <2>1, <3>1
  <2>4. Owns(w, t, "publish") /\ attempt'[w].made = 0 => NoneOut(t)'
    <3> SUFFICES ASSUME Owns(w, t, "publish"), attempt'[w].made = 0, NEW k \in ObjectIds
                 PROVE  object'[t][k] \in {"none", "refused"}
      BY DEF NoneOut
    <3>1. attempt[w].made = 0
      BY <2>1 DEF ObjectIds
    <3>2. object[t][k] \in {"none", "refused"}
      BY <2>1, <2>2, <3>1 DEF ZernioCall, NoneOut
    <3>3. ~Frozen(t) /\ Status(t) # "published"
      BY <1>2 DEF Owns, Flow, FlowOf, Frozen, Status
    <3>4. ~\E v \in Workers : On(v, t, "publish") /\ Owns(v, t, "publish") /\ attempt'[v].made # 0
      BY <1>5
    <3>5. object'[t][k] = object[t][k]
      BY <1>1, <3>2, <3>3, <3>4
    <3> QED BY <3>2, <3>5
  <2>5. ~Owns(w, t, "publish") =>
                  \/ object'[t][attempt'[w].fence] = "refused"
                  \/ attempt'[w].fence = fence[t] /\ (Frozen(t) \/ Status(t) = "published")
    BY <1>3, <2>1, <2>2 DEF ZernioCall
  <2> QED BY <2>3, <2>4, <2>5
<1>10. \A w \in Workers : ZernioCall(w, t)'
  <2>1. Frozen(t)' = Frozen(t) /\ Status(t)' = Status(t) /\ fence' = fence
    BY <1>1 DEF Frozen, Status
  <2>2. \A w \in Workers : On(w, t, "publish")' => (Owns(w, t, "publish")' = Owns(w, t, "publish"))
    BY <1>1
  <2> QED BY <1>9, <2>1, <2>2 DEF ZernioCall
<1> QED BY <1>8, <1>10 DEF ZernioTruth

\* A call made before a step is the call it was, whatever happened to the rows,
\* as long as its lock stayed where it was or its request is the one in doubt.
LEMMA CallKept ==
  ASSUME RowsInv, NEW t \in Targets, NEW w \in Workers, ZernioCall(w, t), object' = object, Carried(w, t),
         On(w, t, "publish") =>
           \/ /\ Owns(w, t, "publish")' <=> Owns(w, t, "publish")
              /\ \/ object[t][attempt[w].fence] = "refused" \/ Owns(w, t, "publish")
                 \/ fence'[t] = fence[t] /\ (Frozen(t)' \/ target'[t].status = "published")
           \/ ~Owns(w, t, "publish")' /\ attempt[w].fence = fence'[t] /\ (Frozen(t)' \/ target'[t].status = "published")
  PROVE  ZernioCall(w, t)'
<1> SUFFICES ASSUME On(w, t, "publish")' PROVE ZernioCall(w, t)'
  BY DEF ZernioCall
<1>1. On(w, t, "publish") /\ attempt'[w].made = attempt[w].made /\ attempt'[w].fence = attempt[w].fence
  BY DEF Carried, On
<1>2. NoneOut(t)' = NoneOut(t)
  BY DEF NoneOut
<1> QED BY <1>1, <1>2 DEF ZernioCall, Status

\* The provider's posts under a step that writes rows, by the kind of step.
LEMMA ZernioWaits ==
  ASSUME RowsInv, NEW t \in Targets, ZernioTruth(t),
         Status(t) \in {"absent", "editing", "scheduled", "failed"},
         job[t]["publish"].status # "running"
  PROVE  /\ NoneOut(t) /\ (target[t].prov # 0 => object[t][target[t].prov] = "refused")
         /\ \A w \in Workers : On(w, t, "publish") => ~Owns(w, t, "publish") /\ object[t][attempt[w].fence] = "refused"
  BY DEF ZernioTruth, ZernioPosts, ZernioCall, Owns, Frozen, Status

LEMMA ZernioEnded ==
  ASSUME RowsInv, Careful, NEW t \in Targets, ZernioTruth(t), route[t] = "zernio", object' = object,
         NEW w \in Workers, NEW kind \in Kinds, NEW row \in TargetRow, NEW mine \in JobStatus, NEW other \in JobStatus,
         Settled(w, t, kind, row, mine, other), Outcome(w, t, kind, row, mine, other)
  PROVE  ZernioTruth(t)'
<1>0. Typed /\ Line(t) /\ Flow(t) /\ AttemptOf(w, t) /\ On(w, t, kind) /\ Owns(w, t, kind) /\ Open(t)
  BY AttemptFacts DEF RowsInv, Line, Settled, Ending
<1>1. /\ target'[t] = row /\ IdleWorker(w)' /\ \A v \in Workers : v # w => attempt'[v] = attempt[v]
      /\ fence' = fence /\ job'[t][kind].status = mine /\ job'[t][Other(kind)].status = other
      /\ mine # "running"
      /\ \A v \in Workers, k \in Kinds : v # w => (Owns(v, t, k)' <=> Owns(v, t, k))
  BY <1>0, SettledOthers DEF Settled, Ending, Wrote
<1>2. attempt[w] \in Attempt /\ attempt[w].made \in 0 .. MaxObjects /\ attempt[w].fence = fence[t]
  BY <1>0, AttemptType DEF On, Typed, AttemptOf
<1>3. /\ target[t].prov # 0 => object[t][target[t].prov] = "refused"
      /\ job[t]["publish"].status # "running" => NoneOut(t)
      /\ \A k \in ObjectIds : k # fence[t] => object[t][k] \in {"none", "refused"}
  BY <1>0 DEF ZernioTruth, ZernioPosts, Open, Frozen, Status
<1>4. ASSUME NEW v \in Workers, v # w PROVE ZernioCall(v, t)'
  <2>1. ZernioCall(v, t)
    BY DEF ZernioTruth
  <2>2. Carried(v, t)
    BY <1>1, <1>4 DEF Carried, IdleWorker
  <2>3. (Owns(v, t, "publish")' <=> Owns(v, t, "publish"))
    BY <1>1, <1>4 DEF Kinds
  <2>4. On(v, t, "publish") => object[t][attempt[v].fence] = "refused" \/ Owns(v, t, "publish")
    BY <1>0, <2>1 DEF ZernioCall, Open, Frozen, Status
  <2> QED BY <2>1, <2>2, <2>3, <2>4, CallKept
<1>5. ZernioCall(w, t)'
  BY <1>1 DEF ZernioCall, On
<1>6. CASE kind = "prepare"
  <2>1. job[t]["publish"].status = "queued" /\ Other(kind) = "publish"
    BY <1>0, <1>6 DEF Owns, Flow, FlowOf, Other
  <2>2. NoneOut(t)
    BY <1>3, <2>1
  <2>3. row.prov = target[t].prov /\ row.status # "verification_required"
    BY <1>6 DEF Outcome, Prepared, Published, Doubted, Failed, Processing, Solo
  <2>4. NoneOut(t)'
    BY <2>2 DEF NoneOut
  <2>5. ZernioPosts(t)'
    BY <1>1, <1>3, <2>3, <2>4 DEF ZernioPosts, Status
  <2> QED BY <1>4, <1>5, <2>5 DEF ZernioTruth
<1>7. CASE kind = "publish"
  <2>1. ZernioCall(w, t)
    BY DEF ZernioTruth
  <2>2. CASE row.status = "published"
    BY <1>1, <1>3, <1>4, <1>5, <2>2 DEF ZernioTruth, ZernioPosts, Status
  <2>3. CASE Doubted(w, t, kind, row, mine, other)
    <3>1. row.status = "verification_required"
          /\ \/ row.prov = target[t].prov /\ ~NamesOlderPost(t, "publish")
             \/ row.prov = attempt[w].made /\ attempt[w].made # 0
      BY <1>7, <2>3 DEF Doubted, Careful
    <3>2. row.prov # 0 => row.prov = fence[t] /\ object[t][row.prov] # "none"
      BY <1>0, <1>2, <1>7, <2>1, <3>1 DEF NamesOlderPost, ZernioCall
    <3>3. ZernioPosts(t)'
      BY <1>1, <1>3, <3>1, <3>2 DEF ZernioPosts, Status, Frozen
    <3> QED BY <1>4, <1>5, <3>3 DEF ZernioTruth
  <2>4. CASE Failed(w, t, kind, row, mine, other)
    <3>1. row.prov = target[t].prov /\ row.status \in {"scheduled", "failed"} /\ attempt[w].made = 0
      BY <1>0, <1>2, <1>7, <2>4 DEF Failed, AttemptOf, On, Careful
    <3>2. NoneOut(t)'
      BY <1>0, <1>7, <2>1, <3>1 DEF ZernioCall, NoneOut
    <3>3. ZernioPosts(t)'
      BY <1>1, <1>3, <3>1, <3>2 DEF ZernioPosts, Status
    <3> QED BY <1>4, <1>5, <3>3 DEF ZernioTruth
  <2>5. row.status = "published" \/ Doubted(w, t, kind, row, mine, other) \/ Failed(w, t, kind, row, mine, other)
    BY <1>7 DEF Outcome, Prepared, Published, Processing
  <2> QED BY <2>2, <2>3, <2>4, <2>5
<1> QED BY <1>6, <1>7 DEF Kinds

LEMMA ZernioClaimed ==
  ASSUME RowsInv, NEW t \in Targets, ZernioTruth(t), route[t] = "zernio", object' = object, Careful,
         NEW w \in Workers, NEW kind \in Kinds, Claim(w, t, kind)
  PROVE  ZernioTruth(t)'
<1>0. Typed /\ Flow(t)
  BY DEF RowsInv, Line
<1>1. /\ target' = target /\ fence' = fence /\ IdleWorker(w) /\ job[t][kind].status = "queued"
      /\ attempt'[w].made = 0 /\ attempt'[w].kind = kind /\ attempt'[w].fence = fence[t]
      /\ \A v \in Workers : v # w => attempt'[v] = attempt[v]
      /\ kind = "publish" => job[t]["prepare"].status = "completed"
  BY <1>0 DEF Claim, Typed, TypeOK, Careful, InOrder
<1>2. job'[t][kind].status = "running" /\ job'[t][kind].lockedBy = w /\ \A k \in Kinds : k # kind => job'[t][k] = job[t][k]
  <2>1. job[t] \in [Kinds -> JobRow] /\ job[t][kind] \in JobRow /\ job \in [Targets -> [Kinds -> JobRow]]
    BY <1>0 DEF Typed, TypeOK
  <2> DEFINE new == [job[t][kind] EXCEPT !.status = "running", !.lockedBy = w]
  <2>2. job' = [job EXCEPT ![t][kind] = new]
    BY <1>0 DEF Claim, Typed, TypeOK
  <2>3. new.status = "running" /\ new.lockedBy = w
    BY <2>1 DEF JobRow
  <2> HIDE DEF new
  <2> QED BY <2>1, <2>2, <2>3
<1>3. Status(t) \in {"scheduled", "prepared"} /\ job[t]["publish"].status = "queued"
  BY <1>0, <1>1 DEF Flow, FlowOf, Kinds, Status
<1>4. NoneOut(t)
  BY <1>3 DEF ZernioTruth, ZernioPosts, Frozen
<1>5. NoneOut(t)' /\ Frozen(t)' = Frozen(t) /\ Status(t)' = Status(t)
  BY <1>1, <1>4 DEF NoneOut, Frozen, Status
<1>6. ZernioPosts(t)'
  BY <1>1, <1>5 DEF ZernioTruth, ZernioPosts
<1>7. ASSUME NEW v \in Workers PROVE ZernioCall(v, t)'
  <2>1. CASE v = w
    <3>1. On(w, t, "publish")' => Owns(w, t, "publish")'
      BY <1>1, <1>2 DEF On, Owns
    <3> QED BY <1>1, <1>5, <2>1, <3>1 DEF ZernioCall
  <2>2. CASE v # w
    <3>1. Carried(v, t) /\ ZernioCall(v, t)
      BY <1>1, <2>2 DEF Carried, IdleWorker, ZernioTruth
    <3>2. ~Owns(v, t, "publish") /\ ~Owns(v, t, "publish")'
      BY <1>2, <1>3, <2>2 DEF Owns, Kinds
    <3>3. On(v, t, "publish") => object[t][attempt[v].fence] = "refused"
      BY <1>3, <3>1, <3>2 DEF ZernioCall, Frozen
    <3> QED BY <3>1, <3>2, <3>3, CallKept
  <2> QED BY <2>1, <2>2
<1> QED BY <1>6, <1>7 DEF ZernioTruth

\* What a refusal recorded of an asked post means: the post is refused, and nothing else is out.
LEMMA RefusedPost ==
  ASSUME RowsInv, AskTruth, AskedTruth, NEW t \in Targets, ZernioTruth(t), AnswerRecorded, asking.t = t,
         RecordedRow.status = "failed"
  PROVE  /\ object[t][AskedPost] = "refused" /\ AskedPost \in ObjectIds /\ NoneOut(t)
         /\ \A w \in Workers : On(w, t, "publish") => ~Owns(w, t, "publish") /\ object[t][attempt[w].fence] = "refused"
<1>0. Typed /\ Flow(t) /\ AskedPost \in ObjectIds /\ asking # Idle /\ asking.status = Status(t)
      /\ Status(t) \in {"failed", "verification_required"}
  BY AnswerIs DEF RowsInv, Line, AnswerRecorded, Status
<1>1. asking.seen = "refused" /\ asking.prov # 0
  BY DEF RecordedRow, Recorded
<1>2. object[t][AskedPost] = "refused"
  BY <1>0, <1>1 DEF AskedTruth
<1>3. job[t]["publish"].status # "running"
  BY <1>0 DEF Flow, FlowOf, Status
<1>4. CASE Status(t) = "failed"
  BY <1>0, <1>2, <1>3, <1>4, ZernioWaits
<1>5. CASE Status(t) = "verification_required"
  <2>1. AskedPost = fence[t]
    BY <1>0, <1>1, <1>5 DEF AskTruth, AskedPost
  <2>2. NoneOut(t)
    BY <1>2, <2>1 DEF NoneOut, ZernioTruth, ZernioPosts
  <2>3. ASSUME NEW w \in Workers, On(w, t, "publish")
        PROVE  ~Owns(w, t, "publish") /\ object[t][attempt[w].fence] = "refused"
    <3>1. ~Owns(w, t, "publish")
      BY <1>3 DEF Owns
    <3> QED BY <1>2, <2>1, <2>3, <3>1 DEF ZernioTruth, ZernioCall
  <2> QED BY <1>0, <1>2, <2>2, <2>3
<1> QED BY <1>0, <1>4, <1>5

\* Nothing is out and nobody calls for the request that is next.
LEMMA ZernioRests ==
  ASSUME RowsInv, NEW t \in Targets, ZernioTruth(t), object' = object, NoneOut(t),
         \A w \in Workers : On(w, t, "publish") => ~Owns(w, t, "publish") /\ object[t][attempt[w].fence] = "refused",
         \A w \in Workers : ~Owns(w, t, "publish")' /\ Carried(w, t),
         target'[t].status \in {"absent", "editing", "scheduled", "failed"},
         target'[t].prov # 0 => object[t][target'[t].prov] = "refused"
  PROVE  ZernioTruth(t)'
<1>1. NoneOut(t)'
  BY DEF NoneOut
<1>2. ZernioPosts(t)'
  BY <1>1 DEF ZernioPosts, NoneOut, Status
<1>3. ASSUME NEW w \in Workers PROVE ZernioCall(w, t)'
  BY CallKept DEF ZernioTruth
<1> QED BY <1>2, <1>3 DEF ZernioTruth

\* The rows say that nobody knows, or that it is over.
LEMMA ZernioFrozen ==
  ASSUME RowsInv, NEW t \in Targets, ZernioTruth(t), object' = object, fence'[t] = fence[t],
         \A w \in Workers : Carried(w, t) /\ ~Owns(w, t, "publish")',
         \A w \in Workers : On(w, t, "publish") /\ Owns(w, t, "publish") => attempt[w].fence = fence[t],
         target'[t].status \in {"published", "cancelled", "verification_required"},
         target'[t].status = "verification_required" /\ target'[t].prov # 0 =>
           target'[t].prov = fence[t] /\ object[t][target'[t].prov] # "none"
  PROVE  ZernioTruth(t)'
<1>1. ZernioPosts(t)'
  BY DEF ZernioPosts, ZernioTruth, Frozen, Status
<1>2. ASSUME NEW w \in Workers PROVE ZernioCall(w, t)'
  <2>1. CASE Owns(w, t, "publish")
    BY <2>1, CallKept DEF ZernioTruth, Frozen, Status
  <2>2. CASE ~Owns(w, t, "publish")
    BY <2>2, CallKept DEF ZernioTruth, Frozen, Status
  <2> QED BY <2>1, <2>2
<1> QED BY <1>1, <1>2 DEF ZernioTruth

LEMMA ZernioTold ==
  ASSUME RowsInv, Careful, AskTruth, AskedTruth, NEW t \in Targets, ZernioTruth(t), route[t] = "zernio",
         object' = object,
         \/ Quiet(t) \/ Emptied(t) \/ Armed(t) \/ Told(t) \/ CancelledNow(t) \/ FoundOut(t)
         \/ \E kind \in Kinds : Taken(t, kind)
  PROVE  ZernioTruth(t)'
<1>0. Typed /\ Line(t) /\ Flow(t) /\ target[t] \in TargetRow
  BY DEF RowsInv, Line, Typed, TypeOK
<1>1. CASE Quiet(t)
  <2>1. target'[t] = target[t] /\ fence'[t] = fence[t] /\ SameJobs(t) /\ \A w \in Workers : Carried(w, t)
    BY <1>1 DEF Quiet
  <2>2. ZernioPosts(t)'
    BY <2>1 DEF SameJobs, Kinds, ZernioTruth, ZernioPosts, NoneOut, Frozen, Status
  <2>3. ASSUME NEW w \in Workers PROVE ZernioCall(w, t)'
    <3>1. (Owns(w, t, "publish")' <=> Owns(w, t, "publish")) /\ ZernioCall(w, t) /\ Carried(w, t)
      BY <2>1 DEF SameJobs, Kinds, ZernioTruth
    <3> QED BY <2>1, <3>1, CallKept DEF ZernioCall, Frozen, Status
  <2> QED BY <2>2, <2>3 DEF ZernioTruth
<1>2. CASE Emptied(t)
  <2>1. /\ Status(t) \in {"absent", "editing"} /\ target'[t].status \in {"absent", "editing"} /\ target'[t].prov = 0
        /\ attempt' = attempt /\ job[t]["publish"].status # "running" /\ job'[t]["publish"].status # "running"
    BY <1>2 DEF Emptied, Status, Kinds
  <2>2. \A w \in Workers : ~Owns(w, t, "publish")' /\ Carried(w, t)
    BY <2>1 DEF Owns, Carried, IdleWorker
  <2> QED BY <2>1, <2>2, ZernioWaits, ZernioRests
<1>3. CASE Armed(t)
  <2>1. /\ target'[t].status = "scheduled" /\ attempt' = attempt
        /\ job[t]["publish"].status # "running" /\ job'[t]["publish"].status # "running"
    BY <1>3 DEF Armed, Kinds
  <2>2. \A w \in Workers : ~Owns(w, t, "publish")' /\ Carried(w, t)
    BY <2>1 DEF Owns, Carried, IdleWorker
  <2>3. CASE Status(t) \in Schedulable \cup {"failed"} /\ target'[t].prov = target[t].prov
    BY <2>1, <2>2, <2>3, ZernioWaits, ZernioRests DEF Schedulable
  <2>4. CASE AnswerRecorded /\ asking.t = t /\ RecordedRow.status = "failed" /\ target'[t].prov = AskedPost
    BY <2>1, <2>2, <2>4, RefusedPost, ZernioRests
  <2> QED BY <1>3, <2>3, <2>4 DEF Armed, Status
<1>4. CASE Told(t)
  <2>1. /\ attempt' = attempt /\ fence'[t] = fence[t] /\ Status(t) \in {"failed", "verification_required"}
        /\ \A w \in Workers : ~Owns(w, t, "publish") /\ ~Owns(w, t, "publish")'
    <3>1. Status(t) \in {"failed", "verification_required"} /\ SameJobs(t)
      BY <1>4 DEF Told, Status
    <3>2. job[t]["publish"].status # "running"
      BY <1>0, <3>1 DEF Flow, FlowOf, Status
    <3>3. \A w \in Workers : ~Owns(w, t, "publish")
      BY <3>2 DEF Owns
    <3> QED BY <1>4, <3>1, <3>3 DEF Told, SameJobs, Kinds
  <2>2. \A w \in Workers : ~Owns(w, t, "publish")' /\ Carried(w, t)
    BY <2>1 DEF Carried, IdleWorker
  <2>3. CASE target'[t].status = "published"
    BY <2>1, <2>2, <2>3, ZernioFrozen
  <2>4. CASE AnswerRecorded /\ asking.t = t /\ target'[t] = RecordedRow
    <3>1. RecordedRow.prov = AskedPost /\ RecordedRow.status \in {"published", "failed", "verification_required"}
          /\ AskedPost \in ObjectIds /\ asking # Idle /\ asking.seen # "none" /\ asking.status = Status(t)
      BY <2>4, AnswerIs DEF AnswerRecorded, Status
    <3>2. CASE RecordedRow.status = "failed"
      BY <2>2, <2>4, <3>1, <3>2, RefusedPost, ZernioRests
    <3>3. CASE RecordedRow.status = "verification_required"
      <4>1. ~(asking.seen = "refused" /\ asking.prov # 0)
        BY <3>3 DEF RecordedRow, Recorded
      <4>2. asking.status = "verification_required"
        BY <2>4, <3>1, <4>1 DEF AskTruth
      <4>3. AskedPost = fence[t] /\ object[t][AskedPost] # "none"
        BY <2>4, <3>1, <4>2 DEF AskTruth, AskedPost
      <4> QED BY <2>1, <2>2, <2>4, <3>1, <3>3, <4>3, ZernioFrozen
    <3> QED BY <2>3, <2>4, <3>1, <3>2, <3>3
  <2> QED BY <1>4, <2>3, <2>4 DEF Told
<1>5. CASE CancelledNow(t)
  <2>1. /\ attempt' = attempt /\ fence'[t] = fence[t] /\ target'[t].prov = target[t].prov
        /\ target'[t].status = IF target[t].status \in {"absent", "published"} THEN target[t].status ELSE "cancelled"
        /\ job[t]["publish"].status # "running" /\ job'[t]["publish"].status # "running"
    BY <1>5 DEF CancelledNow, Kinds
  <2>2. \A w \in Workers : ~Owns(w, t, "publish") /\ ~Owns(w, t, "publish")' /\ Carried(w, t)
    BY <2>1 DEF Owns, Carried, IdleWorker
  <2>3. CASE target[t].status = "absent"
    BY <2>1, <2>2, <2>3, ZernioWaits, ZernioRests DEF Status
  <2>4. CASE target[t].status # "absent"
    BY <2>1, <2>2, <2>4, ZernioFrozen
  <2> QED BY <2>3, <2>4
<1>6. CASE FoundOut(t)
  <2>1. attempt' = attempt /\ fence'[t] = fence[t] /\ target'[t].status = "published"
        /\ job[t]["publish"].status # "running" /\ job'[t]["publish"].status # "running"
    BY <1>6 DEF FoundOut
  <2>2. \A w \in Workers : ~Owns(w, t, "publish") /\ ~Owns(w, t, "publish")' /\ Carried(w, t)
    BY <2>1 DEF Owns, Carried, IdleWorker
  <2> QED BY <2>1, <2>2, ZernioFrozen
<1>7. CASE Taken(t, "publish")
  <2>1. /\ attempt' = attempt /\ fence'[t] = fence[t] /\ target'[t].status = "verification_required"
        /\ target'[t].prov = target[t].prov /\ target[t].prov = 0
        /\ \A w \in Workers : ~Owns(w, t, "publish")'
    BY <1>7 DEF Taken, MayHaveReachedAudience, NamesOlderPost, Careful
  <2>2. \A w \in Workers : Carried(w, t)
    BY <2>1 DEF Carried, IdleWorker
  <2>3. \A w \in Workers : On(w, t, "publish") /\ Owns(w, t, "publish") => attempt[w].fence = fence[t]
    BY <1>0 DEF Line, AttemptOf, On
  <2> QED BY <2>1, <2>2, <2>3, ZernioFrozen
<1>8. CASE Taken(t, "prepare")
  <2>1. /\ attempt' = attempt /\ fence'[t] = fence[t] /\ target'[t].status \in {"scheduled", "failed"}
        /\ target'[t].prov = target[t].prov /\ job[t]["prepare"].status = "running" /\ job'[t]["publish"] = job[t]["publish"]
    BY <1>8 DEF Taken, MayHaveReachedAudience, Other
  <2>2. Status(t) = "scheduled" /\ job[t]["publish"].status # "running"
    BY <1>0, <2>1 DEF Flow, FlowOf, Status
  <2>3. \A w \in Workers : ~Owns(w, t, "publish")' /\ Carried(w, t)
    BY <2>1, <2>2 DEF Owns, Carried, IdleWorker
  <2> QED BY <2>1, <2>2, <2>3, ZernioWaits, ZernioRests
<1> QED BY <1>1, <1>2, <1>3, <1>4, <1>5, <1>6, <1>7, <1>8 DEF Kinds

LEMMA AskMoves ==
  ASSUME [Next]_vars
  PROVE  \/ asking' = asking \/ asking' = Idle \/ AskAnswers
         \/ \E t \in Targets : AskBeforeRetry(t) \/ Settle(t)
<1>1. ASSUME NEW w \in Workers, Working(w) PROVE asking' = asking
  BY <1>1 DEF Working, Claim, ExecuteNothing, ExecuteUnready, ExecuteCheckpoint, ExecuteYouTubePublish,
     ExecuteCall, Uploaded, ContainerCreated, ContainerFinished, ContainerProcessing, ContainerInvalid,
     ReelPublished, ProviderAnswered, Lost, Refused, Unread, Fail, FailJob, RequireVerification, KeepPrivate
<1>2. CASE Sweeping
  BY <1>2 DEF Sweeping, Recover, ReconClaim, ReconConfirm, ReconDefer, Prune, actors
<1>3. CASE Platform
  BY <1>3 DEF Platform, Reaches, GoesPublic, RefusedByPlatform, TimePasses, RetryDue, ReconAnswers, actors
<1>4. CASE Operating
  BY <1>4 DEF Operating, ChooseTargets, Schedule, Remove, Retry, SettleKnown,
     AnswerRecorded, AnswerDropped, Hold, Cancel, actors
<1>5. CASE Crash \/ UNCHANGED vars
  BY <1>5 DEF Crash, vars, actors
<1> QED BY <1>1, <1>2, <1>3, <1>4, <1>5 DEF Next

\* A command that asks the provider begins with what the row says.
LEMMA AskBegins ==
  ASSUME RowsInv, Careful, [Next]_vars, NEW t \in Targets, ZernioTruth(t), AskBeforeRetry(t) \/ Settle(t)
  PROVE  AskTruth'
<1>0. Typed /\ Flow(t) /\ target[t] \in TargetRow /\ fence[t] \in 0 .. MaxObjects
  BY DEF RowsInv, Line, Typed, TypeOK
<1>1. /\ UNCHANGED <<target, fence, object>> /\ asking'.t = t /\ asking'.status = Status(t) /\ asking'.prov = target[t].prov
      /\ asking'.fence = fence[t] /\ asking'.seen = "none" /\ target[t].ext = 0
  BY DEF AskBeforeRetry, Settle, Ask, rows, Status, Askable
<1>2. Status(t) \in {"failed", "verification_required"} /\ (Status(t) = "failed" => target[t].prov # 0)
  <2>1. CASE AskBeforeRetry(t)
    BY <2>1 DEF AskBeforeRetry, Askable, Status
  <2>2. CASE Settle(t)
    <3>1. Status(t) \in {"verification_required", "published"}
      BY <2>2 DEF Settle, Issued, Careful, Status
    <3> QED BY <1>0, <1>1, <3>1 DEF Flow, FlowOf, Status
  <2> QED BY <2>1, <2>2
<1>3. CASE Status(t) = "verification_required"
  BY <1>1, <1>3 DEF AskTruth, ZernioTruth, ZernioPosts, Frozen, Status
<1>4. CASE Status(t) = "failed"
  BY <1>1, <1>2, <1>4 DEF AskTruth, ZernioTruth, ZernioPosts, Frozen, Status
<1> QED BY <1>2, <1>3, <1>4

\* While the operator waits, the target is settled or cancelled but never sent again.
LEMMA AskedStays ==
  ASSUME RowsInv, Careful, AskTruth, [Next]_vars, asking # Idle, asking' = asking, NEW t \in Targets,
         asking.t = t
  PROVE  /\ fence'[t] = fence[t]
         /\ Status(t) \in {"verification_required", "cancelled", "published"} =>
              target'[t].status \in {"verification_required", "cancelled", "published"}
         /\ asking.status = "failed" => \/ target'[t].status \in {"published", "cancelled"}
                                        \/ target'[t] = target[t] /\ Status(t) = "failed"
<1>0. Typed /\ Flow(t) /\ Status(t) \in {"verification_required", "cancelled", "published", "failed"}
      /\ (asking.status = "failed" <=> Status(t) = "failed" \/ (asking.status = "failed" /\ Status(t) \in {"published", "cancelled"}))
  BY DEF RowsInv, Line, AskTruth, Frozen, Status
<1>1. ~AnswerRecorded
  BY DEF AnswerRecorded
<1>2. job[t]["publish"].status # "running" /\ job[t]["prepare"].status # "running"
  BY <1>0 DEF Flow, FlowOf, Status
<1>3. CASE ObjectStep \/ Quiet(t)
  BY <1>0, <1>3, ObjectStepRows DEF Quiet, Status, AskTruth
<1>4. ~Emptied(t) /\ ~Ended(t) /\ \A kind \in Kinds : ~Taken(t, kind)
  BY <1>0, <1>2 DEF Emptied, Ended, Settled, Owns, Taken, Kinds, Status
<1>5. ~Armed(t)
  <2> SUFFICES ASSUME Armed(t) PROVE FALSE
    OBVIOUS
  <2>1. Status(t) = "failed" /\ ~Askable(t)
    BY <1>0, <1>1 DEF Armed, Schedulable, Status
  <2>2. asking.status = "failed" /\ target[t].prov = asking.prov /\ asking.prov # 0 /\ target[t].ext = 0 /\ route[t] = "zernio"
    BY <2>1 DEF AskTruth, Frozen, Status, RowsInv, QuestionInv, AskFacts
  <2> QED BY <2>1, <2>2 DEF Askable
<1>6. CASE Told(t) \/ CancelledNow(t) \/ FoundOut(t)
  BY <1>0, <1>1, <1>6 DEF Told, CancelledNow, FoundOut, Status
<1>7. ASSUME NEW w \in Workers, NEW kind \in Kinds, Claim(w, t, kind) PROVE UNCHANGED <<target, fence>>
  BY <1>7 DEF Claim
<1>8. CASE UNCHANGED <<target, fence>>
  BY <1>0, <1>8 DEF Status, AskTruth
<1>9. CASE StepOf(t)
  BY <1>3, <1>4, <1>5, <1>6, <1>7, <1>8, <1>9 DEF StepOf
<1> QED BY <1>3, <1>9, NextOf

LEMMA AskTruthNext ==
  ASSUME RowsInv, RowsInv', Careful, PlatformInv, TruthInv, [Next]_vars
  PROVE  AskTruth'
<1>0. Typed /\ Typed' /\ AskFacts /\ Platforms /\ HoldsInv /\ AskTruth /\ route' = route
  BY RouteStays DEF RowsInv, QuestionInv, PlatformInv, TruthInv
<1>1. CASE \E t \in Targets : AskBeforeRetry(t) \/ Settle(t)
  <2>1. PICK t \in Targets : AskBeforeRetry(t) \/ Settle(t)
    BY <1>1
  <2>2. route[t] = "zernio"
    BY <2>1 DEF AskBeforeRetry, Settle, Askable
  <2> QED BY <2>1, <2>2, AskBegins DEF TruthInv
<1>2. CASE asking' = Idle
  BY <1>2 DEF AskTruth
<1>3. CASE asking # Idle /\ (asking' = asking \/ AskAnswers)
  <2>1. PICK t \in Targets : t = asking.t
    BY <1>0, <1>3 DEF Typed, TypeOK, Command
  <2>2. asking \in Command /\ AskedPost \in ObjectIds /\ route[t] = "zernio"
    BY <1>0, <1>3, <2>1 DEF Typed, TypeOK, AskedPost, Command, ObjectIds, AskFacts
  <2>3. Zernio(t) /\ \A k \in ObjectIds :
          /\ object[t][k] \in {"public", "refused"} => object'[t][k] = object[t][k]
          /\ object[t][k] # "none" => object'[t][k] # "none"
    BY <1>0, <2>2, ZernioObjects DEF Platforms
  <2>4. asking.prov # 0 => asking.prov \in ObjectIds
    BY <2>2 DEF Command, ObjectIds
  <2>5. CASE asking' = asking
    <3>1. /\ fence'[t] = fence[t]
          /\ Status(t) \in {"verification_required", "cancelled", "published"} =>
               target'[t].status \in {"verification_required", "cancelled", "published"}
          /\ asking.status = "failed" => \/ target'[t].status \in {"published", "cancelled"}
                                         \/ target'[t] = target[t] /\ Status(t) = "failed"
      BY <1>0, <1>3, <2>1, <2>5, AskedStays
    <3>2. AskedPost' = AskedPost
      BY <2>5 DEF AskedPost
    <3> HIDE DEF AskedPost
    <3>3. asking.seen # "none" => object'[t][AskedPost] # "none"
      BY <1>0, <1>3, <2>1, <2>2, <2>3 DEF AskTruth
    <3>4. asking.prov # 0 /\ object[t][asking.prov] # "none" => object'[t][asking.prov] # "none"
      BY <2>3, <2>4
    <3>5. asking.prov # 0 /\ object[t][asking.prov] = "refused" => object'[t][asking.prov] = "refused"
      BY <2>3, <2>4
    <3>6. CASE asking.status = "failed"
      BY <1>0, <1>3, <2>1, <2>5, <3>1, <3>2, <3>3, <3>5, <3>6 DEF AskTruth, Status
    <3>7. CASE asking.status # "failed"
      BY <1>0, <1>3, <2>1, <2>5, <3>1, <3>2, <3>3, <3>4, <3>7 DEF AskTruth, Frozen, Status
    <3> QED BY <3>6, <3>7
  <2>6. CASE AskAnswers
    <3>1. PICK s : s = object'[t][AskedPost]
      OBVIOUS
    <3>2. asking' = [asking EXCEPT !.seen = s] /\ UNCHANGED <<target, fence>>
          /\ object' = [object EXCEPT ![t][AskedPost] = IF @ = "none" THEN "accepted" ELSE @]
      BY <2>1, <2>6, <3>1 DEF AskAnswers, AskedPost, rows
    <3>3. /\ asking'.t = t /\ asking'.prov = asking.prov /\ asking'.fence = asking.fence /\ asking'.status = asking.status
          /\ asking'.seen = s
      BY <2>1, <2>2, <3>2 DEF Command
    <3>4. AskedPost' = AskedPost
      BY <3>3 DEF AskedPost
    <3>5. object'[t][AskedPost] # "none"
      <4> HIDE DEF AskedPost
      <4> QED BY <1>0, <2>2, <3>2 DEF Typed, TypeOK
    <3>6. asking.status = "failed" => s = "refused"
      BY <1>0, <1>3, <2>1, <2>3, <2>4, <3>1 DEF AskTruth, AskedPost
    <3>7. asking.prov # 0 /\ object[t][asking.prov] # "none" => object'[t][asking.prov] # "none"
      BY <2>3, <2>4
    <3>8. asking.prov # 0 /\ object[t][asking.prov] = "refused" => object'[t][asking.prov] = "refused"
      BY <2>3, <2>4
    <3> QED BY <1>0, <1>3, <2>1, <3>1, <3>2, <3>3, <3>4, <3>5, <3>6, <3>7, <3>8 DEF AskTruth, Frozen, Status
  <2> QED BY <1>3, <2>5, <2>6
<1>4. CASE asking' = asking /\ asking = Idle
  BY <1>4 DEF AskTruth
<1>5. AskAnswers => asking # Idle
  BY DEF AskAnswers
<1> QED BY <1>1, <1>2, <1>3, <1>4, <1>5, AskMoves

LEMMA TruthNext ==
  ASSUME RowsInv, RowsInv', Careful, PlatformInv, TruthInv, [Next]_vars
  PROVE  TruthInv'
<1>0. route' = route /\ Platforms /\ HoldsInv /\ AskedTruth /\ AskTruth
  BY RouteStays DEF PlatformInv, TruthInv
<1>1. ASSUME NEW t \in Targets, route[t] = "zernio" PROVE ZernioTruth(t)'
  <2>0. Zernio(t) /\ ZernioTruth(t)
    BY <1>0, <1>1 DEF Platforms, TruthInv
  <2>1. CASE ObjectStep
    BY <1>0, <1>1, <2>0, <2>1, ZernioTruthObjects
  <2>2. CASE StepOf(t) /\ object' = object
    <3>1. CASE Ended(t)
      <4>1. PICK w \in Workers, kind \in Kinds, row \in TargetRow, mine \in JobStatus, other \in JobStatus :
              Settled(w, t, kind, row, mine, other) /\ Outcome(w, t, kind, row, mine, other)
        BY <3>1 DEF Ended
      <4> QED BY <1>1, <2>0, <2>2, <4>1, ZernioEnded
    <3>2. ASSUME NEW w \in Workers, NEW kind \in Kinds, Claim(w, t, kind) PROVE ZernioTruth(t)'
      BY <1>1, <2>0, <2>2, <3>2, ZernioClaimed
    <3> QED BY <1>0, <1>1, <2>0, <2>2, <3>1, <3>2, ZernioTold DEF StepOf
  <2> QED BY <2>1, <2>2, NextOf
<1> QED BY <1>0, <1>1, AskTruthNext DEF TruthInv

LEMMA InitTruth == Init => TruthInv
<1> SUFFICES ASSUME Init PROVE TruthInv
  OBVIOUS
<1>1. ASSUME NEW t \in Targets PROVE ZernioTruth(t)
  <2>1. /\ \A k \in ObjectIds : object[t][k] = "none"
        /\ target[t].prov = 0 /\ Status(t) = "editing" /\ \A w \in Workers : IdleWorker(w)
    BY <1>1 DEF Init, NoTarget, IdleWorker, Status
  <2> QED BY <2>1 DEF ZernioTruth, ZernioPosts, ZernioCall, NoneOut, On
<1>2. asking = Idle
  BY DEF Init
<1> QED BY <1>1, <1>2 DEF TruthInv, AskTruth

LEMMA AlwaysTruth == ASSUME Careful PROVE Spec => [](RowsInv /\ PlatformInv /\ TruthInv)
<1>0. InOrder /\ Readable
  BY DEF Careful
<1>1. Init => RowsInv /\ PlatformInv /\ TruthInv
  BY InitKeeps, InitPlatforms, InitTruth
<1>2. RowsInv /\ PlatformInv /\ TruthInv /\ [Next]_vars => (RowsInv /\ PlatformInv /\ TruthInv)'
  BY <1>0, NextKeeps, PlatformsNext, TruthNext
<1> QED BY <1>1, <1>2, PTL DEF Spec

\* What a target says is what the platform shows: "published" names something
\* that is out, or a YouTube upload that goes out by itself, its time come or its
\* publication armed by a retry, and "failed" leaves nothing that is out or on
\* its way, through every crash, lost answer, retry, settlement and recovery
\* (failVideoJob, recoverVideoLocks, record, publishYouTube, completePublish).
THEOREM VideoTellsTheTruth == ASSUME Careful PROVE Spec => []TargetTellsTheTruth
<1>1. RowsInv /\ PlatformInv /\ TruthInv => TargetTellsTheTruth
  <2> SUFFICES ASSUME RowsInv, PlatformInv, TruthInv PROVE PublishedReelIsLive /\ FailedIsNotOut
    BY DEF TargetTellsTheTruth
  <2>1. ASSUME NEW t \in Targets
        PROVE  /\ Flow(t) /\ route[t] \in AllRoutes /\ target[t] \in TargetRow
               /\ route[t] = "youtube" => YouTube(t)
               /\ route[t] = "native" => Native(t)
               /\ route[t] = "zernio" => Zernio(t) /\ ZernioTruth(t)
    <3>1. Flow(t) /\ route[t] \in AllRoutes /\ target[t] \in TargetRow
      BY DEF RowsInv, Line, Typed, TypeOK
    <3> QED BY <3>1 DEF PlatformInv, Platforms, TruthInv
  <2>2. ASSUME NEW t \in Targets, target[t].status = "published"
        PROVE  /\ target[t].ext # 0
               /\ \/ object[t][target[t].ext] = "public"
                  \/ route[t] = "youtube" /\ object[t][target[t].ext] = "scheduled" /\ (past[t] \/ soon[t])
    <3>1. target[t].ext # 0 /\ target[t].ext \in ObjectIds
      <4>1. Flow(t) /\ target[t] \in TargetRow
        BY <2>1
      <4>2. target[t].ext # 0
        BY <2>2, <4>1 DEF Flow, FlowOf
      <4> QED BY <4>1, <4>2 DEF TargetRow, ObjectIds
    <3>2. CASE route[t] = "youtube"
      <4>1. YouTube(t) /\ Status(t) = "published"
        BY <2>1, <2>2, <3>2 DEF Status
      <4>2. object[t][target[t].ext] = "public" \/ past[t] \/ soon[t]
        BY <4>1 DEF YouTube
      <4>3. object[t][target[t].ext] \in {"public", "scheduled"}
        BY <3>1, <4>1 DEF YouTube
      <4> QED BY <3>1, <3>2, <4>2, <4>3
    <3>3. CASE route[t] # "youtube"
      BY <2>1, <2>2, <3>1, <3>3 DEF Native, Zernio, Status, AllRoutes
    <3> QED BY <3>1, <3>2, <3>3
  <2>3. ASSUME NEW t \in Targets, target[t].status = "failed", NEW k \in ObjectIds
        PROVE  object[t][k] \notin {"public", "accepted"}
    <3>1. ~Frozen(t) /\ Status(t) = "failed" /\ job[t]["prepare"].status # "running" /\ job[t]["publish"].status # "running"
      BY <2>1, <2>3 DEF Frozen, Status, Flow, FlowOf
    <3>2. CASE route[t] = "youtube"
      <4>1. target[t].ext = 0
        BY <2>1, <2>3, <3>2 DEF Flow, FlowOf
      <4> QED BY <2>1, <3>1, <3>2, <4>1 DEF YouTube, Nothing
    <3>3. CASE route[t] = "native"
      BY <2>1, <3>1, <3>3 DEF Native, NonePublic
    <3>4. CASE route[t] = "zernio"
      BY <2>1, <3>1, <3>4 DEF ZernioTruth, ZernioPosts, NoneOut
    <3> QED BY <2>1, <3>2, <3>3, <3>4 DEF AllRoutes
  <2> QED BY <2>2, <2>3 DEF PublishedReelIsLive, FailedIsNotOut
<1> QED BY <1>1, AlwaysTruth, PTL

\* One video is on a platform at most once, whatever was lost, repeated or
\* recovered (recoverVideoLocks, retryVideoTarget, settleVideoTarget).
THEOREM VideoOneReel == ASSUME Careful PROVE Spec => []OneReel
<1>1. RowsInv /\ PlatformInv /\ TruthInv => OneReel
  <2> SUFFICES ASSUME RowsInv, PlatformInv, TruthInv, NEW t \in Targets PROVE Cardinality(GoingOut(t)) <= 1
    BY DEF OneReel
  <2>1. /\ route[t] \in AllRoutes
        /\ route[t] = "youtube" => YouTube(t)
        /\ route[t] = "native" => Native(t)
        /\ route[t] = "zernio" => Zernio(t) /\ ZernioTruth(t)
    BY DEF RowsInv, Typed, TypeOK, PlatformInv, Platforms, TruthInv
  <2>2. ASSUME NEW j \in GoingOut(t), NEW k \in GoingOut(t) PROVE j = k
    <3>1. j \in ObjectIds /\ k \in ObjectIds
      BY DEF GoingOut
    <3>2. CASE route[t] = "youtube"
      BY <2>1, <3>1, <3>2 DEF GoingOut, YouTube
    <3>3. CASE route[t] = "native"
      BY <2>1, <3>1, <3>3 DEF GoingOut, Native
    <3>4. CASE route[t] = "zernio"
      BY <2>1, <3>1, <3>4 DEF GoingOut, ZernioTruth, ZernioPosts
    <3> QED BY <2>1, <3>2, <3>3, <3>4 DEF AllRoutes
  <2>3. CASE GoingOut(t) = {}
    BY <2>3, FS_EmptySet
  <2>4. ASSUME NEW k \in GoingOut(t) PROVE Cardinality(GoingOut(t)) = 1
    <3>1. GoingOut(t) = {k}
      BY <2>2
    <3> QED BY <3>1, FS_Singleton
  <2> QED BY <2>3, <2>4
<1> QED BY <1>1, AlwaysTruth, PTL
=============================================================================
