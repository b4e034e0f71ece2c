------------------------------ MODULE Breaker ------------------------------
(***************************************************************************)
(* The credential breaker of one target (observability/auth-circuit.ts)    *)
(* and everything that feeds or reads it: deliveries, one at a time on a   *)
(* target (publish-workflow.ts, queue.ts), the reconciliation sweep, the   *)
(* hourly token probe (token-health.ts) and the alert an operator gets     *)
(* (alerts.ts).  Deliveries and the sweep ask the breaker before they      *)
(* call, the probe does not, and every answer comes back after the others  *)
(* may have moved the breaker.  What a call answers is chosen freely.      *)
(***************************************************************************)
EXTENDS Naturals, FiniteSets

CONSTANTS
  Deliveries,     \* publish jobs of the target
  Threshold,      \* AUTH_FAILURE_THRESHOLD
  Pause,          \* AUTH_BLOCK_COOLDOWN_SECONDS
  PingEvery, PingRetry,   \* PING_INTERVAL_SECONDS, PING_RETRY_SECONDS
  AlertQuiet,     \* ALERT_COOLDOWN_SECONDS
  Tries, PartialTries,    \* PUBLISH_MAX_ATTEMPTS, PUBLISH_PARTIAL_MAX_ATTEMPTS
  LastInstant     \* bound on time

ASSUME BreakerAssumption ==
  /\ {Threshold, Pause, PingRetry, AlertQuiet, Tries, PartialTries} \subseteq Nat \ {0}
  /\ PingEvery \in Nat /\ PingEvery > PingRetry
  /\ LastInstant \in Nat /\ LastInstant >= PingEvery

VARIABLES
  instant,    \* the time
  gauge,      \* credential_checks: the target's row, its details (0 for null)
  parcels,    \* publish_jobs of the target
  callers,    \* who else is waiting for the provider: the sweep, the probe
  bulletin,   \* trip events not yet acknowledged, the last one recorded, the last alert
  ledger,     \* ghost: refusals since the last answer, the last one and the last trip,
              \* a half-finished delivery kept waiting in spite of an answer
  rounds      \* ghost: the last probe, the rest it has earned, one that came too soon

breakerVars == <<instant, gauge, parcels, callers, bulletin, ledger, rounds>>

FirstInstant == PingEvery
Parcel == [status: {"queued", "calling", "published", "failed", "in_doubt"},
           spent: Nat, due: Nat, since: Nat, tried: Nat]

BreakerInit ==
  /\ instant = FirstInstant
  /\ gauge = [row |-> FALSE, streak |-> 0, until |-> 0, ping |-> 0, answer |-> 0]
  /\ parcels = [p \in Deliveries |-> [status |-> "queued", spent |-> 0, due |-> 0, since |-> 0, tried |-> 0]]
  /\ callers = {}
  /\ bulletin = [pending |-> 0, recorded |-> 0, alerted |-> 0]
  /\ ledger = [refusals |-> 0, refused |-> 0, tripped |-> 0, patient |-> FALSE]
  /\ rounds = [probed |-> 0, rest |-> 0, rushed |-> FALSE]

-----------------------------------------------------------------------------
(* The breaker. *)

Blocked == gauge.until > instant

\* MUTANT: the details are rebuilt from the failure alone.
RefusedFromScratch(g) ==
  [row |-> TRUE, streak |-> g.streak + 1, ping |-> 0, answer |-> 0,
   until |-> IF g.streak + 1 >= Threshold THEN instant + Pause ELSE g.until]

\* recordAuthFailure: the pause starts anew with every failure from the threshold on.
Refused(g) ==
  [g EXCEPT !.row = TRUE, !.streak = @ + 1,
            !.until = IF g.streak + 1 >= Threshold THEN instant + Pause ELSE @]

\* recordAuthSuccess does nothing for a target without a row.
Answered(g) == IF g.row THEN [g EXCEPT !.streak = 0, !.until = 0, !.answer = instant] ELSE g

\* recordTokenPing, as if it had happened earlier when it taught nothing.
Pinged(g, back) == [g EXCEPT !.row = TRUE, !.ping = instant - back]

\* The event is recorded when the threshold is reached and not when the pause is renewed,
\* once in a cooldown.
RecordFailure(g) ==
  LET trips == g.streak + 1 = Threshold IN
  /\ gauge' = Refused(g)
  /\ bulletin' = IF trips /\ (bulletin.recorded = 0 \/ instant - bulletin.recorded > Pause)
                 THEN [bulletin EXCEPT !.pending = @ + 1, !.recorded = instant] ELSE bulletin
  /\ ledger' = [ledger EXCEPT !.refusals = @ + 1, !.refused = instant,
                              !.tripped = IF trips THEN instant ELSE @]

RecordSuccess(g) ==
  gauge' = Answered(g) /\ ledger' = [ledger EXCEPT !.refusals = 0] /\ UNCHANGED bulletin

NothingRecorded == UNCHANGED <<gauge, bulletin, ledger>>

-----------------------------------------------------------------------------
(* Deliveries. *)

Settles(p, status) == parcels' = [parcels EXCEPT ![p].status = status]

\* failPublishJob for an error that passes.
TriesLater(p) ==
  LET again == parcels[p].spent + 1 < Tries IN
  parcels' = [parcels EXCEPT ![p].spent = @ + 1, ![p].status = IF again THEN "queued" ELSE "failed",
                             ![p].due = IF again THEN instant + 1 ELSE @, ![p].tried = instant]

\* The target's limiter lets one delivery run.  A claim touches updatedAt, and so does
\* every phase; the breaker is asked in between, and its refusal is an attempt spent.
TakeDelivery(p) ==
  /\ parcels[p].status = "queued" /\ parcels[p].due <= instant
  /\ \A q \in Deliveries : parcels[q].status # "calling"
  /\ IF Blocked THEN TriesLater(p)
     ELSE parcels' = [parcels EXCEPT ![p].status = "calling", ![p].since = instant]
  /\ NothingRecorded /\ UNCHANGED <<instant, callers, rounds>>

\* settlePartialPublication: an answer since the row was last touched says the platform
\* is up, and the half-finished delivery is not tried again.
HandsBackHalf(p) ==
  LET again == parcels[p].spent + 1 < PartialTries /\ gauge.answer <= parcels[p].since IN
  /\ parcels' = [parcels EXCEPT ![p].spent = @ + 1, ![p].status = IF again THEN "queued" ELSE "failed",
                                ![p].due = IF again THEN instant + 1 ELSE @, ![p].tried = instant]
  /\ \/ /\ ledger' = [ledger EXCEPT
                        !.patient = @ \/ (again /\ parcels[p].tried # 0 /\ gauge.answer > parcels[p].tried)]
        /\ UNCHANGED <<gauge, bulletin>>
     \/ ~again /\ RecordFailure(gauge)

\* Only a final answer speaks of the credential: a deferral, a failure that passes and
\* a doubt leave the breaker as it is.
DeliveryAnswered(p) ==
  /\ parcels[p].status = "calling"
  /\ \/ Settles(p, "published") /\ RecordSuccess(gauge)
     \/ Settles(p, "failed") /\ (RecordFailure(gauge) \/ NothingRecorded)
     \/ Settles(p, "queued") /\ NothingRecorded
     \/ TriesLater(p) /\ NothingRecorded
     \/ HandsBackHalf(p)
     \/ Settles(p, "in_doubt") /\ NothingRecorded
  /\ UNCHANGED <<instant, callers, rounds>>

-----------------------------------------------------------------------------
(* The sweep, the probe, the alert. *)

SweepAsks ==
  /\ "sweep" \notin callers /\ ~Blocked /\ \E p \in Deliveries : parcels[p].status = "in_doubt"
  /\ callers' = callers \cup {"sweep"}
  /\ NothingRecorded /\ UNCHANGED <<instant, parcels, rounds>>

SweepAnswered ==
  /\ "sweep" \in callers /\ callers' = callers \ {"sweep"}
  /\ \/ /\ RecordSuccess(gauge)
        /\ \E p \in Deliveries : parcels[p].status = "in_doubt" /\ Settles(p, "published")
     \/ RecordFailure(gauge) /\ UNCHANGED parcels
     \/ NothingRecorded /\ UNCHANGED parcels
  /\ UNCHANGED <<instant, rounds>>

\* shouldPingToken, whatever the breaker says.
ProbeDue == gauge.ping = 0 \/ instant - gauge.ping >= PingEvery

ProbeAsks ==
  /\ "probe" \notin callers /\ ProbeDue
  /\ callers' = callers \cup {"probe"}
  /\ rounds' = [rounds EXCEPT
                  !.rushed = @ \/ (rounds.probed # 0 /\ instant - rounds.probed < rounds.rest)]
  /\ NothingRecorded /\ UNCHANGED <<instant, parcels>>

\* Only 401 and 403 speak of the credential; anything else is asked again soon.
ProbeAnswered ==
  /\ "probe" \in callers /\ callers' = callers \ {"probe"}
  /\ \/ /\ RecordSuccess(Pinged(gauge, 0)) \/ RecordFailure(Pinged(gauge, 0))
        /\ rounds' = [rounds EXCEPT !.probed = instant, !.rest = PingEvery]
     \/ /\ gauge' = Pinged(gauge, PingEvery - PingRetry) /\ UNCHANGED <<bulletin, ledger>>
        /\ rounds' = [rounds EXCEPT !.probed = instant, !.rest = PingRetry]
  /\ UNCHANGED <<instant, parcels>>

\* updateCredentialChecks makes the row and leaves the details of one that exists.
RegisterTarget ==
  /\ ~gauge.row /\ gauge' = [gauge EXCEPT !.row = TRUE]
  /\ UNCHANGED <<instant, parcels, callers, bulletin, ledger, rounds>>

\* Acknowledged and noted as sent in one transaction before it is sent, or acknowledged
\* and counted as suppressed.
DeliverAlert ==
  LET cooling == bulletin.alerted # 0 /\ instant - bulletin.alerted < AlertQuiet IN
  /\ bulletin.pending > 0
  /\ bulletin' = [bulletin EXCEPT !.pending = @ - 1, !.alerted = IF cooling THEN @ ELSE instant]
  /\ UNCHANGED <<instant, gauge, parcels, callers, ledger, rounds>>

\* The process dies, and what it was answered is not recorded: a call that was out is
\* in doubt, one not yet made is queued again, and recovery counts the attempt beyond any
\* budget (counted here up to PartialTries, past which nothing distinguishes it).
Counted(p) == IF parcels[p].spent < PartialTries THEN parcels[p].spent + 1 ELSE parcels[p].spent
KillProcess ==
  /\ callers' = {}
  /\ IF \E p \in Deliveries : parcels[p].status = "calling"
     THEN \E p \in Deliveries :
            /\ parcels[p].status = "calling"
            /\ \E status \in {"in_doubt", "queued"} :
                 parcels' = [parcels EXCEPT ![p].status = status, ![p].spent = Counted(p)]
     ELSE UNCHANGED parcels
  /\ NothingRecorded /\ UNCHANGED <<instant, rounds>>

TimePasses ==
  /\ instant < LastInstant /\ instant' = instant + 1
  /\ UNCHANGED <<gauge, parcels, callers, bulletin, ledger, rounds>>

BreakerNext ==
  \/ \E p \in Deliveries : TakeDelivery(p) \/ DeliveryAnswered(p)
  \/ SweepAsks \/ SweepAnswered \/ ProbeAsks \/ ProbeAnswered
  \/ RegisterTarget \/ DeliverAlert \/ KillProcess \/ TimePasses

BreakerSpec == BreakerInit /\ [][BreakerNext]_breakerVars

-----------------------------------------------------------------------------
\* Types.
BreakerTypeOK ==
  /\ instant \in FirstInstant .. LastInstant
  /\ gauge \in [row: BOOLEAN, streak: Nat, until: Nat, ping: Nat, answer: Nat]
  /\ parcels \in [Deliveries -> Parcel] /\ callers \subseteq {"sweep", "probe"}
  /\ bulletin \in [pending: Nat, recorded: Nat, alerted: Nat]
  /\ ledger \in [refusals: Nat, refused: Nat, tripped: Nat, patient: BOOLEAN]
  /\ rounds \in [probed: Nat, rest: Nat, rushed: BOOLEAN]

\* After Threshold refusals without an answer the provider is left alone for a Pause
\* from the last of them, whoever it was told to and whatever was in flight.
PausedAfterRefusals ==
  ledger.refusals >= Threshold /\ instant < ledger.refused + Pause => Blocked

\* A target that answered since, or was refused too seldom, is never paused.
OnlyRefusalsPause ==
  Blocked => ledger.refusals >= Threshold /\ gauge.until <= ledger.refused + Pause

\* "lastPingAt ... un-throttled the live token probes for exactly the dead credential the
\* breaker is meant to stop calling" (auth-circuit.ts): no failure brings a probe forward.
ProbesAreSpaced == ~rounds.rushed

\* A target that tripped is on its way to the operator, or he was alerted of it so recently
\* that both cooldowns together explain the silence.
TripIsTold ==
  ledger.tripped # 0 => \/ bulletin.pending > 0
                        \/ bulletin.alerted # 0 /\ bulletin.alerted + AlertQuiet + Pause >= ledger.tripped

\* The breaker pauses exactly what is refused, and says so.
BreakerHolds == PausedAfterRefusals /\ OnlyRefusalsPause /\ ProbesAreSpaced /\ TripIsTold

\* "an older one says nothing about whether the platform is up now", a newer one ends the
\* wait (queue.ts, answeredSince): false, the claim has touched the row by then.
AnswerEndsTheWait == ~ledger.patient
=============================================================================
