------------------------- MODULE PublishQueueClaims -------------------------
(***************************************************************************)
(* What comments and command summaries of the repository say of the queue  *)
(* and TLC refutes in PublishQueue.  PublishedIsWhole is a run of the      *)
(* project; README.md tells the story of each and how to reproduce it.     *)
(***************************************************************************)
EXTENDS PublishQueue

\* requeue.ts: rebuilding a payload without the ids is how a half-published
\* chain was retried into a second copy; delivery-payload.ts: that state is the
\* only thing between a retry and a second post; registry.ts, resume-from: "let
\* the retry write the rest".
RetryWritesTheRest == NoDuplicate

\* queue.ts: losing the claim to the cancellation is the job's ending, "and it
\* is written here".
CancelledWorkEnds ==
  \A t \in Targets, i \in JobIds :
    (declared /\ RowStatus(t, i, "queued") /\ jobs[t][i].resume = 0)
      ~> (~declared \/ ~RowStatus(t, i, "queued"))

\* ambiguous-publication.ts: transport loss after a public mutation is ambiguous.
\* An attempt that ends as its post lands, with no answer, leaves it in doubt.
LostAnswerIsInDoubt ==
  [][\A w \in Workers :
       (Holds(w) /\ live' # live /\ attempt'[w] = IdleAttempt)
         => jobs'[attempt[w].target][attempt[w].id].status = "verification_required"]_vars

\* draft-lifecycle.ts: once something of a publication is out "the jobs stay as
\* the record of it".
RecordIsKept ==
  [][\A t \in Targets : \A i \in Rows(t) :
       jobs[t][i].resume > 0 => jobs'[t][i].status # "no_row"]_vars

\* queue.ts: "a half-sent thread is finished, because a severed chain is worse
\* than one more reply".  A target reported published has all of its posts out.
PublishedIsWhole ==
  \A t \in Targets :
    mirror[t].status = "published" => \A p \in DOMAIN live[t] : live[t][p] > 0
=============================================================================
